---------------------------- MODULE ConnectionsPage ----------------------------
(***************************************************************************)
(* The integration registry: the list of connections with the drawer that  *)
(* shows, edits and clones one, the form of a new one, the columns of the  *)
(* list, and the settings that unlock the key of the encrypted fields      *)
(* (src/frontend/app/(app)/integration-registry and components/            *)
(* integration-registry), over integration_registry_service.py.            *)
(*                                                                         *)
(* Of a connection there are the contact, a field that a save leaves when  *)
(* it comes empty, and the address, the endpoints, which it replaces.      *)
(* Both are encrypted under the key that is in the memory of the server.   *)
(***************************************************************************)
EXTENDS Integers, FiniteSets

CONSTANTS
    Conns,        \* ids of connections, numbers
    FirstConns,   \* those there are at first
    Texts,        \* what is typed into a field
    FirstText,    \* what is there at first
    Layouts,      \* sets of columns
    MaxGestures,  \* bound: gestures of the user
    MaxRequests,  \* bound: requests before another gesture
    MaxOthers,    \* bound: restarts, keys unlocked by others, and tokens renewed
    MaxLost       \* bound: requests that fail

None == 0
Empty == ""
Standard == "standard"   \* IR_DEFAULT_COLUMNS

ConnectionsAssumption ==
    /\ Conns \subseteq Nat \ {None} /\ FirstConns \subseteq Conns
    /\ Empty \notin Texts /\ FirstText # Empty
    /\ Standard \in Layouts /\ Empty \notin Layouts
    /\ {MaxGestures, MaxRequests, MaxOthers, MaxLost} \subseteq Nat

VARIABLES
    key,       \* of the tenant: made, how many there were, and loaded, the one in memory
    rows,      \* connections: env, version, and the encrypted contact and address
    prefs,     \* the columns stored for the user
    page,      \* which page is open
    list,      \* rows, loading and envFilter of the list
    drawer,    \* the connection it is open for, instance, loading, editing, the form, cloning
    fresh,     \* newDrawerOpen, the form of a new connection, and saving
    columns,   \* visibleCols, and selected and open of the column picker
    settings,  \* crypto and loading of the context, and saving of the settings
    requests,  \* requests of the browser that were not answered
    stale,     \* history: parts of the pages that another load has to bring up to date
    erased,    \* history: addresses that a save dropped, though nobody removed them
    tally      \* gestures, acts of others and losses so far

registryVars == <<key, rows, prefs, page, list, drawer, fresh, columns, settings, requests,
                  stale, erased, tally>>
pageVars == <<page, list, drawer, fresh, columns, settings>>

NoCell == [text |-> Empty, key |-> 0]
NoRow == [env |-> "none", version |-> 0, contact |-> NoCell, address |-> NoCell]
NoForm == [contact |-> Empty, address |-> Empty, version |-> -1, cut |-> FALSE,
           waited |-> FALSE, saving |-> FALSE]
NotSeen == [env |-> "none", version |-> 0, contact |-> Empty, address |-> Empty, locked |-> FALSE]
Closed == [conn |-> None, seen |-> NotSeen, loading |-> FALSE, editing |-> FALSE,
           form |-> NoForm, cloning |-> FALSE]

(* _encrypt_value and _decrypt_value: a text of another key cannot be read. *)
Encrypted(text) == IF text = Empty THEN NoCell ELSE [text |-> text, key |-> key.loaded]
Readable(cell) == IF cell.key = key.loaded THEN cell.text ELSE Empty

KeyState == IF key.loaded = 0 THEN "locked" ELSE "unlocked"

(* build_instance_read_data *)
Seen(c) == [env |-> rows[c].env, version |-> rows[c].version, locked |-> key.loaded = 0,
            contact |-> Readable(rows[c].contact), address |-> Readable(rows[c].address)]

(* list_instances, of a filter *)
Listed(env) == [c \in Conns |-> IF rows[c].env = "none" \/ env \notin {Empty, rows[c].env}
                                THEN NotSeen ELSE Seen(c)]

Init ==
    /\ key \in [made : {1}, loaded : {0, 1}]
    /\ rows = [c \in Conns |-> IF c \notin FirstConns THEN NoRow ELSE
                 [env |-> "UAT", version |-> 1, contact |-> [text |-> FirstText, key |-> 1],
                  address |-> [text |-> FirstText, key |-> 1]]]
    /\ prefs = Empty
    /\ page = "connections"
    /\ list = [lines |-> Listed(Empty), loading |-> FALSE, env |-> Empty]
    /\ drawer = Closed
    /\ fresh = [open |-> FALSE, form |-> NoForm]
    /\ columns = [shown |-> Standard, picked |-> Standard, open |-> FALSE]
    /\ settings = [shown |-> KeyState, loading |-> FALSE, saving |-> FALSE]
    /\ requests = {} /\ stale = {} /\ erased = {}
    /\ tally = [gestures |-> 0, others |-> 0, lost |-> 0]

(***************************************************************************)
(* Requests.  One is of a form, a drawer, a page or the layout; its answer *)
(* finds the innermost of them that is still there, which is its "home".   *)
(***************************************************************************)

Gesture == tally.gestures < MaxGestures /\ tally' = [tally EXCEPT !.gestures = @ + 1]
Reads == {"list", "get", "prefs", "crypto"}

Request(op, home) ==
    [op |-> op, home |-> home, step |-> "sent", conn |-> None, env |-> list.env, form |-> NoForm,
     value |-> Empty, seen |-> NotSeen, lines |-> [c \in Conns |-> NotSeen]]
ListLoad(env) == [Request("list", "page") EXCEPT !.env = env]
Get(c) == [Request("get", "drawer") EXCEPT !.conn = c]

Send(qs) == /\ Cardinality(requests) < MaxRequests
            /\ requests' = requests \cup qs

UnderWay(op) == \E q \in requests : q.op = op

(* A load brings its part up to date, unless it meets another one. *)
Loading(op, part) == IF UnderWay(op) THEN stale \cup {part} ELSE stale \ {part}

(* Once their homes are gone, reads are without effect, and writes go on. *)
Homeless(qs, gone, home) ==
    {[q EXCEPT !.home = IF @ \in gone THEN home ELSE @] :
        q \in {q \in qs : ~(q.op \in Reads /\ q.home \in gone)}}

FormOf(seen) == [NoForm EXCEPT !.contact = seen.contact, !.address = seen.address,
                               !.version = seen.version]

(***************************************************************************)
(* The page of the connections                                             *)
(***************************************************************************)

Sheet == drawer.conn # None \/ fresh.open \/ columns.open
Connections == page = "connections" /\ UNCHANGED <<key, rows, prefs, page, erased>>
Table == Connections /\ ~Sheet

(* The effect of loadData, after a change of the filter *)
Filter(env) ==
    /\ Table /\ Gesture /\ env # list.env
    /\ Send({ListLoad(env)})
    /\ list' = [list EXCEPT !.env = env, !.loading = TRUE]
    /\ stale' = Loading("list", "list")
    /\ UNCHANGED <<drawer, fresh, columns, settings>>

(* A row, and the effect of loadInstance *)
OpenRow(c) ==
    /\ Table /\ Gesture /\ ~list.loading /\ list.lines[c] # NotSeen
    /\ Send({Get(c)})
    /\ drawer' = [Closed EXCEPT !.conn = c, !.loading = TRUE]
    /\ stale' = stale \ {"drawer"}
    /\ UNCHANGED <<list, fresh, columns, settings>>

CloseDrawer ==
    /\ Connections /\ drawer.conn # None
    /\ drawer' = Closed
    /\ requests' = Homeless(requests, {"form", "drawer"}, "page")
    /\ UNCHANGED <<list, fresh, columns, settings, stale, tally>>

(* Mutant: a connection whose fields are locked can be edited, too. *)
EditLocked ==
    /\ Connections /\ Gesture /\ drawer.seen # NotSeen /\ ~drawer.editing
    /\ drawer' = [drawer EXCEPT !.editing = TRUE,
                                !.form = IF drawer.loading THEN @ ELSE FormOf(drawer.seen)]
    /\ UNCHANGED <<list, fresh, columns, settings, requests, stale>>

(* Edit; the form is there once the connection has been loaded. *)
Edit ==
    /\ Connections /\ Gesture /\ drawer.seen # NotSeen /\ ~drawer.seen.locked /\ ~drawer.editing
    /\ drawer' = [drawer EXCEPT !.editing = TRUE,
                                !.form = IF drawer.loading THEN @ ELSE FormOf(drawer.seen)]
    /\ UNCHANGED <<list, fresh, columns, settings, requests, stale>>

CancelEdit ==
    /\ Connections /\ drawer.form # NoForm /\ ~drawer.form.saving
    /\ drawer' = [drawer EXCEPT !.editing = FALSE, !.form = NoForm]
    /\ UNCHANGED <<list, fresh, columns, settings, requests, stale, tally>>

(* setField, setEndpoint and removeEndpoint, of either form *)
Typed(form, field, text) ==
    IF field = "contact" THEN [form EXCEPT !.contact = text]
    ELSE [form EXCEPT !.address = text, !.cut = text = Empty]

Type(field, text) ==
    /\ Connections /\ Gesture
    /\ \/ /\ drawer.form # NoForm
          /\ drawer' = [drawer EXCEPT !.form = Typed(@, field, text)] /\ UNCHANGED fresh
       \/ /\ fresh.open
          /\ fresh' = [fresh EXCEPT !.form = Typed(@, field, text)] /\ UNCHANGED drawer
    /\ UNCHANGED <<list, columns, settings, requests, stale>>

(* handleSave of a connection *)
Save ==
    /\ Connections /\ drawer.form # NoForm /\ ~drawer.form.saving
    /\ Send({[Request("put", "form") EXCEPT !.conn = drawer.conn, !.form = drawer.form]})
    /\ drawer' = [drawer EXCEPT !.form.saving = TRUE]
    /\ UNCHANGED <<list, fresh, columns, settings, stale, tally>>

(* handleCloneToProd *)
Clone ==
    /\ Connections /\ Gesture
    /\ drawer.seen.env = "UAT" /\ ~drawer.seen.locked /\ ~drawer.editing /\ ~drawer.cloning
    /\ Send({[Request("clone", "drawer") EXCEPT !.conn = drawer.conn]})
    /\ drawer' = [drawer EXCEPT !.cloning = TRUE]
    /\ UNCHANGED <<list, fresh, columns, settings, stale>>

(* New Connection, and the form of it saved or closed *)
OpenNew ==
    /\ Table /\ Gesture /\ settings.shown # "locked"
    /\ fresh' = [open |-> TRUE, form |-> NoForm]
    /\ UNCHANGED <<list, drawer, columns, settings, requests, stale>>

SaveNew ==
    /\ Connections /\ fresh.open /\ ~fresh.form.saving
    /\ Send({[Request("post", "form") EXCEPT !.form = fresh.form]})
    /\ fresh' = [fresh EXCEPT !.form.saving = TRUE]
    /\ UNCHANGED <<list, drawer, columns, settings, stale, tally>>

CloseNew ==
    /\ Connections /\ fresh.open
    /\ fresh' = [open |-> FALSE, form |-> NoForm]
    /\ requests' = Homeless(requests, {"form"}, "page")
    /\ UNCHANGED <<list, drawer, columns, settings, stale, tally>>

(* The column picker keeps what it has selected, and starts with the standard. *)
OpenPicker ==
    /\ Table /\ Gesture
    /\ columns' = [columns EXCEPT !.open = TRUE]
    /\ UNCHANGED <<list, drawer, fresh, settings, requests, stale>>

Pick(layout) ==
    /\ Connections /\ columns.open /\ columns.picked # layout /\ Gesture
    /\ columns' = [columns EXCEPT !.picked = layout]
    /\ UNCHANGED <<list, drawer, fresh, settings, requests, stale>>

ClosePicker ==
    /\ Connections /\ columns.open
    /\ columns' = [columns EXCEPT !.open = FALSE]
    /\ UNCHANGED <<list, drawer, fresh, settings, requests, stale, tally>>

(* Mutant: the columns that are applied are not stored. *)
ApplyColumnsHere ==
    /\ Connections /\ columns.open
    /\ columns' = [columns EXCEPT !.shown = columns.picked, !.open = FALSE]
    /\ UNCHANGED <<list, drawer, fresh, settings, requests, stale, tally>>

(* onApply *)
ApplyColumns ==
    /\ Connections /\ columns.open
    /\ columns' = [columns EXCEPT !.shown = columns.picked, !.open = FALSE]
    /\ Send({[Request("columns", "page") EXCEPT !.value = columns.picked]})
    /\ stale' = IF UnderWay("columns") \/ UnderWay("prefs") THEN stale \cup {"columns"}
                                                            ELSE stale \ {"columns"}
    /\ UNCHANGED <<list, drawer, fresh, settings, tally>>

(***************************************************************************)
(* The page of the settings, the way between the pages, and new tokens     *)
(***************************************************************************)

Leave(qs) == Homeless(qs, {"form", "drawer", "page"}, "nowhere")

GoToSettings ==
    /\ page = "connections" /\ page' = "settings" /\ ~Sheet /\ Gesture
    /\ requests' = Leave(requests)
    /\ settings' = [settings EXCEPT !.saving = FALSE]
    /\ UNCHANGED <<key, rows, prefs, list, drawer, fresh, columns, stale, erased>>

(* The page of the connections opens with the standard columns and loads its list. *)
GoToConnections ==
    /\ page = "settings" /\ page' = "connections" /\ Gesture
    /\ requests' = Leave(requests) \cup {ListLoad(Empty), Request("prefs", "page")}
    /\ list' = [lines |-> [c \in Conns |-> NotSeen], loading |-> TRUE, env |-> Empty]
    /\ columns' = [shown |-> Standard, picked |-> Standard, open |-> FALSE]
    /\ stale' = (stale \ {"list", "columns"})
                    \cup IF UnderWay("columns") THEN {"columns"} ELSE {}
    /\ UNCHANGED <<key, rows, prefs, drawer, fresh, settings, erased>>

(* handleUnlock, with the passphrase of the key there is or for a new key; handleLock *)
ClickKey(op) ==
    /\ page = "settings" /\ Gesture /\ ~settings.loading /\ ~settings.saving
    /\ op \in IF settings.shown = "unlocked" THEN {"lock"} ELSE {"unlock", "reinitialize"}
    /\ Send({Request(op, "page")})
    /\ settings' = [settings EXCEPT !.saving = TRUE]
    /\ UNCHANGED <<key, rows, prefs, page, list, drawer, fresh, columns, stale, erased>>

(* The effects that depend on the token: refresh, loadData and loadInstance *)
Renew ==
    /\ tally.others < MaxOthers /\ tally' = [tally EXCEPT !.others = @ + 1]
    /\ LET here == page = "connections"
           open == drawer.conn # None
           loads == {Request("crypto", "layout")} \cup (IF here THEN {ListLoad(list.env)} ELSE {})
                    \cup IF open THEN {Get(drawer.conn)} ELSE {}
           parts == {"crypto"} \cup (IF here THEN {"list"} ELSE {})
                    \cup IF open THEN {"drawer"} ELSE {}
       IN  /\ requests' = (IF open THEN Homeless(requests, {"form"}, "drawer") ELSE requests)
                              \cup loads
           /\ settings' = [settings EXCEPT !.loading = TRUE]
           /\ list' = IF here THEN [list EXCEPT !.loading = TRUE] ELSE list
           /\ drawer' = IF ~open THEN drawer ELSE
                            [drawer EXCEPT !.loading = TRUE, !.editing = FALSE, !.form = NoForm]
           /\ stale' = (stale \ parts) \cup
                  {part \in parts : UnderWay(IF part = "drawer" THEN "get" ELSE part)}
    /\ UNCHANGED <<key, rows, prefs, page, fresh, columns, erased>>

(***************************************************************************)
(* The server                                                              *)
(***************************************************************************)

Answered(q, a) == requests' = (requests \ {q}) \cup {a}
Done(q) == [q EXCEPT !.step = "done"]
Failed(q) == [q EXCEPT !.step = "failed"]

ServeRead(q) ==
    /\ q.op \in Reads
    /\ Answered(q, CASE q.op = "list" -> [Done(q) EXCEPT !.lines = Listed(q.env)]
                     [] q.op = "get" -> [Done(q) EXCEPT !.seen = Seen(q.conn)]
                     [] q.op = "prefs" -> [Done(q) EXCEPT !.value = prefs]
                     [] q.op = "crypto" -> [Done(q) EXCEPT !.value = KeyState])
    /\ UNCHANGED <<key, rows, prefs, stale, erased>>

(* update_instance, with the payload of handleSave: an empty contact is no contact given,
   an empty address is no endpoint. *)
ServePut(q) ==
    /\ q.op = "put"
    /\ LET row == rows[q.conn]
           dropped == row.address # NoCell /\ q.form.address = Empty /\ ~q.form.cut
       IN  IF key.loaded = 0 THEN Answered(q, Failed(q)) /\ UNCHANGED <<rows, stale, erased>>
           ELSE /\ rows' = [rows EXCEPT ![q.conn] =
                       [@ EXCEPT !.version = @ + 1,
                                 !.contact = IF q.form.contact = Empty THEN @
                                             ELSE Encrypted(q.form.contact),
                                 !.address = Encrypted(q.form.address)]]
                /\ Answered(q, Done(q))
                /\ stale' = stale \cup (IF q.home = "nowhere" THEN {"list"} ELSE {})
                                  \cup IF q.home = "page" THEN {"drawer"} ELSE {}
                /\ erased' = erased \cup IF ~dropped THEN {} ELSE
                       {[under |-> row.address.key, by |-> key.loaded,
                         older |-> q.form.version # row.version, waited |-> q.form.waited]}
    /\ UNCHANGED <<key, prefs>>

(* create_instance and clone_instance_to_prod, which keeps what is encrypted *)
ServeNew(q) ==
    /\ q.op \in {"post", "clone"}
    /\ IF key.loaded = 0 THEN Answered(q, Failed(q)) /\ UNCHANGED <<rows, stale>>
       ELSE /\ \E c \in {c \in Conns : rows[c] = NoRow} :
                  /\ \A d \in Conns : rows[d] = NoRow => c <= d
                  /\ rows' = [rows EXCEPT ![c] =
                         IF q.op = "clone" THEN [rows[q.conn] EXCEPT !.env = "PROD", !.version = 1]
                         ELSE [env |-> "UAT", version |-> 1,
                               contact |-> Encrypted(q.form.contact),
                               address |-> Encrypted(q.form.address)]]
            /\ Answered(q, Done(q))
            /\ stale' = stale \cup IF q.home = "nowhere" THEN {"list"} ELSE {}
    /\ UNCHANGED <<key, prefs, erased>>

(* save_grid_prefs *)
ServeColumns(q) ==
    /\ q.op = "columns"
    /\ prefs' = q.value
    /\ Answered(q, Done(q))
    /\ UNCHANGED <<key, rows, stale, erased>>

(* unlock_tenant_key and lock_tenant_key *)
ServeKey(q) ==
    /\ q.op \in {"unlock", "reinitialize", "lock"}
    /\ key' = CASE q.op = "lock" -> [key EXCEPT !.loaded = 0]
                [] q.op = "unlock" -> [key EXCEPT !.loaded = key.made]
                [] q.op = "reinitialize" -> [made |-> key.made + 1, loaded |-> key.made + 1]
    /\ Answered(q, Done(q))
    /\ stale' = stale \cup IF q.home = "nowhere" THEN {"list", "drawer"} ELSE {}
    /\ UNCHANGED <<rows, prefs, erased>>

Serve(q) ==
    /\ q.step = "sent"
    /\ ServeRead(q) \/ ServePut(q) \/ ServeNew(q) \/ ServeColumns(q) \/ ServeKey(q)
    /\ UNCHANGED <<pageVars, tally>>

(* A request that fails, before or after it was served *)
Lose(q) ==
    /\ tally.lost < MaxLost /\ q.step # "failed"
    /\ tally' = [tally EXCEPT !.lost = @ + 1]
    /\ Answered(q, Failed(q))
    /\ stale' = {"list", "drawer", "crypto", "columns"}
    /\ UNCHANGED <<key, rows, prefs, pageVars, erased>>

(* The server restarts, which forgets the key, or another administrator unlocks it. *)
KeyByOthers(loaded) ==
    /\ tally.others < MaxOthers /\ tally' = [tally EXCEPT !.others = @ + 1]
    /\ loaded # key.loaded /\ loaded \in {0, key.made}
    /\ key' = [key EXCEPT !.loaded = loaded]
    /\ stale' = stale \cup {"list", "drawer", "crypto"}
    /\ UNCHANGED <<rows, prefs, pageVars, requests, erased>>

(***************************************************************************)
(* Answers                                                                 *)
(***************************************************************************)

ListAnswered(q) ==
    /\ q.op = "list"
    /\ requests' = requests \ {q}
    /\ list' = [list EXCEPT !.loading = FALSE, !.lines = IF q.step = "done" THEN q.lines ELSE @]
    /\ UNCHANGED <<drawer, fresh, columns, settings, stale>>

(* A form that waited for it is made of what is there now. *)
GetAnswered(q) ==
    /\ q.op = "get"
    /\ requests' = requests \ {q}
    /\ LET seen == IF q.step = "done" THEN q.seen ELSE drawer.seen
       IN  drawer' = [drawer EXCEPT !.loading = FALSE, !.seen = seen,
                         !.form = IF drawer.editing /\ @ = NoForm
                                  THEN [FormOf(seen) EXCEPT !.waited = TRUE] ELSE @]
    /\ UNCHANGED <<list, fresh, columns, settings, stale>>

PrefsAnswered(q) ==
    /\ q.op \in {"prefs", "columns"}
    /\ requests' = requests \ {q}
    /\ columns' = IF q.op = "prefs" /\ q.step = "done" /\ q.value # Empty
                  THEN [columns EXCEPT !.shown = q.value] ELSE columns
    /\ UNCHANGED <<list, drawer, fresh, settings, stale>>

CryptoAnswered(q) ==
    /\ q.op = "crypto"
    /\ requests' = requests \ {q}
    /\ settings' = [settings EXCEPT !.loading = FALSE,
                                    !.shown = IF q.step = "done" THEN q.value ELSE "unknown"]
    /\ UNCHANGED <<list, drawer, fresh, columns, stale>>

(* loadData of the render in which a handler was called: the filter may be another now. *)
Refreshed(q) ==
    /\ list' = [list EXCEPT !.loading = TRUE]
    /\ stale' = IF q.env # list.env THEN stale \cup {"list"} ELSE Loading("list", "list")

(* Mutant: the list is not loaded after an edit. *)
PutAnsweredQuietly(q) ==
    /\ q.op = "put"
    /\ requests' = (requests \ {q}) \cup IF q.step = "done" THEN {Get(q.conn)} ELSE {}
    /\ drawer' = IF q.step = "done" /\ q.home \in {"form", "drawer"}
                 THEN [drawer EXCEPT !.editing = FALSE, !.form = NoForm, !.loading = TRUE]
                 ELSE drawer
    /\ UNCHANGED <<list, fresh, columns, settings, stale>>

(* handleEditSaved, by which whichever form is there is closed *)
PutAnswered(q) ==
    /\ q.op = "put"
    /\ LET others == requests \ {q}
           here == q.home \in {"form", "drawer"}
       IN  IF q.step = "failed" \/ q.home = "nowhere"
           THEN /\ requests' = others
                /\ drawer' = IF q.home = "form" THEN [drawer EXCEPT !.form.saving = FALSE] ELSE drawer
                /\ UNCHANGED <<list, stale>>
           ELSE /\ requests' = {ListLoad(q.env)} \cup
                       IF here THEN Homeless(others, {"form"}, "drawer") \cup {Get(q.conn)} ELSE others
                /\ drawer' = IF here THEN [drawer EXCEPT !.editing = FALSE, !.form = NoForm,
                                                         !.loading = TRUE] ELSE drawer
                /\ list' = [list EXCEPT !.loading = TRUE]
                /\ stale' = (stale \ ({"list"} \cup IF here THEN {"drawer"} ELSE {})) \cup
                       (IF q.env # list.env \/ UnderWay("list") THEN {"list"} ELSE {}) \cup
                       IF here /\ UnderWay("get") THEN {"drawer"} ELSE {}
    /\ UNCHANGED <<fresh, columns, settings>>

(* handleCloneToProd closes whichever drawer is open. *)
CloneAnswered(q) ==
    /\ q.op = "clone"
    /\ IF q.step = "failed" \/ q.home = "nowhere"
       THEN /\ requests' = requests \ {q}
            /\ drawer' = IF q.home = "drawer" THEN [drawer EXCEPT !.cloning = FALSE] ELSE drawer
            /\ UNCHANGED <<list, stale>>
       ELSE /\ requests' = {ListLoad(q.env)} \cup
                   Homeless(requests \ {q}, IF drawer.conn = None THEN {} ELSE {"form", "drawer"}, "page")
            /\ drawer' = Closed
            /\ Refreshed(q)
    /\ UNCHANGED <<fresh, columns, settings>>

(* onSaved of a new connection closes whichever form of one is open. *)
PostAnswered(q) ==
    /\ q.op = "post"
    /\ IF q.step = "failed" \/ q.home = "nowhere"
       THEN /\ requests' = requests \ {q}
            /\ fresh' = IF q.home = "form" THEN [fresh EXCEPT !.form.saving = FALSE] ELSE fresh
            /\ UNCHANGED <<list, stale>>
       ELSE /\ requests' = {ListLoad(q.env)} \cup
                   Homeless(requests \ {q}, IF fresh.open THEN {"form"} ELSE {}, "page")
            /\ fresh' = [open |-> FALSE, form |-> NoForm]
            /\ Refreshed(q)
    /\ UNCHANGED <<drawer, columns, settings>>

(* refresh of the context, whether the page of the settings is open or not *)
KeyAnswered(q) ==
    /\ q.op \in {"unlock", "reinitialize", "lock"}
    /\ LET done == q.step = "done"
       IN  /\ requests' = (requests \ {q}) \cup IF done THEN {Request("crypto", "layout")} ELSE {}
           /\ settings' = [settings EXCEPT !.loading = @ \/ done,
                                           !.saving = @ /\ q.home # "page"]
           /\ stale' = IF done THEN Loading("crypto", "crypto") ELSE stale
    /\ UNCHANGED <<list, drawer, fresh, columns>>

Answer(q) ==
    /\ q.step # "sent"
    /\ \/ ListAnswered(q) \/ GetAnswered(q) \/ PrefsAnswered(q) \/ CryptoAnswered(q)
       \/ PutAnswered(q) \/ CloneAnswered(q) \/ PostAnswered(q) \/ KeyAnswered(q)
    /\ UNCHANGED <<key, rows, prefs, page, erased, tally>>

Next ==
    \/ \E env \in {Empty, "UAT", "PROD"} : Filter(env)
    \/ \E c \in Conns : OpenRow(c)
    \/ CloseDrawer \/ Edit \/ CancelEdit \/ Save \/ Clone
    \/ \E field \in {"contact", "address"}, text \in Texts \cup {Empty} : Type(field, text)
    \/ OpenNew \/ SaveNew \/ CloseNew
    \/ OpenPicker \/ ClosePicker \/ ApplyColumns \/ \E layout \in Layouts : Pick(layout)
    \/ GoToSettings \/ GoToConnections \/ Renew
    \/ \E op \in {"unlock", "reinitialize", "lock"} : ClickKey(op)
    \/ \E q \in requests : Serve(q) \/ Lose(q) \/ Answer(q)
    \/ \E loaded \in {0, key.made} : KeyByOthers(loaded)

Spec == Init /\ [][Next]_registryVars

(***************************************************************************)
(* Properties                                                              *)
(***************************************************************************)

(* The types of the variables. *)
TypeOK ==
    /\ key.made \in Nat /\ key.loaded \in 0..key.made
    /\ \A c \in Conns : /\ rows[c].env \in {"none", "UAT", "PROD"} /\ rows[c].version \in Nat
                       /\ {rows[c].contact.key, rows[c].address.key} \subseteq 0..key.made
    /\ prefs \in Layouts \cup {Empty} /\ {columns.shown, columns.picked} \subseteq Layouts
    /\ drawer.conn \in Conns \cup {None} /\ (drawer.form # NoForm => drawer.editing)
    /\ settings.shown \in {"locked", "unlocked", "unknown"}
    /\ \A q \in requests : q.step \in {"sent", "done", "failed"}
    /\ stale \subseteq {"list", "drawer", "crypto", "columns"}

(* The endpoints of a connection are lost to a save that was about something else only
   when they were encrypted under a key there is no more, when the form was made before they
   were, or when Edit was clicked while the connection was loaded again, since the button
   looks at what was there before: never because of a form of locked fields. *)
NothingErased == \A e \in erased : e.under # e.by \/ e.older \/ e.waited

(* What is shown is what the server has and the key can read, of the list, the connection in
   the drawer and the state of the key, when nothing is under way; unless a load was lost,
   met another one or asked with a former filter, a drawer closed over a save, or others
   changed the key, until it is loaded again. *)
QuietPagesAreCurrent ==
    requests = {} =>
        /\ page = "connections" /\ "list" \notin stale => list.lines = Listed(list.env)
        /\ drawer.conn # None /\ "drawer" \notin stale => drawer.seen = Seen(drawer.conn)
        /\ "crypto" \notin stale => settings.shown = KeyState

(* The columns that are shown are those that are stored, or the standard ones. *)
QuietColumnsAgree ==
    requests = {} /\ page = "connections" /\ "columns" \notin stale =>
        columns.shown = IF prefs = Empty THEN Standard ELSE prefs

===============================================================================

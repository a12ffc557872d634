------------------------------- MODULE UsersPage -------------------------------
(***************************************************************************)
(* The members of a tenant: the page that keeps them                       *)
(* (src/frontend/app/(app)/users/page.tsx) and the endpoints behind it     *)
(* (endpoints/users.py).  What becomes of a link by which a user sets a    *)
(* password is in PasswordLinks.                                           *)
(*                                                                         *)
(* Of the roles of a member one is kept; a request that is refused for     *)
(* its roles, or for being about the administrator, is one that fails.     *)
(***************************************************************************)
EXTENDS Integers, FiniteSets

CONSTANTS
    Users,        \* ids of users, in this tenant or not
    FirstMembers, \* the members at first; the others have no account
    Roles,        \* roles a member may have
    FirstRole,    \* the one that every member has at first
    Filters,      \* what the list may be filtered by: [disabled, role]
    FirstFilter,  \* showDisabled and roleFilter at first
    MaxGestures,  \* bound: gestures of the administrator
    MaxRequests,  \* bound: requests at a time
    MaxLost       \* bound: requests that fail

Nobody == 0
Any == ""         \* roleFilter, when it is not set; no edited role

UsersAssumption ==
    /\ Users \subseteq Nat \ {Nobody} /\ FirstMembers \subseteq Users
    /\ Any \notin Roles /\ FirstRole \in Roles
    /\ Filters \subseteq [disabled : BOOLEAN, role : Roles \cup {Any}] /\ FirstFilter \in Filters
    /\ {MaxGestures, MaxRequests, MaxLost} \subseteq Nat

VARIABLES
    members,    \* the memberships: status, or "none", and role; and full_name, of the user
    list,       \* users, loading, and the filter
    row,        \* rowSavingId and editingUserId
    edited,     \* editedTenantRoles
    activity,   \* activityUser, whose rows there are, and activityLoading
    reset,      \* resetTarget, resetLoading, and whose link resetResult is
    requests,   \* requests of the page that were not answered
    doubt,      \* history: the list was loaded twice at a time, or with a former filter
    past,       \* history: rows saved at a time; activities read at a time; edits dropped
    tally       \* gestures and losses so far

usersVars == <<members, list, row, edited, activity, reset, requests, doubt, past, tally>>
pageVars == <<list, row, edited, activity, reset>>

NoMember == [status |-> "none", role |-> Any, name |-> ""]

(* list_tenant_users and list_users: the rows a filter lets through *)
Filtered(filter) ==
    [u \in Users |-> IF \/ members[u].status = "none"
                        \/ (members[u].status = "disabled" /\ ~filter.disabled)
                        \/ filter.role \notin {Any, members[u].role}
                     THEN NoMember ELSE members[u]]

Init ==
    /\ members = [u \in Users |-> IF u \in FirstMembers
                                  THEN [status |-> "active", role |-> FirstRole, name |-> "a"]
                                  ELSE NoMember]
    /\ list = [rows |-> Filtered(FirstFilter), loading |-> FALSE, filter |-> FirstFilter]
    /\ row = [saving |-> Nobody, naming |-> Nobody]
    /\ edited = [u \in Users |-> Any]
    /\ activity = [user |-> Nobody, of |-> Nobody, loading |-> FALSE]
    /\ reset = [target |-> Nobody, loading |-> FALSE, result |-> 0]
    /\ requests = {} /\ doubt = FALSE
    /\ past = [mixed |-> FALSE, crossed |-> FALSE, dropped |-> FALSE]
    /\ tally = [gestures |-> 0, lost |-> 0]

(***************************************************************************)
(* The page: while the list is loaded, there is nothing else of it.        *)
(***************************************************************************)

Gesture == tally.gestures < MaxGestures /\ tally' = [tally EXCEPT !.gestures = @ + 1]
Dialog == activity.user # Nobody \/ reset.target # Nobody \/ reset.result # 0
Page == ~list.loading /\ UNCHANGED members
Table == Page /\ ~Dialog
Shown == {u \in Users : list.rows[u] # NoMember}

Loads(ops) == {q \in requests : q.op \in ops}

Request(op, id, value, filter) ==
    [op |-> op, id |-> id, value |-> value, filter |-> filter, then |-> "nothing",
     step |-> "sent", rows |-> [u \in Users |-> NoMember]]

Send(q) ==
    /\ Cardinality(requests) < MaxRequests /\ q \notin requests
    /\ requests' = requests \cup {q}

(* loadUsers, of a changed filter or a new token *)
Load(filter) ==
    /\ Page /\ ~Dialog /\ Gesture
    /\ Send(Request("load", Nobody, "", filter))
    /\ list' = [list EXCEPT !.loading = TRUE, !.filter = filter]
    /\ doubt' = (doubt \/ Loads({"name"}) # {})
    /\ UNCHANGED <<row, edited, activity, reset, past>>

(* Mutant: the editor of the roles stays enabled. *)
EditRolesAnytime(u, role) ==
    /\ Table /\ u \in Shown
    /\ role # (IF edited[u] = Any THEN list.rows[u].role ELSE edited[u])
    /\ edited' = [edited EXCEPT ![u] = role]
    /\ Gesture /\ UNCHANGED <<list, row, activity, reset, requests, doubt, past>>

(* TenantRolesEditor, once it is closed by Save *)
EditRoles(u, role) ==
    /\ Table /\ u \in Shown /\ row.saving # u
    /\ role # (IF edited[u] = Any THEN list.rows[u].role ELSE edited[u])
    /\ edited' = [edited EXCEPT ![u] = role]
    /\ Gesture /\ UNCHANGED <<list, row, activity, reset, requests, doubt, past>>

(* setRowSavingId: there is one row that is being saved, the latest. *)
SaveRow(op, u, value) ==
    /\ Table /\ u \in Shown /\ row.saving # u
    /\ Send(Request(op, u, value, list.filter))
    /\ row' = [row EXCEPT !.saving = u]
    /\ past' = [past EXCEPT !.mixed = @ \/ row.saving # Nobody]
    /\ UNCHANGED <<list, edited, activity, reset>>

(* saveTenantRoles, of a row that differs from what is shown *)
SaveRoles(u) ==
    /\ edited[u] \notin {Any, list.rows[u].role}
    /\ SaveRow("roles", u, edited[u])
    /\ UNCHANGED <<doubt, tally>>

(* setMembershipStatus and removeFromTenant *)
SaveStatus(u) ==
    /\ Gesture
    /\ \/ SaveRow("status", u, IF list.rows[u].status = "disabled" THEN "active" ELSE "disabled")
       \/ SaveRow("remove", u, "")
    /\ UNCHANGED doubt

(* startEditUser and cancelEditUser *)
EditName(u) ==
    /\ Table /\ u \in Shown \cup {Nobody} /\ row.naming # u
    /\ IF u = Nobody THEN row.saving # row.naming /\ UNCHANGED tally ELSE Gesture
    /\ row' = [row EXCEPT !.naming = u]
    /\ UNCHANGED <<list, edited, activity, reset, requests, doubt, past>>

(* saveUserName; by the Enter key also in a row that is being saved *)
SaveName ==
    /\ Table /\ row.naming \in Shown
    /\ Send(Request("name", row.naming, "b", list.filter))
    /\ row' = [row EXCEPT !.saving = row.naming]
    /\ past' = [past EXCEPT !.mixed = @ \/ row.saving # Nobody]
    /\ UNCHANGED <<list, edited, activity, reset, doubt, tally>>

(* onSubmit of the form, which is disabled while it is submitted *)
Add(u, role) ==
    /\ Table /\ Gesture /\ \A q \in requests : q.op # "add" /\ q.then # "added"
    /\ Send(Request("add", u, role, list.filter))
    /\ UNCHANGED <<pageVars, doubt, past>>

(* openActivity, and the sheet closed *)
Activity(u) ==
    /\ Page
    /\ \/ /\ ~Dialog /\ u \in Shown /\ row.saving # u /\ Gesture
          /\ Send(Request("activity", u, "", FirstFilter))
          /\ activity' = [user |-> u, of |-> Nobody, loading |-> TRUE]
          /\ past' = [past EXCEPT !.crossed = @ \/ Loads({"activity"}) # {}]
       \/ /\ u = Nobody /\ activity.user # Nobody
          /\ activity' = [activity EXCEPT !.user = Nobody]
          /\ UNCHANGED <<requests, past, tally>>
    /\ UNCHANGED <<list, row, edited, reset, doubt>>

(* setResetTarget, resetPassword, and its dialogs closed *)
Reset(u) ==
    /\ Page
    /\ \/ /\ ~Dialog /\ u \in Shown /\ row.saving # u /\ Gesture
          /\ reset' = [reset EXCEPT !.target = u] /\ UNCHANGED requests
       \/ /\ u = Nobody /\ ~reset.loading /\ (reset.target # Nobody \/ reset.result # 0)
          /\ reset' = [reset EXCEPT !.target = Nobody, !.result = 0]
          /\ UNCHANGED <<requests, tally>>
       \/ /\ u # Nobody /\ u = reset.target /\ ~reset.loading
          /\ Send(Request("reset", u, "", FirstFilter))
          /\ reset' = [reset EXCEPT !.loading = TRUE] /\ UNCHANGED tally
    /\ UNCHANGED <<list, row, edited, activity, doubt, past>>

(***************************************************************************)
(* The server                                                              *)
(***************************************************************************)

Answered(q, step) == requests' = (requests \ {q}) \cup {[q EXCEPT !.step = step]}

ServeLoad(q) ==
    /\ q.op = "load"
    /\ requests' = (requests \ {q}) \cup {[q EXCEPT !.step = "done", !.rows = Filtered(q.filter)]}
    /\ UNCHANGED members

(* update_tenant_membership, of a member *)
ServeChange(q) ==
    /\ q.op \in {"roles", "status", "name"}
    /\ IF members[q.id].status = "none"
       THEN UNCHANGED members /\ Answered(q, "failed")
       ELSE /\ members' = CASE q.op = "roles" -> [members EXCEPT ![q.id].role = q.value]
                            [] q.op = "status" -> [members EXCEPT ![q.id].status = q.value]
                            [] q.op = "name" -> [members EXCEPT ![q.id].name = q.value]
            /\ Answered(q, "done")

(* remove_user_from_tenant; the user stays. *)
ServeRemove(q) ==
    /\ q.op = "remove"
    /\ members' = [members EXCEPT ![q.id].status = "none"]
    /\ Answered(q, "done")

(* create_user: of a user who is there already the membership alone; active again, as well *)
ServeAdd(q) ==
    /\ q.op = "add"
    /\ members' = [members EXCEPT ![q.id] = [status |-> "active", role |-> q.value,
                                             name |-> IF @.name = "" THEN "a" ELSE @.name]]
    /\ Answered(q, "done")

(* reset_user_password, of a member *)
ServeReset(q) ==
    /\ q.op = "reset"
    /\ Answered(q, IF members[q.id].status = "none" THEN "failed" ELSE "done")
    /\ UNCHANGED members

Serve(q) ==
    /\ q.step = "sent"
    /\ ServeLoad(q) \/ ServeChange(q) \/ ServeRemove(q) \/ ServeAdd(q) \/ ServeReset(q)
    /\ UNCHANGED <<pageVars, doubt, past, tally>>

Lose(q) ==
    /\ tally.lost < MaxLost /\ q.step # "failed"
    /\ tally' = [tally EXCEPT !.lost = @ + 1]
    /\ Answered(q, "failed")
    /\ doubt' = TRUE
    /\ UNCHANGED <<members, pageVars, past>>

(***************************************************************************)
(* Answers                                                                 *)
(***************************************************************************)

(* loadUsers after a write, with the filter of the click *)
ReloadAfter(q) ==
    LET then == CASE q.op = "roles" -> "saved" [] q.op = "add" -> "added" [] OTHER -> "free"
        load == [Request("load", q.id, q.value, q.filter) EXCEPT !.then = then]
    IN  /\ load \notin requests
        /\ requests' = (requests \ {q}) \cup {load}
        /\ list' = [list EXCEPT !.loading = TRUE]
        /\ doubt' = (doubt \/ q.filter # list.filter \/ Loads({"load", "name"}) # {})
        /\ UNCHANGED <<row, edited, activity, reset, past>>

(* Mutant: a change of roles is shown without loading the list. *)
WriteAnsweredQuietly(q) ==
    /\ q.op \in {"roles", "status", "remove", "add"}
    /\ IF q.step = "done" /\ q.op # "roles"
       THEN ReloadAfter(q)
       ELSE /\ requests' = requests \ {q}
            /\ row' = IF q.op = "add" THEN row ELSE [row EXCEPT !.saving = Nobody]
            /\ UNCHANGED <<list, edited, activity, reset, doubt, past>>

(* The answer of a change; when it failed, the row is free at once. *)
WriteAnswered(q) ==
    /\ q.op \in {"roles", "status", "remove", "add"}
    /\ IF q.step = "done"
       THEN ReloadAfter(q)
       ELSE /\ requests' = requests \ {q}
            /\ row' = IF q.op = "add" THEN row ELSE [row EXCEPT !.saving = Nobody]
            /\ UNCHANGED <<list, edited, activity, reset, doubt, past>>

(* The answer of loadUsers, which its caller does not see fail: the row is free then, and
   the edited roles are dropped, whichever they are. *)
LoadAnswered(q) ==
    /\ q.op = "load"
    /\ requests' = requests \ {q}
    /\ list' = [list EXCEPT !.loading = FALSE, !.rows = IF q.step = "done" THEN q.rows ELSE @]
    /\ row' = IF q.then \in {"saved", "free"} THEN [row EXCEPT !.saving = Nobody] ELSE row
    /\ edited' = IF q.then = "saved" THEN [edited EXCEPT ![q.id] = Any] ELSE edited
    /\ past' = [past EXCEPT !.dropped =
                    @ \/ (q.then = "saved" /\ edited[q.id] \notin {Any, q.value})]
    /\ UNCHANGED <<activity, reset, doubt>>

(* saveUserName closes whichever name is edited. *)
NameAnswered(q) ==
    /\ q.op = "name"
    /\ requests' = requests \ {q}
    /\ row' = [saving |-> Nobody, naming |-> IF q.step = "done" THEN Nobody ELSE row.naming]
    /\ list' = IF q.step = "done" /\ q.id \in Shown THEN [list EXCEPT !.rows[q.id].name = q.value]
                                                     ELSE list
    /\ doubt' = (doubt \/ Loads({"load"}) # {})
    /\ UNCHANGED <<edited, activity, reset, past>>

(* openActivity: whichever user the sheet is open for *)
ActivityAnswered(q) ==
    /\ q.op = "activity"
    /\ requests' = requests \ {q}
    /\ activity' = [activity EXCEPT !.loading = FALSE, !.of = IF q.step = "failed" THEN @ ELSE q.id]
    /\ UNCHANGED <<list, row, edited, reset, doubt, past>>

ResetAnswered(q) ==
    /\ q.op = "reset"
    /\ requests' = requests \ {q}
    /\ reset' = IF q.step = "done"
                THEN [target |-> Nobody, loading |-> FALSE, result |-> q.id]
                ELSE [reset EXCEPT !.loading = FALSE]
    /\ UNCHANGED <<list, row, edited, activity, doubt, past>>

Answer(q) ==
    /\ q.step # "sent" \/ q.op = "activity"
    /\ \/ WriteAnswered(q) \/ LoadAnswered(q) \/ NameAnswered(q)
       \/ ActivityAnswered(q) \/ ResetAnswered(q)
    /\ UNCHANGED <<members, tally>>

Next ==
    \/ \E filter \in Filters : Load(filter)
    \/ \E u \in Users, role \in Roles : EditRoles(u, role) \/ Add(u, role)
    \/ \E u \in Users \cup {Nobody} : EditName(u) \/ Activity(u) \/ Reset(u)
    \/ \E u \in Users : SaveRoles(u) \/ SaveStatus(u)
    \/ SaveName
    \/ \E q \in requests : Serve(q) \/ Lose(q) \/ Answer(q)

Spec == Init /\ [][Next]_usersVars

(***************************************************************************)
(* Properties                                                              *)
(***************************************************************************)

(* The types of the variables. *)
TypeOK ==
    /\ \A u \in Users : /\ {members[u].status, list.rows[u].status}
                               \subseteq {"none", "active", "disabled"}
                       /\ {members[u].role, edited[u]} \subseteq Roles \cup {Any}
    /\ list.filter \in Filters /\ list.loading \in BOOLEAN
    /\ {row.saving, row.naming, activity.user, activity.of, reset.target, reset.result}
           \subseteq Users \cup {Nobody}
    /\ \A q \in requests : q.step \in {"sent", "done", "failed"}

(* Roles edited in a row and not saved are only dropped, with the roles that were saved
   before, when another row was saved meanwhile, which lets go of the row. *)
EditsAreKept == past.dropped => past.mixed

(* The activity under the name of a user is his, unless two of them were read at a time. *)
ActivityIsOfItsUser ==
    activity.user # Nobody /\ ~past.crossed => activity.of \in {Nobody, activity.user}

(* When nothing is under way, the list has what the server has for the filter that is set,
   unless a request failed, was overtaken, or used the filter before. *)
QuietListIsCurrent == requests = {} /\ ~doubt => list.rows = Filtered(list.filter)

===============================================================================

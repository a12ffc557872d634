----------------------------- MODULE AdminConsole -----------------------------
(***************************************************************************)
(* The product administration of tenants, src/frontend/app/admin/page.tsx  *)
(* with components/common/tenant-roles-editor.tsx, and the endpoints of    *)
(* admin.py behind it: which modules a tenant has, by its plan and by      *)
(* overrides, and who its members are.  The page keeps one list of modules *)
(* and one of members for whichever tenant is selected.  The plans and     *)
(* prices of the same page are in PlanTemplates.                           *)
(***************************************************************************)
EXTENDS Integers, FiniteSets, FiniteSetsExt

CONSTANTS
    Tenants,      \* tenants there can be
    Existing,     \* those there are at first
    Modules,      \* _ALL_MODULE_KEYS
    Defaults,     \* module_defaults of each plan: "on", "off", or "none" for a missing key
    PlanOf,       \* the plan each tenant has at first, "none" for no plan
    Members,      \* the memberships at first
    Newcomers,    \* who can be invited
    Names,        \* names of members
    Roles,        \* roles of members
    MaxGestures,  \* bound: gestures
    MaxRequests,  \* bound: requests at a time, when another is made
    MaxLost       \* bound: requests that fail

AdminAssumption ==
    /\ Existing \subseteq Tenants
    /\ \A m \in Modules : Defaults["none"][m] = "none"
    /\ \A t \in Existing, m \in Modules : Defaults[PlanOf[t]][m] # "off"
    /\ {MaxGestures, MaxRequests, MaxLost} \subseteq Nat

VARIABLES
    tenants,   \* rows of tenants: is_active, and the plan of the active subscription
    rows,      \* rows of TenantModule
    members,   \* rows of TenantMembership
    listed,    \* tenants, as the page has them
    selected,  \* selectedTenantId
    modules,   \* modules, and (a history) the tenant they were loaded for
    kept,      \* savedModules
    people,    \* tenantMembers
    editing,   \* editingMemberId
    picked,    \* editedMemberRoles
    requests,  \* requests that were not answered
    doubt,     \* history: since the selection, a load failed or another tenant's answer came
    mixed,     \* history: a write overlapped another request, or failed
    tally      \* gestures and losses so far

adminVars == <<tenants, rows, members, listed, selected, modules, kept, people, editing, picked,
               requests, doubt, mixed, tally>>
serverVars == <<tenants, rows, members>>
consoleVars == <<listed, selected, modules, kept, people, editing, picked>>

NoTenant == "no tenant"
NoRows == [t \in {} |-> NoTenant]
NoRow == [on |-> "none", source |-> "plan"]
NoMember == [who |-> 0, tenant |-> NoTenant, name |-> "", roles |-> {}, status |-> ""]
NoList == [m \in Modules |-> [on |-> "off", source |-> "plan", default |-> "none"]]
Shown(t, list) == [of |-> t, list |-> list]

(* _build_module_list: the row counts first, then the default of the plan. *)
ModuleList(plan, own) ==
    [m \in Modules |->
        LET default == Defaults[plan][m]
        IN  [on |-> IF own[m].on # "none" THEN own[m].on
                    ELSE IF default = "on" THEN "on" ELSE "off",
             source |-> own[m].source, default |-> default]]

(* _resolve_enabled_modules: what every check of access goes by *)
EnabledModules(t) ==
    {m \in Modules : rows[t][m].on = "on"
                     \/ (rows[t][m].on = "none" /\ Defaults[tenants[t].plan][m] = "on")}

(* sync_modules_from_plan: overrides stay; a plan without defaults changes nothing. *)
Synced(t, p) ==
    IF \A m \in Modules : Defaults[p][m] = "none" THEN rows[t]
    ELSE [m \in Modules |->
            IF rows[t][m].source = "override" THEN rows[t][m]
            ELSE [on |-> Defaults[p][m], source |-> "plan"]]

(* update_tenant_modules: what matches the plan loses its override. *)
Overridden(t, list) ==
    [m \in Modules |->
        IF list[m].on = Defaults[tenants[t].plan][m]
        THEN IF rows[t][m].source = "override" THEN NoRow ELSE rows[t][m]
        ELSE [on |-> list[m].on, source |-> "override"]]

Reads == {"modules", "members", "reload", "tenants"}
MemberFields == {"name", "roles", "status"}

Overlap(op) == \E q \in requests : op \notin Reads \/ q.op \notin Reads
Free(under) == Min((1..(MaxRequests + 4)) \ {q.id : q \in under})
Request(op, t) ==
    [op |-> op, tenant |-> t, step |-> "sent", row |-> NoMember, list |-> NoList,
     plan |-> "none", people |-> {}, listed |-> NoRows, from |-> t, doubt |-> FALSE,
     id |-> Free(requests)]

Send(q) ==
    /\ Cardinality(requests) < MaxRequests
    /\ requests' = requests \cup {q}
    /\ mixed' = (mixed \/ Overlap(q.op))

(* The effects of the selected tenant: loadModules and loadMembers *)
With(under, op, t) == under \cup {[Request(op, t) EXCEPT !.id = Free(under)]}
Effects(t, under) ==
    IF t = NoTenant THEN under ELSE With(With(under, "modules", t), "members", t)

Gesture == tally.gestures < MaxGestures /\ tally' = [tally EXCEPT !.gestures = @ + 1]

Init ==
    /\ tenants = [t \in Existing |-> [active |-> TRUE, plan |-> PlanOf[t]]]
    /\ \E own \in SUBSET {t \in Existing : PlanOf[t] # "none"} :
          rows = [t \in Existing |-> [m \in Modules |->
                    IF t \in own THEN [on |-> "off", source |-> "override"]
                    ELSE [on |-> Defaults[PlanOf[t]][m], source |-> "plan"]]]
    /\ members = Members
    /\ listed = tenants
    /\ selected = NoTenant
    /\ modules = Shown(NoTenant, NoList) /\ kept = NoList
    /\ people = {} /\ editing = 0 /\ picked = {}
    /\ requests = {}
    /\ doubt = FALSE /\ mixed = FALSE
    /\ tally = [gestures |-> 0, lost |-> 0]

(***************************************************************************)
(* The tenants                                                             *)
(***************************************************************************)

(* Mutant: the modules are not loaded again. *)
SelectForMembers(t) ==
    /\ selected' = t
    /\ requests' = requests \cup {Request("members", t)}
    /\ doubt' = FALSE
    /\ mixed' = (mixed \/ Overlap("members"))

(* setSelectedTenantId, and the effects that follow; what is shown stays until they are
   answered. *)
Select(t) ==
    /\ selected' = t
    /\ requests' = Effects(t, requests)
    /\ doubt' = FALSE
    /\ mixed' = (mixed \/ Overlap("modules"))

Manage(t) ==
    /\ Gesture /\ t # selected /\ Cardinality(requests) < MaxRequests
    /\ Select(t)
    /\ UNCHANGED <<serverVars, listed, modules, kept, people, editing, picked>>

(* createTenant: enabled while an earlier one is under way *)
CreateTenant(t, p) ==
    /\ Gesture /\ t \notin DOMAIN listed
    /\ Send([Request("create", t) EXCEPT !.plan = p])
    /\ UNCHANGED <<serverVars, consoleVars, doubt>>

(* toggleTenantActive: the opposite of what is shown *)
ToggleTenant(t) ==
    /\ Gesture
    /\ LET other == IF listed[t].active THEN "disabled" ELSE "active"
       IN  Send([Request("active", t) EXCEPT !.row.status = other])
    /\ UNCHANGED <<serverVars, consoleVars, doubt>>

(* A new access token: load, loadModules and loadMembers run again. *)
Renew ==
    /\ Gesture /\ Cardinality(requests) < MaxRequests
    /\ requests' = With(Effects(selected, requests), "tenants", NoTenant)
    /\ mixed' = (mixed \/ Overlap("modules"))
    /\ UNCHANGED <<serverVars, consoleVars, doubt>>

(***************************************************************************)
(* The modules of the selected tenant                                      *)
(***************************************************************************)

Ready == selected # NoTenant /\ selected \in DOMAIN listed
ModulesAreDirty == \E m \in Modules : modules.list[m].on # kept[m].on

SetModule(m, on) ==
    LET item == modules.list[m]
    IN  modules' = [modules EXCEPT !.list[m] =
            [item EXCEPT !.on = on, !.source = IF on = item.default THEN "plan" ELSE "override"]]

ToggleModule(m) ==
    /\ Gesture /\ Ready
    /\ SetModule(m, IF modules.list[m].on = "on" THEN "off" ELSE "on")
    /\ UNCHANGED <<serverVars, listed, selected, kept, people, editing, picked,
                   requests, doubt, mixed>>

(* resetSingleModule: on the page only *)
ResetModule(m) ==
    /\ Gesture /\ Ready
    /\ modules.list[m].source = "override" /\ modules.list[m].default # "none"
    /\ SetModule(m, modules.list[m].default)
    /\ UNCHANGED <<serverVars, listed, selected, kept, people, editing, picked,
                   requests, doubt, mixed>>

(* saveModules: what is shown goes to whichever tenant is selected. *)
SaveModules ==
    /\ Gesture /\ Ready /\ ModulesAreDirty
    /\ Send([Request("save", selected) EXCEPT !.list = modules.list, !.from = modules.of,
                !.doubt = doubt \/ \E q \in requests : q.op = "modules" /\ q.tenant = selected])
    /\ UNCHANGED <<serverVars, consoleVars, doubt>>

(* resetToPlanModules: to the plan that the page knows of *)
ResetToPlan ==
    /\ Gesture /\ Ready /\ listed[selected].plan # "none"
    /\ \E m \in Modules : modules.list[m].source = "override"
    /\ Send([Request("reset", selected) EXCEPT !.plan = listed[selected].plan])
    /\ UNCHANGED <<serverVars, consoleVars, doubt>>

(***************************************************************************)
(* Its members                                                             *)
(***************************************************************************)

MemberPatch(field, row) ==
    Gesture /\ Ready /\ Send([Request(field, selected) EXCEPT !.row = row])

ToggleMember(r) ==
    /\ LET other == IF r.status = "active" THEN "disabled" ELSE "active"
       IN  MemberPatch("status", [r EXCEPT !.status = other])
    /\ UNCHANGED <<serverVars, consoleVars, doubt>>

RemoveMember(r) ==
    /\ MemberPatch("remove", r)
    /\ UNCHANGED <<serverVars, consoleVars, doubt>>

StartEdit(r) ==
    /\ Gesture /\ Ready /\ editing # r.who
    /\ editing' = r.who
    /\ UNCHANGED <<serverVars, listed, selected, modules, kept, people, picked,
                   requests, doubt, mixed>>

(* saveMemberName *)
SaveName(r, n) ==
    /\ editing = r.who
    /\ MemberPatch("name", [r EXCEPT !.name = n])
    /\ UNCHANGED <<serverVars, consoleVars, doubt>>

(* TenantRolesEditor: opened, changed and saved on the page; one role stays. *)
PickRoles(r, chosen) ==
    /\ Gesture /\ Ready /\ chosen # {} /\ chosen # r.roles
    /\ picked' = {e \in picked : e.who # r.who} \cup {[who |-> r.who, roles |-> chosen]}
    /\ UNCHANGED <<serverVars, listed, selected, modules, kept, people, editing,
                   requests, doubt, mixed>>

(* saveMemberRoles: not while its own request is under way *)
SaveRoles(r) ==
    /\ \E e \in picked : e.who = r.who /\ e.roles # r.roles
                         /\ MemberPatch("roles", [r EXCEPT !.roles = e.roles])
    /\ ~ \E q \in requests : q.op = "roles" /\ q.row.who = r.who
    /\ UNCHANGED <<serverVars, consoleVars, doubt>>

(* inviteAdmin *)
Invite(w, n) ==
    /\ MemberPatch("invite", [who |-> w, tenant |-> selected, name |-> n, roles |-> Roles,
                              status |-> "active"])
    /\ UNCHANGED <<serverVars, consoleVars, doubt>>

(***************************************************************************)
(* The server                                                              *)
(***************************************************************************)

Served(q, step) == requests' = (requests \ {q}) \cup {[q EXCEPT !.step = step]}

MembersOf(t) == {r \in members : r.tenant = t}

ServeRead(q) ==
    /\ q.op \in Reads
    /\ requests' = (requests \ {q}) \cup
           {LET answer == [q EXCEPT !.step = "done"]
                t == q.tenant
            IN  CASE q.op = "modules" ->
                       [answer EXCEPT !.list = ModuleList(tenants[t].plan, rows[t])]
                  [] q.op \in {"members", "reload"} -> [answer EXCEPT !.people = MembersOf(t)]
                  [] OTHER -> [answer EXCEPT !.listed = tenants]}
    /\ UNCHANGED serverVars

(* create_tenant: the slug is free; the modules of the plan are synced. *)
ServeCreate(q) ==
    LET t == q.tenant
        row(m) == [on |-> Defaults[q.plan][m], source |-> "plan"]
        all == DOMAIN tenants \cup {t}
    IN  /\ q.op = "create"
        /\ IF t \in DOMAIN tenants
           THEN Served(q, "failed") /\ UNCHANGED <<tenants, rows>>
           ELSE /\ tenants' = [u \in all |-> IF u = t THEN [active |-> TRUE, plan |-> q.plan]
                                             ELSE tenants[u]]
                /\ rows' = [u \in all |-> IF u = t THEN [m \in Modules |-> row(m)] ELSE rows[u]]
                /\ Served(q, "done")
        /\ UNCHANGED members

(* update_tenant *)
ServeActive(q) ==
    /\ q.op = "active"
    /\ tenants' = [tenants EXCEPT ![q.tenant].active = (q.row.status = "active")]
    /\ requests' = (requests \ {q}) \cup {[q EXCEPT !.step = "done", !.listed = tenants']}
    /\ UNCHANGED <<rows, members>>

ServeSave(q) ==
    /\ q.op = "save"
    /\ LET own == Overridden(q.tenant, q.list)
       IN  /\ rows' = [rows EXCEPT ![q.tenant] = own]
           /\ requests' = (requests \ {q}) \cup
                  {[q EXCEPT !.step = "done", !.list = ModuleList(tenants[q.tenant].plan, own)]}
    /\ UNCHANGED <<tenants, members>>

(* change_tenant_plan *)
ChangePlan(t, p) ==
    /\ tenants' = [tenants EXCEPT ![t].plan = p]
    /\ rows' = [rows EXCEPT ![t] = Synced(t, p)]
    /\ UNCHANGED members

ServeReset(q) == q.op = "reset" /\ ChangePlan(q.tenant, q.plan) /\ Served(q, "done")

(* update_tenant_member, remove_tenant_member: refused when the membership is gone;
   invite_tenant_admin: a membership there is stays as it is. *)
ServeMember(q) ==
    LET old == {r \in members : r.who = q.row.who /\ r.tenant = q.tenant}
    IN  /\ q.op \in MemberFields \cup {"remove", "invite"}
        /\ members' = CASE q.op = "remove" -> members \ old
                        [] q.op = "invite" -> IF old = {} THEN members \cup {q.row} ELSE members
                        [] OTHER -> (members \ old)
                                    \cup {[r EXCEPT ![q.op] = q.row[q.op]] : r \in old}
        /\ requests' = (requests \ {q}) \cup
               {[q EXCEPT !.step = IF old = {} /\ q.op # "invite" THEN "failed" ELSE "done",
                          !.row = [NoMember EXCEPT !.who = q.row.who],
                          !.people = {r \in members' : r.who = q.row.who
                                                       /\ r.tenant = q.tenant}]}
        /\ UNCHANGED <<tenants, rows>>

Serve(q) ==
    /\ q.step = "sent"
    /\ \/ ServeRead(q) \/ ServeCreate(q) \/ ServeActive(q) \/ ServeSave(q) \/ ServeReset(q)
       \/ ServeMember(q)
    /\ UNCHANGED <<consoleVars, doubt, mixed, tally>>

(* The request or its answer is lost, whatever the server has done. *)
Lose(q) ==
    /\ q.step # "failed" /\ tally.lost < MaxLost
    /\ tally' = [tally EXCEPT !.lost = @ + 1]
    /\ Served(q, "failed")
    /\ mixed' = (mixed \/ q.op \notin Reads)
    /\ UNCHANGED <<serverVars, consoleVars, doubt>>

(***************************************************************************)
(* The answers                                                             *)
(***************************************************************************)

Late(q) == q.tenant # selected
Closed(q) == requests' = requests \ {q}

(* loadModules, saveModules, and the end of resetToPlanModules: nothing asks which tenant
   is selected by now. *)
ModulesAnswered(q) ==
    /\ q.op \in {"modules", "save"}
    /\ IF q.step = "done"
       THEN modules' = Shown(q.tenant, q.list) /\ kept' = q.list /\ doubt' = (doubt \/ Late(q))
       ELSE doubt' = (doubt \/ q.op = "modules") /\ UNCHANGED <<modules, kept>>
    /\ Closed(q)
    /\ UNCHANGED <<listed, selected, people, editing, picked>>

ResetAnswered(q) ==
    /\ q.op = "reset"
    /\ requests' = IF q.step = "done" THEN With(requests \ {q}, "modules", q.tenant)
                   ELSE requests \ {q}
    /\ UNCHANGED <<consoleVars, doubt>>

(* loadMembers: no members when it failed; reloadMembers: those shown stay then. *)
MembersAnswered(q) ==
    /\ q.op \in {"members", "reload"}
    /\ people' = IF q.op = "reload" /\ q.step = "failed" THEN people ELSE q.people
    /\ doubt' = (doubt \/ Late(q) \/ q.step = "failed")
    /\ Closed(q)
    /\ UNCHANGED <<listed, selected, modules, kept, editing, picked>>

TenantsAnswered(q) ==
    /\ q.op \in {"tenants", "active"}
    /\ listed' = IF q.step = "failed" THEN listed
                 ELSE IF q.op = "tenants" THEN q.listed
                 ELSE [t \in DOMAIN listed |-> IF t = q.tenant THEN q.listed[t] ELSE listed[t]]
    /\ Closed(q)
    /\ UNCHANGED <<selected, modules, kept, people, editing, picked, doubt>>

(* The new tenant is put into the list and selected. *)
Created(q) ==
    /\ q.op = "create"
    /\ IF q.step = "failed" THEN Closed(q) /\ UNCHANGED <<listed, selected, doubt>>
       ELSE /\ listed' = [t \in DOMAIN listed \cup {q.tenant} |->
                   IF t = q.tenant THEN [active |-> TRUE, plan |-> q.plan] ELSE listed[t]]
            /\ selected' = q.tenant
            /\ requests' = Effects(q.tenant, requests \ {q})
            /\ doubt' = FALSE
    /\ UNCHANGED <<modules, kept, people, editing, picked>>

(* Mutant: the member that was removed stays in the list. *)
PeopleAsTheyWere(q) == people

(* The row of the answer takes the place of its own, or leaves the list. *)
PeopleAfter(q) ==
    LET own == {r \in people : r.who = q.row.who}
    IN  IF q.op = "remove" \/ own = {} THEN people \ own ELSE (people \ own) \cup q.people

(* toggleMemberStatus, removeMember, saveMemberName, saveMemberRoles: the answer of a
   name closes whichever name is being edited. *)
MemberAnswered(q) ==
    /\ q.op \in MemberFields \cup {"remove"}
    /\ IF q.step = "done"
       THEN /\ people' = PeopleAfter(q)
            /\ editing' = IF q.op = "name" THEN 0 ELSE editing
            /\ picked' = IF q.op = "roles" THEN {e \in picked : e.who # q.row.who} ELSE picked
       ELSE UNCHANGED <<people, editing, picked>>
    /\ Closed(q)
    /\ UNCHANGED <<listed, selected, modules, kept, doubt>>

(* inviteAdmin: then the members are loaded again, of the tenant it was sent to. *)
InviteAnswered(q) ==
    /\ q.op = "invite"
    /\ requests' = IF q.step = "done" THEN With(requests \ {q}, "reload", q.tenant)
                   ELSE requests \ {q}
    /\ UNCHANGED <<consoleVars, doubt>>

Answer(q) ==
    /\ q.step \in {"done", "failed"}
    /\ \/ ModulesAnswered(q) \/ ResetAnswered(q) \/ MembersAnswered(q) \/ TenantsAnswered(q)
       \/ Created(q) \/ MemberAnswered(q) \/ InviteAnswered(q)
    /\ UNCHANGED <<serverVars, mixed, tally>>

Next ==
    \/ \E t \in DOMAIN listed : Manage(t) \/ ToggleTenant(t)
    \/ \E t \in Tenants, p \in DOMAIN Defaults : CreateTenant(t, p)
    \/ \E m \in Modules : ToggleModule(m) \/ ResetModule(m)
    \/ SaveModules \/ ResetToPlan \/ Renew
    \/ \E r \in people : \/ ToggleMember(r) \/ RemoveMember(r) \/ StartEdit(r) \/ SaveRoles(r)
                         \/ (\E n \in Names : SaveName(r, n))
                         \/ (\E c \in SUBSET Roles : PickRoles(r, c))
    \/ \E w \in Newcomers, n \in Names : Invite(w, n)
    \/ \E q \in requests : Serve(q) \/ Lose(q) \/ Answer(q)

Spec == Init /\ [][Next]_adminVars

(***************************************************************************)
(* Properties                                                              *)
(***************************************************************************)

(* The types of the variables. *)
TypeOK ==
    /\ DOMAIN tenants = DOMAIN rows /\ DOMAIN tenants \subseteq Tenants
    /\ \A t \in DOMAIN rows, m \in Modules : rows[t][m].on \in {"on", "off", "none"}
                                             /\ rows[t][m].source \in {"plan", "override"}
    /\ \A r \in members \cup people : /\ r.who \in Nat /\ r.tenant \in DOMAIN tenants
                                      /\ r.roles \in (SUBSET Roles) \ {{}} /\ r.name \in Names
                                      /\ r.status \in {"active", "disabled"}
    /\ DOMAIN listed \subseteq DOMAIN tenants /\ selected \in Tenants \cup {NoTenant}
    /\ \A m \in Modules : {modules.list[m].on, kept[m].on} \subseteq {"on", "off"}
    /\ \A q \in requests : q.step \in {"sent", "done", "failed"}
    /\ {doubt, mixed} \subseteq BOOLEAN

(* Modules are sent to the tenant that they were loaded for, unless its own have not been
   answered, could not be loaded, or an answer for another tenant came late. *)
ModulesGoToTheirTenant == \A q \in requests : q.op = "save" /\ q.from # q.tenant => q.doubt

(* Once nothing is under way, the console shows the members and the modules of the selected
   tenant, and what it shows as saved is what every check of access goes by. *)
QuietConsoleIsCurrent ==
    requests = {} /\ ~mixed =>
        /\ listed = tenants
        /\ selected # NoTenant /\ ~doubt =>
               /\ modules.of = selected
               /\ people = MembersOf(selected)
               /\ {m \in Modules : kept[m].on = "on"} = EnabledModules(selected)

(* "Remove all manual overrides and restore the plan defaults": after the reset of a tenant
   and the load that follows it, nothing is overridden. *)
ResetRemovesOverrides ==
    \A q \in requests : q.op = "reset" /\ q.step = "done" /\ ~mixed =>
        \A m \in Modules : rows[q.tenant][m].source = "plan"

=============================================================================

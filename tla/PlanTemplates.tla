----------------------------- MODULE PlanTemplates -----------------------------
(***************************************************************************)
(* The plans and the price mappings of src/frontend/app/admin/page.tsx,    *)
(* with the endpoints of admin.py and billing.py behind them: two lists    *)
(* that are loaded, kept up with the answers and loaded again on a renewed *)
(* access token, one editor in each,                                       *)
(* and deletion, which the database refuses or extends to what refers to   *)
(* the plan.                                                               *)
(***************************************************************************)
EXTENDS Integers, FiniteSets, FiniteSetsExt

CONSTANTS
    PlanKeys,     \* keys of plans
    FirstPlans,   \* keys of the plans there are at first
    Texts,        \* what is typed into an editor
    MaxGestures,  \* bound: gestures
    MaxRequests,  \* bound: requests at a time
    MaxLost       \* bound: requests that fail

PlanAssumption == /\ FirstPlans \subseteq PlanKeys
                  /\ {MaxGestures, MaxRequests, MaxLost} \subseteq Nat

VARIABLES
    plans,          \* rows of billing.plans
    prices,         \* rows of billing.plan_prices, at most one for a plan
    subscriptions,  \* plans of the subscriptions: status "active" or "canceled"
    shown,          \* plans and planPrices, as the page has them
    editor,         \* editingPlanId and editingPriceId
    requests,       \* requests that were not answered
    mixed,          \* history: requests overlapped or failed
    tally           \* gestures and losses so far

planVars == <<plans, prices, subscriptions, shown, editor, requests, mixed, tally>>
rowVars == <<plans, prices, subscriptions>>

Blank == ""
Row(key, text) == [key |-> key, text |-> text]
Keys(set) == {r.key : r \in set}
Others(set, key) == {r \in set : r.key # key}
Kinds == {"plans", "prices"}
Rows(kind) == IF kind = "plans" THEN plans ELSE prices
NoRows == [plans |-> {}, prices |-> {}]

Init ==
    /\ plans = {Row(k, Blank) : k \in FirstPlans}
    /\ prices \in SUBSET plans
    /\ subscriptions \in SUBSET {[plan |-> k, status |-> s] : k \in FirstPlans,
                                                              s \in {"active", "canceled"}}
    /\ shown = [plans |-> plans, prices |-> prices]
    /\ editor = [plans |-> Blank, prices |-> Blank]
    /\ requests = {}
    /\ mixed = FALSE
    /\ tally = [gestures |-> 0, lost |-> 0]

Gesture == tally.gestures < MaxGestures /\ tally' = [tally EXCEPT !.gestures = @ + 1]

Send(op, kind, row) ==
    /\ Gesture /\ Cardinality(requests) < MaxRequests
    /\ LET id == Min((1..MaxRequests) \ {q.id : q \in requests})
       IN  requests' = requests \cup {[op |-> op, kind |-> kind, row |-> row, seen |-> NoRows,
                                       unread |-> IF op = "load" THEN Kinds ELSE {},
                                       step |-> "sent", id |-> id]}
    /\ mixed' = (mixed \/ requests # {})
    /\ UNCHANGED <<rowVars, shown, editor>>

(* createPlan; createPlanPrice, for a plan in the list.  A row's key is its id here, so a
   plan that was deleted is not made again: not one there was at first, nor one whose
   price is still in the list. *)
Create(kind, row) ==
    /\ kind = "plans" => row.key \notin FirstPlans \cup (Keys(shown.prices) \ Keys(plans))
    /\ kind = "prices" => row.key \in Keys(shown.plans)
    /\ Send("create", kind, row)

(* startEditPlan, cancelEditPlan, and the same of prices *)
Edit(kind, key) ==
    /\ Gesture
    /\ editor[kind] # key /\ key \in Keys(shown[kind]) \cup {Blank}
    /\ editor' = [editor EXCEPT ![kind] = key]
    /\ UNCHANGED <<rowVars, shown, requests, mixed>>

(* savePlan, savePrice: of the row in the editor *)
Save(kind, text) ==
    /\ editor[kind] \in Keys(shown[kind])
    /\ Send("save", kind, Row(editor[kind], text))

(* deletePlan, deletePrice, from a row that is not being edited *)
Delete(kind, row) == editor[kind] # row.key /\ Send("delete", kind, row)

(* A new access token: the effect asks for both lists again. *)
Renew == Send("load", "plans", Row(Blank, Blank))

(***************************************************************************)
(* The server                                                              *)
(***************************************************************************)

Answered(q, step) == requests' = (requests \ {q}) \cup {[q EXCEPT !.step = step]}

(* create_plan refuses a key that is taken, and the constraint of the table a second
   price; update_plan and the others, a row that is gone. *)
ServeWrite(q) ==
    LET there == q.row.key \in Keys(Rows(q.kind))
        next == Others(Rows(q.kind), q.row.key) \cup {q.row}
        orphan == q.kind = "prices" /\ q.row.key \notin Keys(plans)
    IN  /\ q.op \in {"create", "save"} /\ q.step = "sent"
        /\ IF there = (q.op = "create") \/ orphan
           THEN Answered(q, "failed") /\ UNCHANGED <<plans, prices>>
           ELSE /\ Answered(q, "done")
                /\ plans' = IF q.kind = "plans" THEN next ELSE plans
                /\ prices' = IF q.kind = "prices" THEN next ELSE prices
        /\ UNCHANGED <<subscriptions, shown, editor, mixed, tally>>

(* list_plans, list_plan_prices: a request each, answered together (Promise.all) *)
ServeLoad(q, kind) ==
    /\ q.op = "load" /\ q.step = "sent" /\ kind \in q.unread
    /\ requests' = (requests \ {q}) \cup
           {[q EXCEPT !.seen[kind] = Rows(kind), !.unread = @ \ {kind},
                      !.step = IF q.unread = {kind} THEN "done" ELSE "sent"]}
    /\ UNCHANGED <<rowVars, shown, editor, mixed, tally>>

Active(key) == \E s \in subscriptions : s.plan = key /\ s.status = "active"
Subscribed(key) == \E s \in subscriptions : s.plan = key

(* delete_plan counts the active subscriptions; delete_plan_price looks for the row. *)
CountUses(q) ==
    /\ q.op = "delete" /\ q.step = "sent"
    /\ LET refused == \/ q.row.key \notin Keys(Rows(q.kind))
                      \/ q.kind = "plans" /\ Active(q.row.key)
       IN  Answered(q, IF refused THEN "failed" ELSE "counted")
    /\ UNCHANGED <<rowVars, shown, editor, mixed, tally>>

(* Mutant: the subscriptions that refer to a plan are no obstacle. *)
DeleteAnyRow(q) ==
    LET gone == q.row.key
    IN  /\ q.step = "counted"
        /\ Answered(q, "done")
        /\ plans' = IF q.kind = "plans" THEN Others(plans, gone) ELSE plans
        /\ prices' = Others(prices, gone)
        /\ UNCHANGED <<subscriptions, shown, editor, mixed, tally>>

(* The row is deleted, unless any subscription refers to the plan; its prices go too. *)
DeleteRow(q) ==
    LET gone == q.row.key
    IN  /\ q.step = "counted"
        /\ IF q.kind = "plans" /\ Subscribed(gone)
           THEN Answered(q, "failed") /\ UNCHANGED <<plans, prices>>
           ELSE /\ Answered(q, "done")
                /\ plans' = IF q.kind = "plans" THEN Others(plans, gone) ELSE plans
                /\ prices' = Others(prices, gone)
        /\ UNCHANGED <<subscriptions, shown, editor, mixed, tally>>

(* A tenant gets a plan, or leaves it: create_tenant, change_tenant_plan *)
Subscribe(key) ==
    /\ Gesture
    /\ [plan |-> key, status |-> "active"] \notin subscriptions
    /\ subscriptions' = subscriptions \cup {[plan |-> key, status |-> "active"]}
    /\ UNCHANGED <<plans, prices, shown, editor, requests, mixed>>

Lose(q) ==
    /\ q.step \in {"sent", "done"} /\ tally.lost < MaxLost
    /\ tally' = [tally EXCEPT !.lost = @ + 1]
    /\ Answered(q, "failed")
    /\ mixed' = (mixed \/ q.op # "load")
    /\ UNCHANGED <<rowVars, shown, editor>>

(***************************************************************************)
(* The answers                                                             *)
(***************************************************************************)

(* Mutant: a price that was deleted stays in the list. *)
ShownAsListed(q) ==
    CASE q.op = "delete" /\ q.kind = "plans" -> Others(shown[q.kind], q.row.key)
      [] q.op = "create" -> shown[q.kind] \cup {q.row}
      [] q.op = "save" -> {IF r.key = q.row.key THEN q.row ELSE r : r \in shown[q.kind]}
      [] OTHER -> shown[q.kind]

(* What an answer makes of its own list *)
ShownAfter(q) ==
    CASE q.op = "delete" -> Others(shown[q.kind], q.row.key)
      [] q.op = "create" -> shown[q.kind] \cup {q.row}
      [] q.op = "save" -> {IF r.key = q.row.key THEN q.row ELSE r : r \in shown[q.kind]}

(* The answer of a save closes whichever row is being edited; a load that failed leaves the
   lists as they are. *)
Answer(q) ==
    /\ q.step \in {"done", "failed"}
    /\ requests' = requests \ {q}
    /\ IF q.op = "load"
       THEN shown' = (IF q.step = "done" THEN q.seen ELSE shown) /\ UNCHANGED editor
       ELSE IF q.step = "done"
       THEN /\ shown' = [shown EXCEPT ![q.kind] = ShownAfter(q)]
            /\ editor' = IF q.op = "save" THEN [editor EXCEPT ![q.kind] = Blank] ELSE editor
       ELSE UNCHANGED <<shown, editor>>
    /\ UNCHANGED <<rowVars, mixed, tally>>

Next ==
    \/ \E kind \in Kinds : \/ \E key \in PlanKeys : Create(kind, Row(key, Blank))
                           \/ \E key \in PlanKeys \cup {Blank} : Edit(kind, key)
                           \/ \E text \in Texts : Save(kind, text)
                           \/ \E row \in shown[kind] : Delete(kind, row)
    \/ \E key \in Keys(plans) : Subscribe(key)
    \/ Renew
    \/ \E q \in requests : \/ ServeWrite(q) \/ CountUses(q) \/ DeleteRow(q) \/ Lose(q) \/ Answer(q)
                           \/ \E kind \in Kinds : ServeLoad(q, kind)

Spec == Init /\ [][Next]_planVars

(***************************************************************************)
(* Properties                                                              *)
(***************************************************************************)

(* The types of the variables. *)
TypeOK ==
    /\ plans \cup prices \cup shown.plans \cup shown.prices
           \subseteq [key : PlanKeys, text : Texts \cup {Blank}]
    /\ \A s \in subscriptions : s.plan \in PlanKeys /\ s.status \in {"active", "canceled"}
    /\ editor.plans \in PlanKeys \cup {Blank} /\ editor.prices \in PlanKeys \cup {Blank}
    /\ \A q \in requests : q.step \in {"sent", "counted", "done", "failed"}
    /\ mixed \in BOOLEAN

(* A plan that a tenant has, or had, is not deleted, also when the tenant gets it after the
   subscriptions were counted. *)
PlansInUseStay == \A s \in subscriptions : s.plan \in Keys(plans)

(* Once nothing is under way, the lists are those of the server; but the prices of a plan
   that was deleted stay in the list. *)
QuietListsAreCurrent ==
    requests = {} /\ ~mixed => /\ shown.plans = plans
                               /\ {r \in shown.prices : r.key \in Keys(plans)} = prices

=============================================================================

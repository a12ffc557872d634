---------------------------- MODULE StripeWebhooks ----------------------------
(* What Stripe's webhooks leave of a subscription and its invoice                   *)
(* (modules/billing/providers/stripe_adapter.py).                                   *)
(*                                                                                  *)
(* Stripe changes its objects, sends an event with the state after each change, in  *)
(* any order, and sends it again until it is answered with success.  The endpoint   *)
(* is a coroutine that calls the adapter without awaiting anything, in the only     *)
(* process of the server, so one event is handled after another, each in one        *)
(* transaction.                                                                     *)
EXTENDS Integers, Sequences, FiniteSets, SequencesExt

CONSTANTS
    Prices,      \* provider_price_id of the rows of plan_prices
    NewPrice,    \* one that no row has
    MaxChanges,  \* bound: changes of each object after it was created
    MaxLost      \* bound: answers that are lost, and calls to Stripe that fail

WebhookAssumption == NewPrice \notin Prices /\ {MaxChanges, MaxLost} \subseteq Nat

VARIABLES
    objects,    \* at Stripe: the states each object has had, the last is the current one
    unanswered, \* events that were not answered with success
    processed,  \* provider_events
    rows,       \* billing.subscriptions and billing.invoices, each NoRow at first
    late,       \* history: the objects of which an event came after a later one
    lost        \* answers lost and calls failed so far

webhookVars == <<objects, unanswered, processed, rows, late, lost>>

Kinds == {"subscription", "invoice"}
NoRow == [status |-> "none", price |-> "none", of |-> 0]

\* "incomplete" stands for what billing_subscription_status_values excludes.
Stored(kind) == IF kind = "subscription" THEN {"active", "past_due", "canceled"}
                ELSE {"open", "paid"}
States == [subscription |-> [status : Stored("subscription") \cup {"incomplete"},
                             price : Prices \cup {NewPrice}],
           invoice |-> [status : Stored("invoice"), price : {"none"}]]

(* An event: the object, and which of its states it carries.  A completed checkout
   carries none: its handler asks Stripe for the subscription. *)
Event(kind, of) == [kind |-> kind, of |-> of]
Checkout == Event("checkout", 0)

(* The customer completes the checkout that create_checkout_session opened: there is
   a subscription, and an invoice for it. *)
Init ==
    /\ \E s \in States["subscription"], i \in States["invoice"] :
           objects = [subscription |-> <<s>>, invoice |-> <<i>>]
    /\ unanswered = {Checkout} \cup {Event(k, 1) : k \in Kinds}
    /\ processed = {}
    /\ rows = [k \in Kinds |-> NoRow]
    /\ late = {} /\ lost = 0

(* Stripe changes an object, and has an event to send. *)
Change(k, s) ==
    /\ Len(objects[k]) <= MaxChanges
    /\ s # Last(objects[k])
    /\ objects' = [objects EXCEPT ![k] = Append(@, s)]
    /\ unanswered' = unanswered \cup {Event(k, Len(objects'[k]))}
    /\ UNCHANGED <<processed, rows, late, lost>>

(* _resolve_tenant_id: by the metadata that create_checkout_session gave to the
   checkout, else by a row of the subscription or its customer. *)
Resolved(e) == e = Checkout \/ rows["subscription"] # NoRow

(* What the handler of the event writes about: the object, and its state. *)
About(e) == IF e = Checkout THEN Event("subscription", Len(objects["subscription"])) ELSE e

(* _upsert_subscription and _handle_invoice_update: a subscription at a price nobody
   knows gets no row, and keeps the plan of the row it has. *)
Upserted(k, of) ==
    LET s == objects[k][of]
    IN  IF k = "subscription" /\ s.price = NewPrice
        THEN IF rows[k] = NoRow THEN NoRow ELSE [rows[k] EXCEPT !.status = s.status, !.of = of]
        ELSE [status |-> s.status, price |-> s.price, of |-> of]

Storable(k, of) == Upserted(k, of).status \in Stored(k) \cup {"none"}

(* Mutant: the event is recorded in a transaction of its own, before its handler. *)
RefuseAfterRecord(e) ==
    /\ Resolved(e)
    /\ processed' = processed \cup {e}
    /\ UNCHANGED <<objects, unanswered, rows, late>>

(* An error: nothing is stored, and Stripe sends the event again. *)
Refuse(e) == UNCHANGED <<objects, unanswered, processed, rows, late>>

(* The event is answered, unless the answer is lost. *)
Answered(e) ==
    \/ /\ unanswered' = unanswered \ {e}
       /\ lost' = lost
    \/ /\ lost < MaxLost
       /\ lost' = lost + 1
       /\ UNCHANGED unanswered

(* handle_webhook of an event that was processed: 'duplicate'. *)
Duplicate(e) ==
    /\ e \in processed /\ Resolved(e)
    /\ Answered(e)
    /\ UNCHANGED <<objects, processed, rows, late>>

(* handle_webhook of another event: the record and what its handler writes are
   committed together. *)
Process(e) ==
    LET o == About(e)
    IN  /\ e \notin processed /\ Resolved(e) /\ Storable(o.kind, o.of)
        /\ Answered(e)
        /\ processed' = processed \cup {e}
        /\ rows' = [rows EXCEPT ![o.kind] = Upserted(o.kind, o.of)]
        /\ late' = IF o.of < rows[o.kind].of THEN late \cup {o.kind} ELSE late
        /\ UNCHANGED objects

(* Or it fails: the tenant is unknown, the row is refused, or Stripe does not answer. *)
Fail(e) ==
    LET o == About(e)
    IN  /\ e \notin processed
        /\ \/ /\ ~Resolved(e) \/ ~Storable(o.kind, o.of)
              /\ lost' = lost
           \/ /\ e = Checkout /\ lost < MaxLost
              /\ lost' = lost + 1
        /\ Refuse(e)

Next ==
    \/ \E k \in Kinds : \E s \in States[k] : Change(k, s)
    \/ \E e \in unanswered : Duplicate(e) \/ Process(e) \/ Fail(e)

Spec == Init /\ [][Next]_webhookVars

(***************************************************************************)
(* Properties                                                              *)
(***************************************************************************)

(* The types of the variables. *)
TypeOK ==
    /\ \A k \in Kinds : /\ objects[k] \in Seq(States[k]) /\ Len(objects[k]) \in 1..(MaxChanges + 1)
                        /\ rows[k].status \in Stored(k) \cup {"none"}
                        /\ rows[k].of \in 0..Len(objects[k])
    /\ \A e \in unanswered \cup processed :
           e # Checkout => e.kind \in Kinds /\ e.of \in 1..Len(objects[e.kind])
    /\ late \subseteq Kinds /\ lost \in 0..MaxLost

(* The plan of a subscription follows its last price that was known. *)
LastPrice ==
    LET states == objects["subscription"]
    IN  states[Max({i \in DOMAIN states : states[i].price # NewPrice})].price

(* Once Stripe has nothing to send, what is stored of an object is its state at
   Stripe, unless an event came after a later one (the handlers compare no times), or
   the subscription has no row because its price was unknown whenever it was told of;
   however often events were repeated, refused or failed. *)
SettledIsCurrent ==
    \A k \in Kinds \ late :
        {e \in unanswered : About(e).kind = k} = {} /\ rows[k] # NoRow =>
            /\ rows[k].status = Last(objects[k]).status
            /\ k = "subscription" => rows[k].price = LastPrice

(* An event is taken for delivered only with a row to show for it, or when nobody
   knew the price. *)
DeliveredIsStored ==
    /\ Checkout \notin unanswered /\ rows["subscription"] = NoRow =>
           \E i \in DOMAIN objects["subscription"] : objects["subscription"][i].price = NewPrice
    /\ \A e \in processed : e.kind = "invoice" => rows["invoice"].of # 0

=============================================================================

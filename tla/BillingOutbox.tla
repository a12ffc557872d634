--------------------------- MODULE BillingOutbox ---------------------------
(***************************************************************************)
(* The billing outbox of one tenant (modules/billing): requests emit usage *)
(* events, Celery workers take due events in batches and, for each, write  *)
(* a ledger entry, report the usage to Stripe and commit.                  *)
(*                                                                         *)
(* A worker locks its batch with SELECT ... FOR UPDATE SKIP LOCKED, but the *)
(* commit after the first event releases the locks of the whole batch; the *)
(* copies of the other events stay in its session (expire_on_commit is     *)
(* off), and the worker locks each row again when it flushes 'processing'. *)
(* The unique constraint of the ledger is left out on purpose: the module  *)
(* shows that the order of locks, check and insert never needs it.         *)
(***************************************************************************)
EXTENDS Integers, FiniteSets

CONSTANTS
  NEvents,     \* events ever emitted; they are numbered in created_at order
  Workers,     \* Celery workers
  Nobody,      \* the holder of a lock nobody holds
  Metered,     \* the events whose event_key has an active meter
  Synced,      \* those of them that are reported: the provider is Stripe, and the
               \* subscription and the meter are linked to an item there
  BatchSize,   \* BILLING_OUTBOX_BATCH_SIZE
  MaxTries,    \* MAX_ATTEMPTS
  MaxCrashes,  \* bound: workers that die in the middle of a task
  Many         \* bound: usage records at Stripe are counted up to here

Events == 1 .. NEvents
NoEvent == 0

ASSUME CountAssumption == NEvents \in Nat /\ BatchSize \in Nat \ {0} /\ MaxCrashes \in Nat
ASSUME TriesAssumption == MaxTries \in Nat \ {0}
ASSUME ManyAssumption  == Many \in Nat \ {0}
ASSUME NobodyAssumption == Nobody \notin Workers
ASSUME MeteredAssumption == Metered \subseteq Events /\ Synced \subseteq Metered

VARIABLES
  status,    \* outbox_events.status as committed, "absent" before the event is emitted
  tries,     \* outbox_events.attempt_count as committed
  due,       \* next_attempt_at has passed
  entries,   \* committed ledger entries of each usage event
  stripe,    \* usage records Stripe has counted for it
  lock,      \* holder of the row lock of the event
  batch,     \* events of the worker's batch it has still to handle
  loaded,    \* attempt_count of the batch's copies
  current,   \* the event the worker is handling
  pc,        \* where it is
  wrote,     \* its transaction holds a ledger entry of the current event
  ok,        \* no exception reached the except branch
  crashes    \* workers that have died, for MaxCrashes

table == <<status, tries, due, entries, stripe>>
local == <<batch, loaded, current, pc, wrote, ok>>
vars  == <<table, lock, local, crashes>>

-----------------------------------------------------------------------------
Init ==
  /\ status = [e \in Events |-> "absent"]
  /\ tries = [e \in Events |-> 0]
  /\ due = [e \in Events |-> FALSE]
  /\ entries = [e \in Events |-> 0]
  /\ stripe = [e \in Events |-> 0]
  /\ lock = [e \in Events |-> Nobody]
  /\ batch = [w \in Workers |-> {}]
  /\ loaded = [w \in Workers |-> [e \in Events |-> 0]]
  /\ current = [w \in Workers |-> NoEvent]
  /\ pc = [w \in Workers |-> "idle"]
  /\ wrote = [w \in Workers |-> FALSE]
  /\ ok = [w \in Workers |-> TRUE]
  /\ crashes = 0

\* emit_usage, committed with the request that calls it.
Emit(e) ==
  /\ status[e] = "absent"
  /\ \A f \in Events : f < e => status[f] # "absent"
  /\ status' = [status EXCEPT ![e] = "pending"]
  /\ due' = [due EXCEPT ![e] = TRUE]
  /\ UNCHANGED <<tries, entries, stripe, lock, local, crashes>>

\* The back-off of min(60, 2^attempt_count) minutes is over.
BackoffElapses(e) ==
  /\ status[e] = "retry" /\ ~due[e]
  /\ due' = [due EXCEPT ![e] = TRUE]
  /\ UNCHANGED <<status, tries, entries, stripe, lock, local, crashes>>

Waiting == {e \in Events : /\ status[e] \in {"pending", "retry"}
                           /\ due[e] /\ lock[e] = Nobody}

\* The oldest BatchSize events of S.
OldestOf(S, taken) ==
  /\ taken \subseteq S
  /\ taken = S \/ Cardinality(taken) = BatchSize
  /\ Cardinality(taken) <= BatchSize
  /\ \A e \in taken, f \in S \ taken : e < f

\* The SELECT of _process_tenant_events, every time the beat schedules a task.
Take(w) ==
  /\ pc[w] = "idle"
  /\ \E taken \in SUBSET Waiting :
       /\ taken # {}
       /\ OldestOf(Waiting, taken)
       /\ batch' = [batch EXCEPT ![w] = taken]
       /\ lock' = [e \in Events |-> IF e \in taken THEN w ELSE lock[e]]
  /\ loaded' = [loaded EXCEPT ![w] = tries]
  /\ pc' = [pc EXCEPT ![w] = "next"]
  /\ UNCHANGED <<table, current, wrote, ok, crashes>>

\* Mutant: the event is taken from the batch without its row being locked.
StartUnlocked(w) ==
  \E e \in batch[w] :
    /\ pc[w] = "next"
    /\ \A f \in batch[w] : e <= f
    /\ current' = [current EXCEPT ![w] = e]
    /\ wrote' = [wrote EXCEPT ![w] = FALSE]
    /\ ok' = [ok EXCEPT ![w] = TRUE]
    /\ pc' = [pc EXCEPT ![w] = "handling"]
    /\ UNCHANGED <<table, lock, batch, loaded, crashes>>

\* status = 'processing', flushed: the UPDATE waits for the row lock.
Start(w) ==
  \E e \in batch[w] :
    /\ pc[w] = "next"
    /\ \A f \in batch[w] : e <= f
    /\ lock[e] \in {w, Nobody}
    /\ lock' = [lock EXCEPT ![e] = w]
    /\ current' = [current EXCEPT ![w] = e]
    /\ wrote' = [wrote EXCEPT ![w] = FALSE]
    /\ ok' = [ok EXCEPT ![w] = TRUE]
    /\ pc' = [pc EXCEPT ![w] = "handling"]
    /\ UNCHANGED <<table, batch, loaded, crashes>>

Move(w, to) == pc' = [pc EXCEPT ![w] = to]

\* _handle_usage_recorded raises before it reaches the ledger, or finds no
\* active meter and returns.
Skip(w) ==
  /\ pc[w] = "handling"
  /\ \/ ok' = [ok EXCEPT ![w] = FALSE]
     \/ current[w] \notin Metered /\ UNCHANGED ok
  /\ Move(w, "handled")
  /\ UNCHANGED <<table, lock, batch, loaded, current, wrote, crashes>>

\* Mutant: no idempotency check.
CheckNothing(w) ==
  /\ pc[w] = "handling"
  /\ current[w] \in Metered
  /\ Move(w, "missing")
  /\ UNCHANGED <<table, lock, batch, loaded, current, wrote, ok, crashes>>

\* The idempotency check: is there a committed entry for this usage event?
Check(w) ==
  /\ pc[w] = "handling"
  /\ current[w] \in Metered
  /\ Move(w, IF entries[current[w]] = 0 THEN "missing" ELSE "recorded")
  /\ UNCHANGED <<table, lock, batch, loaded, current, wrote, ok, crashes>>

\* The entry is inserted; others see it when the transaction commits.
Insert(w) ==
  /\ pc[w] = "missing"
  /\ wrote' = [wrote EXCEPT ![w] = TRUE]
  /\ Move(w, "recorded")
  /\ UNCHANGED <<table, lock, batch, loaded, current, ok, crashes>>

AtMost(n, bound) == IF n > bound THEN bound ELSE n

\* Mutant: the exception of the call is swallowed.
CallStripeQuietly(w) ==
  /\ pc[w] = "recorded"
  /\ current[w] \in Synced
  /\ \E counted \in BOOLEAN :
       stripe' = IF counted
                 THEN [stripe EXCEPT ![current[w]] = AtMost(@ + 1, Many)]
                 ELSE stripe
  /\ Move(w, "handled")
  /\ UNCHANGED <<status, tries, due, entries, lock, batch, loaded, current, wrote, ok, crashes>>

\* _maybe_sync_stripe_usage finds nothing to report to.
SkipSync(w) ==
  /\ pc[w] = "recorded"
  /\ current[w] \notin Synced
  /\ Move(w, "handled")
  /\ UNCHANGED <<table, lock, batch, loaded, current, wrote, ok, crashes>>

\* record_metered_usage increments at Stripe; the call may fail before or
\* after Stripe has counted the record.
CallStripe(w) ==
  /\ pc[w] = "recorded"
  /\ current[w] \in Synced
  /\ \E counted, answered \in BOOLEAN :
       /\ answered => counted
       /\ stripe' = IF counted
                    THEN [stripe EXCEPT ![current[w]] = AtMost(@ + 1, Many)]
                    ELSE stripe
       /\ ok' = [ok EXCEPT ![w] = answered]
  /\ Move(w, "handled")
  /\ UNCHANGED <<status, tries, due, entries, lock, batch, loaded, current, wrote, crashes>>

Released(w) == [e \in Events |-> IF lock[e] = w THEN Nobody ELSE lock[e]]

\* Mutants: the row is left 'processing'; the last attempt is counted one too
\* late; attempts are not counted.
OutcomeProcessing(w) ==
  /\ status' = [status EXCEPT ![current[w]] = IF ok[w] THEN "processing" ELSE "failed"]
  /\ UNCHANGED <<tries, due>>

OutcomeLate(w) ==
  LET e == current[w]
      n == loaded[w][e] + 1
  IN  IF ok[w]
      THEN /\ status' = [status EXCEPT ![e] = "done"]
           /\ UNCHANGED <<tries, due>>
      ELSE /\ tries' = [tries EXCEPT ![e] = n]
           /\ status' = [status EXCEPT ![e] = IF n > MaxTries THEN "failed" ELSE "retry"]
           /\ due' = [due EXCEPT ![e] = FALSE]

OutcomeUncounted(w) ==
  /\ status' = [status EXCEPT ![current[w]] = IF ok[w] THEN "done" ELSE "retry"]
  /\ due' = [due EXCEPT ![current[w]] = ok[w]]
  /\ UNCHANGED tries

\* The row of the event after the handler: done, or one more attempt counted
\* from the number the batch was loaded with.
Outcome(w) ==
  LET e == current[w]
      n == loaded[w][e] + 1
  IN  IF ok[w]
      THEN /\ status' = [status EXCEPT ![e] = "done"]
           /\ UNCHANGED <<tries, due>>
      ELSE /\ tries' = [tries EXCEPT ![e] = n]
           /\ status' = [status EXCEPT ![e] = IF n >= MaxTries THEN "failed" ELSE "retry"]
           /\ due' = IF n >= MaxTries THEN due ELSE [due EXCEPT ![e] = FALSE]

\* The commit of one event releases every lock the worker holds.
Settle(w) ==
  LET e == current[w]
  IN  /\ pc[w] = "handled"
      /\ Outcome(w)
      /\ entries' = IF wrote[w] THEN [entries EXCEPT ![e] = @ + 1] ELSE entries
      /\ lock' = Released(w)
      /\ batch' = [batch EXCEPT ![w] = @ \ {e}]
      /\ current' = [current EXCEPT ![w] = NoEvent]
      /\ wrote' = [wrote EXCEPT ![w] = FALSE]
      /\ ok' = [ok EXCEPT ![w] = TRUE]
      /\ Move(w, IF batch[w] = {e} THEN "idle" ELSE "next")
      /\ UNCHANGED <<stripe, loaded, crashes>>

\* The worker dies, or its connection breaks: the open transaction is rolled
\* back, and what Stripe has counted stays.  acks_late hands the task to
\* another run of the same code.
Crash(w) ==
  /\ pc[w] # "idle"
  /\ crashes < MaxCrashes
  /\ crashes' = crashes + 1
  /\ lock' = Released(w)
  /\ batch' = [batch EXCEPT ![w] = {}]
  /\ current' = [current EXCEPT ![w] = NoEvent]
  /\ wrote' = [wrote EXCEPT ![w] = FALSE]
  /\ ok' = [ok EXCEPT ![w] = TRUE]
  /\ Move(w, "idle")
  /\ UNCHANGED <<table, loaded>>

Handle(w) ==
  Skip(w) \/ Check(w) \/ Insert(w) \/ SkipSync(w) \/ CallStripe(w) \/ Settle(w)

Next ==
  \/ \E e \in Events : Emit(e) \/ BackoffElapses(e)
  \/ \E w \in Workers : Take(w) \/ Start(w) \/ Handle(w) \/ Crash(w)

Spec == Init /\ [][Next]_vars

\* The beat keeps scheduling tasks and a running task goes on.  Start waits
\* for a row lock, which PostgreSQL grants in the order of the requests.
Fairness ==
  /\ \A e \in Events : WF_vars(BackoffElapses(e))
  /\ \A w \in Workers : WF_vars(Take(w)) /\ WF_vars(Handle(w)) /\ SF_vars(Start(w))

FairSpec == Spec /\ Fairness

-----------------------------------------------------------------------------
Statuses == {"absent", "pending", "retry", "done", "failed"}
Places   == {"idle", "next", "handling", "missing", "recorded", "handled"}

\* Every variable holds a value of its domain.
TypeOK ==
  /\ status \in [Events -> Statuses]
  /\ tries \in [Events -> Nat]
  /\ due \in [Events -> BOOLEAN]
  /\ entries \in [Events -> Nat]
  /\ stripe \in [Events -> 0 .. Many]
  /\ lock \in [Events -> Workers \cup {Nobody}]
  /\ batch \in [Workers -> SUBSET Events]
  /\ loaded \in [Workers -> [Events -> Nat]]
  /\ current \in [Workers -> Events \cup {NoEvent}]
  /\ pc \in [Workers -> Places]
  /\ wrote \in [Workers -> BOOLEAN]
  /\ ok \in [Workers -> BOOLEAN]
  /\ crashes \in 0 .. MaxCrashes

\* A usage event is charged at most once, however its handling is repeated,
\* taken over by another worker or cut off by a crash; the unique constraint
\* of the ledger never has anything to refuse.
ChargedAtMostOnce == \A e \in Events : entries[e] <= 1

\* An event is done only after its charge is in the ledger and, if it is to be
\* reported, Stripe has counted it at least once.
DoneIsCharged ==
  \A e \in Metered : status[e] = "done" =>
    entries[e] = 1 /\ (e \in Synced => stripe[e] >= 1)

\* An event has failed only after MAX_ATTEMPTS counted attempts, and one that
\* waits for a retry has used some and has some left, although workers count
\* from the number they loaded with the batch.
AttemptsMatchStatus ==
  \A e \in Events :
    /\ status[e] = "failed" => tries[e] = MaxTries
    /\ status[e] = "retry" => tries[e] \in 1 .. MaxTries - 1
    /\ status[e] \in {"absent", "pending"} => tries[e] = 0

\* Two workers never handle the same event at a time, although both may have
\* it in their batches.
OneHandler ==
  \A v, w \in Workers : current[v] = current[w] /\ current[v] # NoEvent => v = w

\* Every emitted event is done or failed in the end, and then for good: events
\* in two batches, stale counts and waits for locks never keep one going.
EventuallySettled ==
  \A e \in Events :
    status[e] = "pending" ~> [](status[e] \in {"done", "failed"})
=============================================================================

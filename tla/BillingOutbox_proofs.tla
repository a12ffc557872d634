------------------------ MODULE BillingOutbox_proofs ------------------------
(***************************************************************************)
(* Proofs about BillingOutbox, for every number of events, workers, tries  *)
(* and crashes: the row lock a worker holds while it handles an event is    *)
(* what makes check-then-insert safe, although locks taken for the batch   *)
(* are given up after the first commit.  The second part is about an       *)
(* instance of StripeWebhooks, the events that come the other way, and the *)
(* third about one of PlanTemplates, the plans that are charged for.       *)
(***************************************************************************)
EXTENDS BillingOutbox, Sequences, TLAPS

Busy == {"handling", "missing", "recorded", "handled"}

\* A worker owns the row of the event it handles.
Owning ==
  \A w \in Workers :
    /\ current[w] # NoEvent <=> pc[w] \in Busy
    /\ pc[w] \in Busy => lock[current[w]] = w /\ current[w] \in batch[w]
    /\ wrote[w] => pc[w] \in {"recorded", "handled"}

\* What a worker has read of the ledger is still true of it.
Charging ==
  \A w \in Workers : pc[w] \in Busy =>
    /\ pc[w] = "missing" \/ wrote[w] => entries[current[w]] = 0
    /\ pc[w] = "recorded" => wrote[w] \/ entries[current[w]] = 1
    /\ pc[w] = "handled" /\ ok[w] /\ current[w] \in Metered =>
         /\ wrote[w] \/ entries[current[w]] = 1
         /\ current[w] \in Synced => stripe[current[w]] >= 1

\* A batch is loaded with attempts left.
Counting ==
  \A w \in Workers : \A e \in batch[w] : loaded[w][e] < MaxTries

IInv == /\ TypeOK /\ Owning /\ Charging /\ Counting
        /\ ChargedAtMostOnce /\ DoneIsCharged /\ AttemptsMatchStatus

\* Zero is not an event.
LEMMA NoEventIsNone == NoEvent \notin Events
  BY CountAssumption DEF NoEvent, Events

\* The initial state satisfies the inductive invariant.
LEMMA InitIInv == Init => IInv
<1> SUFFICES ASSUME Init PROVE IInv
  OBVIOUS
<1>1. TypeOK
  <2>1. crashes \in 0 .. MaxCrashes /\ stripe \in [Events -> 0 .. Many]
    BY CountAssumption, ManyAssumption DEF Init
  <2> QED
    BY <2>1 DEF Init, TypeOK, Statuses, Places
<1>2. Owning
  BY DEF Init, Owning, Busy
<1>3. Charging /\ Counting
  BY DEF Init, Charging, Counting, Busy
<1>4. ChargedAtMostOnce /\ AttemptsMatchStatus
  BY DEF Init, ChargedAtMostOnce, AttemptsMatchStatus
<1>5. DoneIsCharged
  BY MeteredAssumption DEF Init, DoneIsCharged
<1> QED
  BY <1>1, <1>2, <1>3, <1>4, <1>5 DEF IInv

\* A new event is pending, with no charge and no attempts.
LEMMA EmitKeeps ==
  ASSUME IInv, NEW e \in Events, Emit(e)
  PROVE  IInv'
<1> USE DEF Emit, table, local
<1>1. TypeOK'
  BY DEF IInv, TypeOK, Statuses
<1>2. Owning' /\ Charging' /\ Counting' /\ ChargedAtMostOnce'
  BY DEF IInv, Owning, Charging, Counting, ChargedAtMostOnce
<1>3. DoneIsCharged'
  BY DEF IInv, TypeOK, DoneIsCharged
<1>4. AttemptsMatchStatus'
  BY DEF IInv, TypeOK, AttemptsMatchStatus
<1> QED
  BY <1>1, <1>2, <1>3, <1>4 DEF IInv

\* The clock changes nothing the invariant speaks of.
LEMMA BackoffElapsesKeeps ==
  ASSUME IInv, NEW e \in Events, BackoffElapses(e)
  PROVE  IInv'
<1> USE DEF BackoffElapses, table, local
<1>1. TypeOK'
  BY DEF IInv, TypeOK
<1>2. Owning' /\ Charging' /\ Counting' /\ ChargedAtMostOnce' /\ DoneIsCharged' /\ AttemptsMatchStatus'
  BY DEF IInv, Owning, Charging, Counting, ChargedAtMostOnce, DoneIsCharged, AttemptsMatchStatus
<1> QED
  BY <1>1, <1>2 DEF IInv

\* A worker takes only rows nobody holds, with attempts left.
LEMMA TakeKeeps ==
  ASSUME IInv, NEW w \in Workers, Take(w)
  PROVE  IInv'
<1> USE DEF table
<1>1. PICK taken \in SUBSET Waiting :
        /\ batch' = [batch EXCEPT ![w] = taken]
        /\ lock' = [e \in Events |-> IF e \in taken THEN w ELSE lock[e]]
  BY DEF Take
<1>2. taken \in SUBSET Events /\ \A e \in taken : lock[e] = Nobody
  BY DEF Waiting
<1>3. TypeOK'
  BY <1>1, <1>2 DEF Take, IInv, TypeOK, Places
<1>4. Owning'
  <2> SUFFICES ASSUME NEW v \in Workers
               PROVE  /\ current'[v] # NoEvent <=> pc'[v] \in Busy
                      /\ pc'[v] \in Busy => lock'[current'[v]] = v /\ current'[v] \in batch'[v]
                      /\ wrote'[v] => pc'[v] \in {"recorded", "handled"}
    BY DEF Owning
  <2>1. CASE v = w
    BY <2>1 DEF Take, IInv, TypeOK, Owning, Busy
  <2>2. CASE v # w
    <3>1. /\ pc'[v] = pc[v] /\ current'[v] = current[v] /\ wrote'[v] = wrote[v]
          /\ batch'[v] = batch[v]
      BY <1>1, <2>2 DEF Take, IInv, TypeOK
    <3>2. pc[v] \in Busy => lock'[current[v]] = v
      BY <1>1, <1>2, NoEventIsNone, NobodyAssumption DEF IInv, TypeOK, Owning
    <3> QED
      BY <3>1, <3>2 DEF IInv, Owning
  <2> QED
    BY <2>1, <2>2
<1>5. Charging'
  BY DEF Take, IInv, TypeOK, Charging, Busy
<1>6. Counting'
  <2>1. \A e \in taken : tries[e] < MaxTries
    BY <1>2, TriesAssumption DEF Waiting, IInv, AttemptsMatchStatus
  <2> QED
    BY <1>1, <2>1 DEF Take, IInv, TypeOK, Counting
<1>7. ChargedAtMostOnce' /\ DoneIsCharged' /\ AttemptsMatchStatus'
  BY DEF Take, IInv, ChargedAtMostOnce, DoneIsCharged, AttemptsMatchStatus
<1> QED
  BY <1>3, <1>4, <1>5, <1>6, <1>7 DEF IInv

\* A worker starts on a row only when it gets its lock.
LEMMA StartKeeps ==
  ASSUME IInv, NEW w \in Workers, Start(w)
  PROVE  IInv'
<1> USE DEF table
<1>1. PICK e \in batch[w] :
        /\ pc[w] = "next"
        /\ lock[e] \in {w, Nobody}
        /\ lock' = [lock EXCEPT ![e] = w]
        /\ current' = [current EXCEPT ![w] = e]
        /\ wrote' = [wrote EXCEPT ![w] = FALSE]
        /\ ok' = [ok EXCEPT ![w] = TRUE]
        /\ pc' = [pc EXCEPT ![w] = "handling"]
        /\ UNCHANGED <<table, batch, loaded, crashes>>
  BY DEF Start
<1>2. e \in Events
  BY DEF IInv, TypeOK
<1>3. TypeOK'
  BY <1>1, <1>2 DEF IInv, TypeOK, Places
<1>4. Owning'
  <2> SUFFICES ASSUME NEW v \in Workers
               PROVE  /\ current'[v] # NoEvent <=> pc'[v] \in Busy
                      /\ pc'[v] \in Busy => lock'[current'[v]] = v /\ current'[v] \in batch'[v]
                      /\ wrote'[v] => pc'[v] \in {"recorded", "handled"}
    BY DEF Owning
  <2>1. CASE v = w
    BY <1>1, <1>2, <2>1, NoEventIsNone DEF IInv, TypeOK, Busy
  <2>2. CASE v # w
    <3>1. /\ pc'[v] = pc[v] /\ current'[v] = current[v] /\ wrote'[v] = wrote[v]
          /\ batch'[v] = batch[v]
      BY <1>1, <2>2 DEF IInv, TypeOK
    <3>2. pc[v] \in Busy => lock'[current[v]] = v
      BY <1>1, <1>2, <2>2, NoEventIsNone, NobodyAssumption DEF IInv, TypeOK, Owning
    <3> QED
      BY <3>1, <3>2 DEF IInv, Owning
  <2> QED
    BY <2>1, <2>2
<1>5. Charging'
  BY <1>1 DEF IInv, TypeOK, Charging, Busy
<1>6. Counting' /\ ChargedAtMostOnce' /\ DoneIsCharged' /\ AttemptsMatchStatus'
  BY <1>1 DEF IInv, Counting, ChargedAtMostOnce, DoneIsCharged, AttemptsMatchStatus
<1> QED
  BY <1>3, <1>4, <1>5, <1>6 DEF IInv

\* A step that only moves a busy worker on, and may change its own marks.
LEMMA LocalStepKeepsOwning ==
  ASSUME IInv, NEW w \in Workers, NEW to \in Busy, pc[w] \in Busy, Move(w, to),
         \A v \in Workers \ {w} : wrote'[v] = wrote[v],
         wrote'[w] => to \in {"recorded", "handled"},
         UNCHANGED <<lock, batch, current>>
  PROVE  Owning'
  BY DEF IInv, TypeOK, Owning, Move, Busy

\* A handler that raises early, or has nothing to meter, writes nothing.
LEMMA SkipKeeps ==
  ASSUME IInv, NEW w \in Workers, Skip(w)
  PROVE  IInv'
<1> USE DEF table
<1>1. TypeOK'
  BY DEF Skip, Move, IInv, TypeOK, Places
<1>2. Owning'
  BY LocalStepKeepsOwning DEF Skip, IInv, Owning, Busy
<1>3. Charging'
  BY DEF Skip, Move, IInv, TypeOK, Owning, Charging, Busy
<1>4. Counting' /\ ChargedAtMostOnce' /\ DoneIsCharged' /\ AttemptsMatchStatus'
  BY DEF Skip, IInv, Counting, ChargedAtMostOnce, DoneIsCharged, AttemptsMatchStatus
<1> QED
  BY <1>1, <1>2, <1>3, <1>4 DEF IInv

\* What the check finds stays true while the row is locked.
LEMMA CheckKeeps ==
  ASSUME IInv, NEW w \in Workers, Check(w)
  PROVE  IInv'
<1> USE DEF table
<1>1. TypeOK'
  BY DEF Check, Move, IInv, TypeOK, Places
<1>2. Owning'
  BY LocalStepKeepsOwning DEF Check, IInv, Owning, Busy
<1>3. Charging'
  <2>1. entries[current[w]] = 0 \/ entries[current[w]] = 1
    <3>1. current[w] \in Events
      BY MeteredAssumption DEF Check
    <3>2. entries[current[w]] \in Nat /\ entries[current[w]] <= 1
      <4>1. entries[current[w]] \in Nat
        BY <3>1 DEF IInv, TypeOK
      <4>2. entries[current[w]] <= 1
        BY <3>1 DEF IInv, ChargedAtMostOnce
      <4> QED
        BY <4>1, <4>2
    <3> QED
      BY <3>2
  <2>4. ~wrote[w]
    BY DEF Check, IInv, Owning
  <2> SUFFICES ASSUME NEW v \in Workers, pc'[v] \in Busy
               PROVE  /\ pc'[v] = "missing" \/ wrote[v] => entries[current[v]] = 0
                      /\ pc'[v] = "recorded" => wrote[v] \/ entries[current[v]] = 1
                      /\ pc'[v] = "handled" /\ ok[v] /\ current[v] \in Metered =>
                           /\ wrote[v] \/ entries[current[v]] = 1
                           /\ current[v] \in Synced => stripe[current[v]] >= 1
    BY DEF Check, Charging
  <2>2. CASE v = w
    <3>1. pc'[w] = IF entries[current[w]] = 0 THEN "missing" ELSE "recorded"
      BY DEF Check, Move, IInv, TypeOK
    <3> QED
      BY <2>1, <2>2, <2>4, <3>1
  <2>3. CASE v # w
    BY <2>3 DEF Check, Move, IInv, TypeOK, Charging
  <2> QED
    BY <2>2, <2>3
<1>4. Counting' /\ ChargedAtMostOnce' /\ DoneIsCharged' /\ AttemptsMatchStatus'
  BY DEF Check, IInv, Counting, ChargedAtMostOnce, DoneIsCharged, AttemptsMatchStatus
<1> QED
  BY <1>1, <1>2, <1>3, <1>4 DEF IInv

\* The entry is inserted only where the check found none.
LEMMA InsertKeeps ==
  ASSUME IInv, NEW w \in Workers, Insert(w)
  PROVE  IInv'
<1> USE DEF table
<1>1. TypeOK'
  BY DEF Insert, Move, IInv, TypeOK, Places
<1>2. Owning'
  BY LocalStepKeepsOwning DEF Insert, IInv, TypeOK, Busy
<1>3. Charging'
  BY DEF Insert, Move, IInv, TypeOK, Charging, Busy
<1>4. Counting' /\ ChargedAtMostOnce' /\ DoneIsCharged' /\ AttemptsMatchStatus'
  BY DEF Insert, IInv, Counting, ChargedAtMostOnce, DoneIsCharged, AttemptsMatchStatus
<1> QED
  BY <1>1, <1>2, <1>3, <1>4 DEF IInv

\* Nothing is reported for an event that is not synced.
LEMMA SkipSyncKeeps ==
  ASSUME IInv, NEW w \in Workers, SkipSync(w)
  PROVE  IInv'
<1> USE DEF table
<1>1. TypeOK'
  BY DEF SkipSync, Move, IInv, TypeOK, Places
<1>2. Owning'
  BY LocalStepKeepsOwning DEF SkipSync, IInv, TypeOK, Busy
<1>3. Charging'
  <2> SUFFICES ASSUME NEW v \in Workers, pc'[v] \in Busy
               PROVE  /\ pc'[v] = "missing" \/ wrote[v] => entries[current[v]] = 0
                      /\ pc'[v] = "recorded" => wrote[v] \/ entries[current[v]] = 1
                      /\ pc'[v] = "handled" /\ ok[v] /\ current[v] \in Metered =>
                           /\ wrote[v] \/ entries[current[v]] = 1
                           /\ current[v] \in Synced => stripe[current[v]] >= 1
    BY DEF SkipSync, Charging
  <2>1. CASE v = w
    BY <2>1 DEF SkipSync, Move, IInv, TypeOK, Charging, Busy
  <2>2. CASE v # w
    BY <2>2 DEF SkipSync, Move, IInv, TypeOK, Charging
  <2> QED
    BY <2>1, <2>2
<1>4. Counting' /\ ChargedAtMostOnce' /\ DoneIsCharged' /\ AttemptsMatchStatus'
  BY DEF SkipSync, IInv, Counting, ChargedAtMostOnce, DoneIsCharged, AttemptsMatchStatus
<1> QED
  BY <1>1, <1>2, <1>3, <1>4 DEF IInv

\* Stripe counts more, never less.
LEMMA CallStripeKeeps ==
  ASSUME IInv, NEW w \in Workers, CallStripe(w)
  PROVE  IInv'
<1>1. PICK counted \in BOOLEAN, answered \in BOOLEAN :
        /\ answered => counted
        /\ stripe' = IF counted
                     THEN [stripe EXCEPT ![current[w]] = AtMost(stripe[current[w]] + 1, Many)]
                     ELSE stripe
        /\ ok' = [ok EXCEPT ![w] = answered]
  BY DEF CallStripe
<1>2. current[w] \in Events
  BY DEF CallStripe, IInv, TypeOK, Owning, Busy
<1>3. \A n \in 0 .. Many : AtMost(n + 1, Many) \in 1 .. Many /\ AtMost(n + 1, Many) >= n
  BY ManyAssumption DEF AtMost
<1>4. /\ stripe' \in [Events -> 0 .. Many]
      /\ \A e \in Events : stripe'[e] >= stripe[e]
      /\ answered => stripe'[current[w]] >= 1
  <2>1. CASE counted
    BY <1>1, <1>2, <1>3, <2>1, ManyAssumption DEF IInv, TypeOK
  <2>2. CASE ~counted
    BY <1>1, <2>2, ManyAssumption DEF IInv, TypeOK
  <2> QED
    BY <2>1, <2>2
<1>5. TypeOK'
  BY <1>1, <1>4 DEF CallStripe, Move, IInv, TypeOK, Places
<1>6. Owning'
  BY LocalStepKeepsOwning DEF CallStripe, IInv, TypeOK, Busy
<1>7. Charging'
  <2> SUFFICES ASSUME NEW v \in Workers, pc'[v] \in Busy
               PROVE  /\ pc'[v] = "missing" \/ wrote[v] => entries[current[v]] = 0
                      /\ pc'[v] = "recorded" => wrote[v] \/ entries[current[v]] = 1
                      /\ pc'[v] = "handled" /\ ok'[v] /\ current[v] \in Metered =>
                           /\ wrote[v] \/ entries[current[v]] = 1
                           /\ current[v] \in Synced => stripe'[current[v]] >= 1
    BY DEF CallStripe, Charging
  <2>1. CASE v = w
    BY <1>1, <1>4, <2>1 DEF CallStripe, Move, IInv, TypeOK, Charging, Busy
  <2>2. CASE v # w
    <3>1. pc'[v] = pc[v] /\ ok'[v] = ok[v]
      BY <1>1, <2>2 DEF CallStripe, Move, IInv, TypeOK
    <3>2. current[v] \in Events /\ stripe[current[v]] \in Int /\ stripe'[current[v]] \in Int
      BY <1>4, <3>1 DEF IInv, TypeOK, Owning
    <3>3. stripe'[current[v]] >= stripe[current[v]]
      BY <1>4, <3>2
    <3> QED
      BY <3>1, <3>2, <3>3 DEF IInv, Charging
  <2> QED
    BY <2>1, <2>2
<1>8. DoneIsCharged'
  <2>1. \A e \in Metered : stripe[e] >= 1 => stripe'[e] >= 1
    BY <1>4, MeteredAssumption DEF IInv, TypeOK
  <2> QED
    BY <2>1 DEF CallStripe, IInv, DoneIsCharged
<1>9. Counting' /\ ChargedAtMostOnce' /\ AttemptsMatchStatus'
  BY DEF CallStripe, IInv, Counting, ChargedAtMostOnce, AttemptsMatchStatus
<1> QED
  BY <1>5, <1>6, <1>7, <1>8, <1>9 DEF IInv

\* Giving up all locks of one worker takes none from another.
LEMMA ReleaseKeepsOthers ==
  ASSUME TypeOK, NEW w \in Workers, NEW v \in Workers \ {w}, NEW e \in Events, lock[e] = v
  PROVE  Released(w)[e] = v
  BY DEF TypeOK, Released

\* The commit of an event: the lock made the check still true.
LEMMA SettleKeeps ==
  ASSUME IInv, NEW w \in Workers, Settle(w)
  PROVE  IInv'
<1> DEFINE e == current[w]
           n == loaded[w][e] + 1
<1>1. /\ pc[w] = "handled" /\ e \in Events /\ e \in batch[w] /\ lock[e] = w
      /\ n \in 1 .. MaxTries
  BY TriesAssumption DEF Settle, IInv, TypeOK, Owning, Counting, Busy
<1>2. /\ entries' = IF wrote[w] THEN [entries EXCEPT ![e] = @ + 1] ELSE entries
      /\ lock' = Released(w)
      /\ batch' = [batch EXCEPT ![w] = @ \ {e}]
      /\ current' = [current EXCEPT ![w] = NoEvent]
      /\ wrote' = [wrote EXCEPT ![w] = FALSE]
      /\ ok' = [ok EXCEPT ![w] = TRUE]
      /\ pc' = [pc EXCEPT ![w] = IF batch[w] = {e} THEN "idle" ELSE "next"]
      /\ UNCHANGED <<stripe, loaded, crashes>>
  BY DEF Settle, Move
<1>3. \/ /\ ok[w]
         /\ status' = [status EXCEPT ![e] = "done"]
         /\ UNCHANGED <<tries, due>>
      \/ /\ ~ok[w]
         /\ tries' = [tries EXCEPT ![e] = n]
         /\ status' = [status EXCEPT ![e] = IF n >= MaxTries THEN "failed" ELSE "retry"]
         /\ due' = IF n >= MaxTries THEN due ELSE [due EXCEPT ![e] = FALSE]
  BY DEF Settle, Outcome
<1>4. /\ wrote[w] => entries[e] = 0
      /\ ok[w] /\ e \in Metered => (wrote[w] \/ entries[e] = 1) /\ (e \in Synced => stripe[e] >= 1)
  BY <1>1 DEF IInv, Charging, Busy
<1> HIDE DEF e, n
<1>5. /\ entries' \in [Events -> Nat]
      /\ \A f \in Events \ {e} : entries'[f] = entries[f]
      /\ entries'[e] = IF wrote[w] THEN entries[e] + 1 ELSE entries[e]
  BY <1>1, <1>2 DEF IInv, TypeOK
<1>6. TypeOK'
  <2>1. status' \in [Events -> Statuses] /\ tries' \in [Events -> Nat] /\ due' \in [Events -> BOOLEAN]
    <3>1. CASE ok[w]
      BY <1>1, <1>3, <3>1 DEF IInv, TypeOK, Statuses
    <3>2. CASE ~ok[w]
      <4>1. n \in Nat /\ tries' = [tries EXCEPT ![e] = n]
        BY <1>1, <1>3, <3>2
      <4>2. \E s \in Statuses : status' = [status EXCEPT ![e] = s]
        BY <1>3, <3>2 DEF Statuses
      <4>3. due' = due \/ due' = [due EXCEPT ![e] = FALSE]
        BY <1>3, <3>2
      <4>4. status' \in [Events -> Statuses]
        BY <1>1, <4>2 DEF IInv, TypeOK
      <4>5. tries' \in [Events -> Nat]
        BY <1>1, <4>1 DEF IInv, TypeOK
      <4>6. due' \in [Events -> BOOLEAN]
        BY <1>1, <4>3 DEF IInv, TypeOK
      <4> QED
        BY <4>4, <4>5, <4>6
    <3> QED
      BY <3>1, <3>2
  <2>2. lock' \in [Events -> Workers \cup {Nobody}]
    BY <1>2 DEF IInv, TypeOK, Released
  <2> QED
    BY <1>2, <1>5, <2>1, <2>2 DEF IInv, TypeOK, Places
<1>7. ASSUME NEW v \in Workers \ {w}
      PROVE  /\ pc'[v] = pc[v] /\ current'[v] = current[v] /\ wrote'[v] = wrote[v]
             /\ ok'[v] = ok[v] /\ batch'[v] = batch[v]
             /\ pc[v] \in Busy => /\ current[v] \in Events \ {e}
                                  /\ lock'[current[v]] = v
  <2>1. /\ pc'[v] = pc[v] /\ current'[v] = current[v] /\ wrote'[v] = wrote[v]
        /\ ok'[v] = ok[v] /\ batch'[v] = batch[v]
    BY <1>2 DEF IInv, TypeOK
  <2>2. ASSUME pc[v] \in Busy
        PROVE  current[v] \in Events \ {e} /\ lock'[current[v]] = v
    <3>1. current[v] \in Events /\ lock[current[v]] = v
      BY <2>2 DEF IInv, TypeOK, Owning
    <3>2. current[v] # e
      BY <1>1, <3>1
    <3> QED
      BY <1>2, <3>1, <3>2, ReleaseKeepsOthers DEF IInv
  <2> QED
    BY <2>1, <2>2
<1>8. /\ pc'[w] \in {"idle", "next"} /\ current'[w] = NoEvent /\ wrote'[w] = FALSE
      /\ batch'[w] \subseteq batch[w]
  BY <1>2 DEF IInv, TypeOK
<1>9. Owning'
  BY <1>7, <1>8 DEF IInv, Owning, Busy
<1>10. Charging'
  BY <1>2, <1>5, <1>7, <1>8 DEF IInv, Charging, Busy
<1>11. Counting'
  BY <1>2, <1>7, <1>8 DEF IInv, Counting
<1>12. ChargedAtMostOnce'
  BY <1>1, <1>4, <1>5 DEF IInv, TypeOK, ChargedAtMostOnce
<1>13. DoneIsCharged'
  <2> SUFFICES ASSUME NEW f \in Metered, status'[f] = "done"
               PROVE  entries'[f] = 1 /\ (f \in Synced => stripe'[f] >= 1)
    BY DEF DoneIsCharged
  <2>1. f \in Events
    BY MeteredAssumption
  <2>2. CASE f # e
    BY <1>2, <1>3, <1>5, <2>1, <2>2 DEF IInv, TypeOK, DoneIsCharged
  <2>3. CASE f = e
    <3>1. ok[w]
      BY <1>1, <1>3, <2>3 DEF IInv, TypeOK
    <3> QED
      BY <1>2, <1>4, <1>5, <2>3, <3>1
  <2> QED
    BY <2>2, <2>3
<1>14. AttemptsMatchStatus'
  <2> SUFFICES ASSUME NEW f \in Events
               PROVE  /\ status'[f] = "failed" => tries'[f] = MaxTries
                      /\ status'[f] = "retry" => tries'[f] \in 1 .. MaxTries - 1
                      /\ status'[f] \in {"absent", "pending"} => tries'[f] = 0
    BY DEF AttemptsMatchStatus
  <2>1. CASE f # e
    BY <1>3, <2>1 DEF IInv, TypeOK, AttemptsMatchStatus
  <2>2. CASE f = e
    <3>1. CASE ok[w]
      BY <1>1, <1>3, <2>2, <3>1 DEF IInv, TypeOK
    <3>2. CASE ~ok[w]
      <4>1. tries'[e] = n /\ status'[e] = IF n >= MaxTries THEN "failed" ELSE "retry"
        BY <1>1, <1>3, <3>2 DEF IInv, TypeOK
      <4>2. n = MaxTries \/ n \in 1 .. MaxTries - 1
        BY <1>1, TriesAssumption
      <4> QED
        BY <2>2, <4>1, <4>2, TriesAssumption
    <3> QED
      BY <3>1, <3>2
  <2> QED
    BY <2>1, <2>2
<1> QED
  BY <1>6, <1>9, <1>10, <1>11, <1>12, <1>13, <1>14 DEF IInv

\* A crash takes back only what was not committed.
LEMMA CrashKeeps ==
  ASSUME IInv, NEW w \in Workers, Crash(w)
  PROVE  IInv'
<1> USE DEF table
<1>1. TypeOK'
  <2>1. lock' \in [Events -> Workers \cup {Nobody}]
    BY DEF Crash, IInv, TypeOK, Released
  <2>2. crashes' \in 0 .. MaxCrashes
    BY CountAssumption DEF Crash, IInv, TypeOK
  <2> QED
    BY <2>1, <2>2 DEF Crash, Move, IInv, TypeOK, Places
<1>2. ASSUME NEW v \in Workers \ {w}
      PROVE  /\ pc'[v] = pc[v] /\ current'[v] = current[v] /\ wrote'[v] = wrote[v]
             /\ ok'[v] = ok[v] /\ batch'[v] = batch[v]
             /\ pc[v] \in Busy => lock'[current[v]] = v
  <2>1. /\ pc'[v] = pc[v] /\ current'[v] = current[v] /\ wrote'[v] = wrote[v]
        /\ ok'[v] = ok[v] /\ batch'[v] = batch[v]
    BY DEF Crash, Move, IInv, TypeOK
  <2>2. pc[v] \in Busy => current[v] \in Events /\ lock[current[v]] = v
    BY DEF IInv, TypeOK, Owning
  <2> QED
    BY <2>1, <2>2, ReleaseKeepsOthers DEF Crash, IInv
<1>3. pc'[w] = "idle" /\ current'[w] = NoEvent /\ wrote'[w] = FALSE /\ batch'[w] = {}
  BY DEF Crash, Move, IInv, TypeOK
<1>4. Owning'
  BY <1>2, <1>3 DEF IInv, Owning, Busy
<1>5. Charging'
  BY <1>2, <1>3 DEF Crash, IInv, Charging, Busy
<1>6. Counting'
  BY <1>2, <1>3 DEF Crash, IInv, Counting
<1>7. ChargedAtMostOnce' /\ DoneIsCharged' /\ AttemptsMatchStatus'
  BY DEF Crash, IInv, ChargedAtMostOnce, DoneIsCharged, AttemptsMatchStatus
<1> QED
  BY <1>1, <1>4, <1>5, <1>6, <1>7 DEF IInv

\* Every step keeps the inductive invariant.
LEMMA NextIInv == IInv /\ [Next]_vars => IInv'
<1> SUFFICES ASSUME IInv, [Next]_vars PROVE IInv'
  OBVIOUS
<1>1. CASE \E e \in Events : Emit(e) \/ BackoffElapses(e)
  BY <1>1, EmitKeeps, BackoffElapsesKeeps
<1>2. CASE \E w \in Workers : Take(w) \/ Start(w) \/ Crash(w)
  BY <1>2, TakeKeeps, StartKeeps, CrashKeeps
<1>3. CASE \E w \in Workers : Handle(w)
  BY <1>3, SkipKeeps, CheckKeeps, InsertKeeps, SkipSyncKeeps, CallStripeKeeps, SettleKeeps DEF Handle
<1>4. CASE UNCHANGED vars
  BY <1>4 DEF vars, table, local, IInv, TypeOK, Owning, Charging, Counting,
              ChargedAtMostOnce, DoneIsCharged, AttemptsMatchStatus
<1> QED
  BY <1>1, <1>2, <1>3, <1>4 DEF Next

\* The inductive invariant holds in every reachable state.
THEOREM IInvAlways == Spec => []IInv
<1>1. Init => IInv
  BY InitIInv
<1>2. IInv /\ [Next]_vars => IInv'
  BY NextIInv
<1> QED
  BY <1>1, <1>2, PTL DEF Spec

\* Every variable keeps to its domain.
THEOREM TypeCorrect == Spec => []TypeOK
  BY IInvAlways, PTL DEF IInv

\* No usage event is charged twice, and the unique constraint never fires.
THEOREM AlwaysChargedAtMostOnce == Spec => []ChargedAtMostOnce
  BY IInvAlways, PTL DEF IInv

\* What is done is charged, in the ledger once and at Stripe at least once.
THEOREM DoneIsAlwaysCharged == Spec => []DoneIsCharged
  BY IInvAlways, PTL DEF IInv

\* Attempts and statuses agree, whatever a worker's stale count was.
THEOREM AttemptsAlwaysMatchStatus == Spec => []AttemptsMatchStatus
  BY IInvAlways, PTL DEF IInv

\* One worker at a time handles an event.
THEOREM AlwaysOneHandler == Spec => []OneHandler
<1>1. IInv => OneHandler
  BY DEF IInv, TypeOK, Owning, OneHandler
<1> QED
  BY <1>1, IInvAlways, PTL

-----------------------------------------------------------------------------
(* The events of Stripe, for any number of changes, prices and losses: what is committed *)
(* with the record of an event, and what an event that comes late leaves behind.         *)

CONSTANTS Prices, NewPrice, MaxChanges, MaxLost
VARIABLES objects, unanswered, processed, rows, late, lost

\* The events that Stripe sends, next to the outbox that reports to it.
Stripe == INSTANCE StripeWebhooks

\* What a row holds.
RowStatuses == {"active", "past_due", "canceled", "incomplete", "open", "paid", "none"}
Row == [status : RowStatuses, price : Prices \cup {NewPrice, "none"}, of : Nat]

\* The states an object has had.
Versions(k) == 1 .. Len(objects[k])

\* An event is about a state its object has had, or it is a completed checkout.
SoundEvent(e) ==
  e = Stripe!Checkout \/ \E k \in Stripe!Kinds : \E i \in Versions(k) : e = Stripe!Event(k, i)

\* The domains of the variables.
WebhookTypes ==
  /\ DOMAIN objects = Stripe!Kinds
  /\ \A k \in Stripe!Kinds : /\ objects[k] \in Seq(Stripe!States[k])
                             /\ Len(objects[k]) \in 1 .. (MaxChanges + 1)
  /\ rows \in [Stripe!Kinds -> Row]
  /\ \A k \in Stripe!Kinds : rows[k].status \in Stripe!Stored(k) \cup {"none"}
  /\ \A e \in unanswered \cup processed : SoundEvent(e)
  /\ late \subseteq Stripe!Kinds
  /\ lost \in 0 .. MaxLost

\* Every state of an object had its event, and what is answered was processed.
AllTold ==
  /\ Stripe!Checkout \in unanswered \cup processed
  /\ \A k \in Stripe!Kinds : \A i \in Versions(k) : Stripe!Event(k, i) \in unanswered \cup processed

\* A row holds a state its object has had.
RowsAreStates ==
  \A k \in Stripe!Kinds :
    \/ rows[k] = Stripe!NoRow
    \/ rows[k].of \in Versions(k) /\ rows[k].status = objects[k][rows[k].of].status

\* The checkout comes first for a subscription: without its row no other event is handled,
\* and it makes a row if the price is known.
CheckoutFirst ==
  /\ rows["subscription"] # Stripe!NoRow => Stripe!Checkout \in processed
  /\ rows["subscription"] = Stripe!NoRow =>
       /\ \A e \in processed : e = Stripe!Checkout
       /\ Stripe!Checkout \in processed =>
            \E i \in Versions("subscription") : objects["subscription"][i].price = NewPrice

\* An object whose events came in order: its row is as new as the newest of them, and
\* shows the last price that was known of it, unless states before it are yet to be told.
InOrder ==
  \A k \in Stripe!Kinds \ late :
    /\ \A i \in Versions(k) : Stripe!Event(k, i) \in processed => i <= rows[k].of
    /\ k = "subscription" /\ rows[k] # Stripe!NoRow
       /\ (\A i \in Versions(k) : i < rows[k].of => Stripe!Event(k, i) \in processed)
       => \E j \in 1 .. rows[k].of :
            /\ objects[k][j].price # NewPrice /\ rows[k].price = objects[k][j].price
            /\ \A m \in (j + 1) .. rows[k].of : objects[k][m].price = NewPrice

\* An invoice has a row once one of its events was processed.
InvoiceStored == \A e \in processed : e.kind = "invoice" => rows["invoice"].of # 0

\* The inductive invariant.
WebhooksInv ==
  WebhookTypes /\ AllTold /\ RowsAreStates /\ CheckoutFirst /\ InOrder /\ InvoiceStored

\* The objects that webhooks are about.
LEMMA KindsAre == Stripe!Kinds = {"subscription", "invoice"}
BY DEF Stripe!Kinds

LEMMA EventsAre ==
  /\ \A k \in Stripe!Kinds : \A i : Stripe!Event(k, i) # Stripe!Checkout
  /\ \A k, l, i, j : Stripe!Event(k, i) = Stripe!Event(l, j) <=> k = l /\ i = j
  /\ \A k, i : Stripe!Event(k, i).kind = k /\ Stripe!Event(k, i).of = i
  /\ Stripe!Checkout.kind = "checkout" /\ Stripe!Checkout.of = 0
<1>1. \A k, i : Stripe!Event(k, i).kind = k /\ Stripe!Event(k, i).of = i
  BY DEF Stripe!Event
<1>2. Stripe!Checkout.kind = "checkout" /\ Stripe!Checkout.of = 0
  BY DEF Stripe!Event, Stripe!Checkout
<1>3. \A k, l, i, j : k = l /\ i = j => Stripe!Event(k, i) = Stripe!Event(l, j)
  OBVIOUS
<1> QED
  BY <1>1, <1>2, <1>3 DEF Stripe!Kinds

LEMMA StatesAre ==
  /\ \A s \in Stripe!States["subscription"] :
       /\ s.status \in {"active", "past_due", "canceled", "incomplete"}
       /\ s.price \in Prices \cup {NewPrice}
  /\ \A s \in Stripe!States["invoice"] : s.status \in {"open", "paid"} /\ s.price = "none"
BY DEF Stripe!States, Stripe!Stored

LEMMA NoRowIs ==
  /\ Stripe!NoRow \in Row /\ Stripe!NoRow.of = 0 /\ Stripe!NoRow.status = "none"
BY DEF Stripe!NoRow, Row, RowStatuses

LEMMA OneState == ASSUME NEW S, NEW s \in S PROVE <<s>> \in Seq(S) /\ Len(<<s>>) = 1
OBVIOUS

\* The initial state satisfies the inductive invariant.
LEMMA WebhooksStart == ASSUME Stripe!WebhookAssumption PROVE Stripe!Init => WebhooksInv
<1> SUFFICES ASSUME Stripe!Init PROVE WebhooksInv
  OBVIOUS
<1>1. /\ DOMAIN objects = Stripe!Kinds
      /\ \A k \in Stripe!Kinds : objects[k] \in Seq(Stripe!States[k]) /\ Len(objects[k]) = 1
  <2>1. PICK s \in Stripe!States["subscription"], i \in Stripe!States["invoice"] :
          objects = [subscription |-> <<s>>, invoice |-> <<i>>]
    BY DEF Stripe!Init
  <2>2. objects["subscription"] = <<s>> /\ objects["invoice"] = <<i>>
    BY <2>1
  <2>3. DOMAIN objects = {"subscription", "invoice"}
    BY <2>1
  <2>4. <<s>> \in Seq(Stripe!States["subscription"]) /\ Len(<<s>>) = 1
    BY OneState
  <2>5. <<i>> \in Seq(Stripe!States["invoice"]) /\ Len(<<i>>) = 1
    BY OneState
  <2> QED
    BY <2>2, <2>3, <2>4, <2>5, KindsAre
<1>s. /\ unanswered = {Stripe!Checkout} \cup {Stripe!Event(k, 1) : k \in Stripe!Kinds}
      /\ processed = {} /\ late = {} /\ lost = 0
      /\ rows = [k \in Stripe!Kinds |-> Stripe!NoRow]
  BY DEF Stripe!Init
<1>2. MaxChanges \in Nat /\ MaxLost \in Nat
  BY DEF Stripe!WebhookAssumption
<1>3. \A k \in Stripe!Kinds : rows[k] = Stripe!NoRow
  BY <1>s
<1>4. WebhookTypes
  <2>1. rows \in [Stripe!Kinds -> Row]
    BY <1>s, NoRowIs
  <2>2. \A e \in unanswered : SoundEvent(e)
    <3>1. \A k \in Stripe!Kinds : 1 \in Versions(k)
      BY <1>1 DEF Versions
    <3> QED
      BY <1>s, <3>1 DEF SoundEvent
  <2>3. 1 \in 1 .. (MaxChanges + 1) /\ 0 \in 0 .. MaxLost
    BY <1>2
  <2>4. \A k \in Stripe!Kinds : rows[k].status \in Stripe!Stored(k) \cup {"none"}
    BY <1>3, NoRowIs
  <2>5. /\ \A e \in unanswered \cup processed : SoundEvent(e)
        /\ late \subseteq Stripe!Kinds /\ lost \in 0 .. MaxLost
    BY <1>s, <2>2, <2>3
  <2>6. \A k \in Stripe!Kinds : Len(objects[k]) \in 1 .. (MaxChanges + 1)
    BY <1>1, <2>3
  <2> QED
    BY <1>1, <2>1, <2>4, <2>5, <2>6 DEF WebhookTypes
<1>5. AllTold
  <2>1. ASSUME NEW k \in Stripe!Kinds, NEW i \in Versions(k) PROVE i = 1
    <3>1. Len(objects[k]) = 1 /\ i \in 1 .. Len(objects[k])
      BY <1>1 DEF Versions
    <3> QED
      BY <3>1
  <2> QED
    BY <1>s, <2>1 DEF AllTold
<1>6. RowsAreStates /\ CheckoutFirst /\ InOrder /\ InvoiceStored
  BY <1>3, <1>s, KindsAre DEF RowsAreStates, CheckoutFirst, InOrder, InvoiceStored
<1> QED
  BY <1>4, <1>5, <1>6 DEF WebhooksInv

\* What an event is about is a state that its object has had.
LEMMA AboutIs ==
  ASSUME WebhookTypes, NEW e, SoundEvent(e)
  PROVE  /\ Stripe!About(e).kind \in Stripe!Kinds
         /\ Stripe!About(e).of \in Versions(Stripe!About(e).kind)
         /\ e = Stripe!Checkout => Stripe!About(e).kind = "subscription"
         /\ e # Stripe!Checkout => /\ Stripe!About(e) = e
                                   /\ e = Stripe!Event(e.kind, e.of)
<1>1. CASE e = Stripe!Checkout
  <2>1. Stripe!About(e) = Stripe!Event("subscription", Len(objects["subscription"]))
    BY <1>1 DEF Stripe!About
  <2>2. Len(objects["subscription"]) \in 1 .. (MaxChanges + 1)
    BY KindsAre DEF WebhookTypes
  <2> QED
    BY <1>1, <2>1, <2>2, EventsAre, KindsAre DEF Versions
<1>2. CASE e # Stripe!Checkout
  <2>1. PICK k \in Stripe!Kinds : \E i \in Versions(k) : e = Stripe!Event(k, i)
    BY <1>2 DEF SoundEvent
  <2>2. PICK i \in Versions(k) : e = Stripe!Event(k, i)
    BY <2>1
  <2> QED
    BY <1>2, <2>2, EventsAre DEF Stripe!About
<1> QED
  BY <1>1, <1>2

\* An object changes, and an event is about its new state.
LEMMA ChangeKeeps ==
  ASSUME WebhooksInv, Stripe!WebhookAssumption, NEW k \in Stripe!Kinds,
         NEW s \in Stripe!States[k], Stripe!Change(k, s)
  PROVE  WebhooksInv'
<1>0. PICK n : n = Len(objects[k])
  OBVIOUS
<1>1. /\ objects' = [objects EXCEPT ![k] = Append(@, s)]
      /\ UNCHANGED <<processed, rows, late, lost>>
      /\ unanswered' = unanswered \cup {Stripe!Event(k, Len(objects'[k]))}
      /\ n <= MaxChanges
  BY <1>0 DEF Stripe!Change
<1>2. /\ objects[k] \in Seq(Stripe!States[k]) /\ n \in Nat /\ MaxChanges \in Nat
      /\ k \in DOMAIN objects
  BY <1>0 DEF WebhooksInv, WebhookTypes, Stripe!WebhookAssumption
<1>3. /\ DOMAIN objects' = Stripe!Kinds
      /\ objects'[k] = Append(objects[k], s)
      /\ \A l \in Stripe!Kinds \ {k} : objects'[l] = objects[l]
  BY <1>1 DEF WebhooksInv, WebhookTypes
<1>4. /\ objects'[k] \in Seq(Stripe!States[k]) /\ Len(objects'[k]) = n + 1
      /\ \A i \in 1 .. n : objects'[k][i] = objects[k][i]
  BY <1>0, <1>2, <1>3
<1>5. /\ \A l \in Stripe!Kinds : Versions(l) \subseteq Versions(l)'
      /\ \A l \in Stripe!Kinds : \A i \in Versions(l) : objects'[l][i] = objects[l][i]
      /\ \A l \in Stripe!Kinds : \A i \in Versions(l)' : i \in Versions(l) \/ (l = k /\ i = n + 1)
  <2>1. Versions(k) = 1 .. n /\ Versions(k)' = 1 .. (n + 1)
    BY <1>0, <1>4 DEF Versions
  <2>2. \A l \in Stripe!Kinds \ {k} : Versions(l)' = Versions(l)
    BY <1>3 DEF Versions
  <2> QED
    BY <1>2, <1>3, <1>4, <2>1, <2>2
<1>6. WebhookTypes'
  <2>1. \A l \in Stripe!Kinds : /\ objects'[l] \in Seq(Stripe!States[l])
                                /\ Len(objects'[l]) \in 1 .. (MaxChanges + 1)
    <3>1. \A l \in Stripe!Kinds \ {k} : /\ objects'[l] \in Seq(Stripe!States[l])
                                        /\ Len(objects'[l]) \in 1 .. (MaxChanges + 1)
      BY <1>3 DEF WebhooksInv, WebhookTypes
    <3>2. Len(objects'[k]) \in 1 .. (MaxChanges + 1)
      BY <1>1, <1>2, <1>4
    <3> QED
      BY <1>4, <3>1, <3>2
  <2>2. \A e : SoundEvent(e) => SoundEvent(e)'
    BY <1>5 DEF SoundEvent
  <2>3. SoundEvent(Stripe!Event(k, n + 1))'
    <3>1. n + 1 \in Versions(k)'
      BY <1>2, <1>4 DEF Versions
    <3> QED
      BY <3>1 DEF SoundEvent
  <2>4. \A e \in unanswered' \cup processed' : SoundEvent(e)'
    BY <1>1, <1>4, <2>2, <2>3 DEF WebhooksInv, WebhookTypes
  <2> QED
    BY <1>1, <1>3, <2>1, <2>4 DEF WebhooksInv, WebhookTypes
<1>7. AllTold'
  <2>1. \A l \in Stripe!Kinds : \A i \in Versions(l)' :
          Stripe!Event(l, i) \in unanswered' \cup processed'
    <3> SUFFICES ASSUME NEW l \in Stripe!Kinds, NEW i \in Versions(l)'
                 PROVE  Stripe!Event(l, i) \in unanswered' \cup processed'
      OBVIOUS
    <3>1. CASE i \in Versions(l)
      BY <1>1, <3>1 DEF WebhooksInv, AllTold
    <3>2. CASE l = k /\ i = n + 1
      BY <1>1, <1>4, <3>2
    <3> QED
      BY <1>5, <3>1, <3>2
  <2> QED
    BY <1>1, <2>1 DEF WebhooksInv, AllTold
<1>8. RowsAreStates'
  <2>1. \A l \in Stripe!Kinds : rows[l] # Stripe!NoRow =>
          /\ rows[l].of \in Versions(l)'
          /\ rows[l].status = objects'[l][rows[l].of].status
    BY <1>5 DEF WebhooksInv, RowsAreStates
  <2> QED
    BY <1>1, <2>1 DEF RowsAreStates
<1>9. CheckoutFirst' /\ InvoiceStored'
  BY <1>1, <1>5, KindsAre DEF WebhooksInv, CheckoutFirst, InvoiceStored
<1>10. InOrder'
  <2> SUFFICES ASSUME NEW l \in Stripe!Kinds \ late
               PROVE  /\ \A i \in Versions(l)' : Stripe!Event(l, i) \in processed => i <= rows[l].of
                      /\ l = "subscription" /\ rows[l] # Stripe!NoRow
                         /\ (\A i \in Versions(l)' : i < rows[l].of => Stripe!Event(l, i) \in processed)
                         => \E j \in 1 .. rows[l].of :
                              /\ objects'[l][j].price # NewPrice /\ rows[l].price = objects'[l][j].price
                              /\ \A m \in (j + 1) .. rows[l].of : objects'[l][m].price = NewPrice
    BY <1>1 DEF InOrder
  <2>1. \A i \in Versions(l)' : Stripe!Event(l, i) \in processed => i \in Versions(l)
    <3> SUFFICES ASSUME NEW i \in Versions(l)', Stripe!Event(l, i) \in processed
                 PROVE  i \in Versions(l)
      OBVIOUS
    <3>1. SoundEvent(Stripe!Event(l, i))
      BY DEF WebhooksInv, WebhookTypes
    <3> QED
      BY <3>1, EventsAre DEF SoundEvent
  <2>2. ASSUME l = "subscription", rows[l] # Stripe!NoRow,
               \A i \in Versions(l)' : i < rows[l].of => Stripe!Event(l, i) \in processed
        PROVE  \E j \in 1 .. rows[l].of :
                 /\ objects'[l][j].price # NewPrice /\ rows[l].price = objects'[l][j].price
                 /\ \A m \in (j + 1) .. rows[l].of : objects'[l][m].price = NewPrice
    <3>1. rows[l].of \in Versions(l)
      BY <2>2 DEF WebhooksInv, RowsAreStates
    <3>2. \A i \in Nat : i \in 1 .. rows[l].of => i \in Versions(l)
      BY <3>1 DEF Versions
    <3>3. PICK j \in 1 .. rows[l].of :
                 /\ objects[l][j].price # NewPrice /\ rows[l].price = objects[l][j].price
                 /\ \A m \in (j + 1) .. rows[l].of : objects[l][m].price = NewPrice
      BY <1>5, <2>2 DEF WebhooksInv, InOrder
    <3>4. rows[l].of \in Nat
      BY DEF WebhooksInv, WebhookTypes, Row
    <3>5. \A m \in j .. rows[l].of : objects'[l][m] = objects[l][m]
      BY <1>5, <3>2, <3>3, <3>4
    <3>6. \A m \in (j + 1) .. rows[l].of : m \in j .. rows[l].of
      BY <3>3, <3>4
    <3>7. j \in j .. rows[l].of
      BY <3>3, <3>4
    <3> QED
      BY <3>3, <3>5, <3>6, <3>7
  <2> QED
    BY <2>1, <2>2 DEF WebhooksInv, InOrder
<1> QED
  BY <1>6, <1>7, <1>8, <1>9, <1>10 DEF WebhooksInv

\* The row that a handler writes.
LEMMA UpsertedIs ==
  ASSUME WebhooksInv, NEW k \in Stripe!Kinds, NEW of \in Versions(k), Stripe!Storable(k, of)
  PROVE  LET new == Stripe!Upserted(k, of)
             unknown == k = "subscription" /\ objects[k][of].price = NewPrice
         IN  /\ new \in Row /\ new.status \in Stripe!Stored(k) \cup {"none"}
             /\ \/ unknown /\ rows[k] = Stripe!NoRow /\ new = Stripe!NoRow
                \/ /\ new # Stripe!NoRow /\ new.of = of
                   /\ new.status = objects[k][of].status
                   /\ unknown => rows[k] # Stripe!NoRow /\ new.price = rows[k].price
                   /\ ~unknown => new.price = objects[k][of].price
<1> DEFINE s == objects[k][of]
           new == Stripe!Upserted(k, of)
           unknown == k = "subscription" /\ s.price = NewPrice
<1>1. s \in Stripe!States[k] /\ of \in Nat
  <2>1. objects[k] \in Seq(Stripe!States[k]) /\ of \in 1 .. Len(objects[k])
    BY DEF WebhooksInv, WebhookTypes, Versions
  <2> QED
    BY <2>1
<1>2. s.status \in RowStatuses \ {"none"} /\ s.price \in Prices \cup {NewPrice, "none"}
  BY <1>1, StatesAre, KindsAre DEF RowStatuses
<1>3. new = IF unknown
            THEN IF rows[k] = Stripe!NoRow THEN Stripe!NoRow
                 ELSE [rows[k] EXCEPT !.status = s.status, !.of = of]
            ELSE [status |-> s.status, price |-> s.price, of |-> of]
  BY DEF Stripe!Upserted
<1>4. new.status \in Stripe!Stored(k) \cup {"none"}
  BY DEF Stripe!Storable
<1>5. CASE ~unknown
  <2>1. new = [status |-> s.status, price |-> s.price, of |-> of]
    BY <1>3, <1>5
  <2>2. new \in Row /\ new.status = s.status /\ new.of = of /\ new.price = s.price
    BY <1>1, <1>2, <2>1 DEF Row
  <2> QED
    BY <1>2, <1>4, <1>5, <2>2, NoRowIs
<1>6. CASE unknown /\ rows[k] = Stripe!NoRow
  BY <1>3, <1>4, <1>6, NoRowIs
<1>7. CASE unknown /\ rows[k] # Stripe!NoRow
  <2>1. rows[k] \in Row
    BY DEF WebhooksInv, WebhookTypes
  <2> DEFINE mid == [rows[k] EXCEPT !.status = s.status]
  <2>2. mid \in Row /\ mid.status = s.status /\ mid.price = rows[k].price
    BY <1>2, <2>1 DEF Row
  <2>3. new = [mid EXCEPT !.of = of]
    BY <1>3, <1>7, <2>1 DEF Row
  <2> HIDE DEF mid
  <2>4. /\ new \in Row /\ new.status = s.status /\ new.of = of
        /\ new.price = rows[k].price
    BY <1>1, <2>2, <2>3 DEF Row
  <2> QED
    BY <1>2, <1>4, <1>7, <2>4, NoRowIs
<1> QED
  BY <1>5, <1>6, <1>7

\* An event is handled, and what it says is stored.
LEMMA ProcessKeeps ==
  ASSUME WebhooksInv, Stripe!WebhookAssumption, NEW e \in unanswered, Stripe!Process(e)
  PROVE  WebhooksInv'
<1> DEFINE k == Stripe!About(e).kind
           of == Stripe!About(e).of
           new == Stripe!Upserted(k, of)
           unknown == k = "subscription" /\ objects[k][of].price = NewPrice
<1>1. /\ e \notin processed /\ Stripe!Resolved(e) /\ Stripe!Storable(k, of)
      /\ unanswered' \in {unanswered, unanswered \ {e}}
      /\ processed' = processed \cup {e}
      /\ rows' = [rows EXCEPT ![k] = new]
      /\ late' = IF of < rows[k].of THEN late \cup {k} ELSE late
      /\ objects' = objects
      /\ lost' \in 0 .. MaxLost
  BY DEF Stripe!Process, Stripe!Answered, WebhooksInv, WebhookTypes, Stripe!WebhookAssumption
<1>2. SoundEvent(e) /\ rows \in [Stripe!Kinds -> Row]
  BY DEF WebhooksInv, WebhookTypes
<1>3. /\ k \in Stripe!Kinds /\ of \in Versions(k)
      /\ e = Stripe!Checkout => k = "subscription"
      /\ e # Stripe!Checkout => e = Stripe!Event(k, of)
  BY <1>2, AboutIs DEF WebhooksInv
<1>4. /\ new \in Row /\ new.status \in Stripe!Stored(k) \cup {"none"}
      /\ \/ unknown /\ rows[k] = Stripe!NoRow /\ new = Stripe!NoRow
         \/ /\ new # Stripe!NoRow /\ new.of = of
            /\ new.status = objects[k][of].status
            /\ unknown => rows[k] # Stripe!NoRow /\ new.price = rows[k].price
            /\ ~unknown => new.price = objects[k][of].price
  BY <1>1, <1>3, UpsertedIs
<1> HIDE DEF new, k, of
<1>5. /\ rows' \in [Stripe!Kinds -> Row] /\ rows'[k] = new
      /\ \A l \in Stripe!Kinds \ {k} : rows'[l] = rows[l]
  BY <1>1, <1>2, <1>3, <1>4
<1>6. \A l : Versions(l)' = Versions(l)
  BY <1>1 DEF Versions
<1>7. of \in Nat /\ of >= 1 /\ \A l \in Stripe!Kinds : rows[l].of \in Nat
  BY <1>2, <1>3 DEF Row, WebhooksInv, WebhookTypes, Versions
<1>8. unanswered' \cup processed' = unanswered \cup processed
  BY <1>1
<1>9. WebhookTypes'
  <2>1. \A l \in Stripe!Kinds : rows'[l].status \in Stripe!Stored(l) \cup {"none"}
    BY <1>4, <1>5 DEF WebhooksInv, WebhookTypes
  <2>2. \A d \in unanswered' \cup processed' : SoundEvent(d)'
    BY <1>6, <1>8 DEF SoundEvent, WebhooksInv, WebhookTypes
  <2>3. late' \subseteq Stripe!Kinds
    BY <1>1, <1>3 DEF WebhooksInv, WebhookTypes
  <2> QED
    BY <1>1, <1>5, <2>1, <2>2, <2>3 DEF WebhooksInv, WebhookTypes
<1>10. AllTold'
  BY <1>6, <1>8 DEF WebhooksInv, AllTold
<1>11. RowsAreStates'
  BY <1>1, <1>3, <1>4, <1>5, <1>6 DEF WebhooksInv, RowsAreStates
<1>12. e # Stripe!Checkout => rows["subscription"] # Stripe!NoRow
  BY <1>1 DEF Stripe!Resolved
<1>13. CheckoutFirst'
  <2>1. CASE e = Stripe!Checkout
    <3>1. k = "subscription"
      BY <1>3, <2>1
    <3>2. rows'["subscription"] = Stripe!NoRow =>
            /\ rows["subscription"] = Stripe!NoRow
            /\ objects["subscription"][of].price = NewPrice /\ of \in Versions("subscription")
      BY <1>3, <1>4, <1>5, <3>1 DEF unknown
    <3> QED
      BY <1>1, <1>6, <2>1, <3>2 DEF WebhooksInv, CheckoutFirst
  <2>2. CASE e # Stripe!Checkout
    <3>1. rows'["subscription"] # Stripe!NoRow
      BY <1>4, <1>5, <1>12, <2>2, KindsAre
    <3> QED
      BY <1>1, <1>12, <2>2, <3>1 DEF WebhooksInv, CheckoutFirst
  <2> QED
    BY <2>1, <2>2
<1>14. InvoiceStored'
  <2>1. rows'["invoice"].of # 0 \/ (rows'["invoice"] = rows["invoice"] /\ k # "invoice")
    BY <1>4, <1>5, <1>7, KindsAre DEF unknown
  <2>2. e.kind = "invoice" => k = "invoice"
    BY <1>3, EventsAre
  <2> QED
    BY <1>1, <2>1, <2>2 DEF WebhooksInv, InvoiceStored
<1>15. ASSUME NEW l \in Stripe!Kinds \ late', NEW i \in Versions(l), Stripe!Event(l, i) \in processed'
       PROVE  i <= rows'[l].of
  <2>1. l \in Stripe!Kinds \ late /\ rows[l].of \in Nat /\ i \in Nat
    BY <1>1, <1>7, <1>15 DEF Versions, WebhooksInv, WebhookTypes
  <2>2. Stripe!Event(l, i) \in processed => i <= rows[l].of
    BY <1>15, <2>1 DEF WebhooksInv, InOrder
  <2>3. CASE l # k
    <3>1. Stripe!Event(l, i) # e
      BY <1>3, <2>3, EventsAre
    <3> QED
      BY <1>1, <1>5, <1>15, <2>2, <2>3, <3>1
  <2>4. CASE l = k
    <3>1. ~(of < rows[k].of)
      BY <1>1, <1>3, <1>15, <2>4
    <3>2. CASE new = Stripe!NoRow
      <4>1. rows["subscription"] = Stripe!NoRow /\ e = Stripe!Checkout
        BY <1>4, <1>12, <3>2 DEF unknown
      <4>2. \A d \in processed' : d = Stripe!Checkout
        BY <1>1, <4>1 DEF WebhooksInv, CheckoutFirst
      <4> QED
        BY <1>15, <4>2, EventsAre
    <3>3. CASE new # Stripe!NoRow
      <4>1. rows'[k].of = of /\ rows[k].of <= of
        BY <1>3, <1>4, <1>5, <1>7, <3>1, <3>3
      <4>2. Stripe!Event(l, i) = e => i = of
        BY <1>3, <2>4, EventsAre
      <4> QED
        BY <1>1, <1>7, <1>15, <2>1, <2>2, <2>4, <4>1, <4>2
    <3> QED
      BY <3>2, <3>3
  <2> QED
    BY <2>3, <2>4
<1>16. ASSUME "subscription" \notin late', rows'["subscription"] # Stripe!NoRow,
              \A i \in Versions("subscription") :
                i < rows'["subscription"].of => Stripe!Event("subscription", i) \in processed'
       PROVE  \E j \in 1 .. rows'["subscription"].of :
                /\ objects["subscription"][j].price # NewPrice
                /\ rows'["subscription"].price = objects["subscription"][j].price
                /\ \A m \in (j + 1) .. rows'["subscription"].of :
                     objects["subscription"][m].price = NewPrice
  <2> DEFINE old == rows["subscription"]
             told == \A i \in Versions("subscription") :
                       i < old.of => Stripe!Event("subscription", i) \in processed
  <2>1. "subscription" \in Stripe!Kinds \ late /\ old.of \in Nat
    BY <1>1, <1>7, <1>16, KindsAre
  <2>2. old # Stripe!NoRow /\ told
        => \E j \in 1 .. old.of :
             /\ objects["subscription"][j].price # NewPrice
             /\ old.price = objects["subscription"][j].price
             /\ \A m \in (j + 1) .. old.of : objects["subscription"][m].price = NewPrice
    BY <2>1 DEF WebhooksInv, InOrder
  <2>3. CASE k # "subscription"
    <3>1. rows'["subscription"] = old
      BY <1>5, <2>1, <2>3
    <3>2. \A i : Stripe!Event("subscription", i) # e
      BY <1>3, <2>3, EventsAre
    <3>3. told
      BY <1>1, <1>16, <3>1, <3>2
    <3> QED
      BY <1>16, <2>2, <3>1, <3>3
  <2>4. CASE k = "subscription" /\ ~unknown
    <3>1. new.of = of /\ new.price = objects["subscription"][of].price
          /\ objects["subscription"][of].price # NewPrice
      BY <1>4, <2>4 DEF unknown
    <3>2. of \in 1 .. of /\ (of + 1) .. of = {}
      BY <1>7
    <3> QED
      BY <1>5, <2>4, <3>1, <3>2
  <2>5. CASE k = "subscription" /\ unknown
    <3>1. /\ old # Stripe!NoRow /\ new.of = of /\ new.price = old.price
          /\ objects["subscription"][of].price = NewPrice /\ rows'["subscription"] = new
      BY <1>4, <1>5, <1>16, <2>5 DEF unknown
    <3>2. e = Stripe!Event("subscription", of)
      BY <1>1, <1>3, <2>5, <3>1 DEF WebhooksInv, CheckoutFirst
    <3>3. old.of <= of
      BY <1>1, <1>7, <1>16, <2>1, <2>5
    <3>4. \A i \in Versions("subscription") :
            i < of => Stripe!Event("subscription", i) \in processed
      <4> SUFFICES ASSUME NEW i \in Versions("subscription"), i < of
                   PROVE  Stripe!Event("subscription", i) \in processed
        OBVIOUS
      <4>1. i \in Nat
        BY DEF Versions
      <4>2. Stripe!Event("subscription", i) # e
        BY <1>7, <3>2, <4>1, EventsAre
      <4> QED
        BY <1>1, <1>16, <3>1, <4>2
    <3>5. \A i \in Versions("subscription") : i < of => i <= old.of
      BY <2>1, <3>4 DEF WebhooksInv, InOrder
    <3>6. told
      <4> SUFFICES ASSUME NEW i \in Versions("subscription"), i < old.of
                   PROVE  Stripe!Event("subscription", i) \in processed
        OBVIOUS
      <4>1. i < of
        BY <1>7, <2>1, <3>3 DEF Versions
      <4> QED
        BY <3>4, <4>1
    <3>7. PICK j \in 1 .. old.of :
             /\ objects["subscription"][j].price # NewPrice
             /\ old.price = objects["subscription"][j].price
             /\ \A m \in (j + 1) .. old.of : objects["subscription"][m].price = NewPrice
      BY <2>2, <3>1, <3>6
    <3>8. ASSUME NEW m \in (j + 1) .. of
          PROVE  objects["subscription"][m].price = NewPrice
      <4>1. m \in Versions("subscription")
        BY <1>3, <1>7, <2>1, <2>5, <3>7 DEF Versions, WebhooksInv, WebhookTypes
      <4>2. m = of \/ m <= old.of
        BY <1>7, <3>5, <3>8, <4>1 DEF Versions
      <4> QED
        BY <2>1, <3>1, <3>7, <4>2
    <3>9. j \in 1 .. of
      BY <1>7, <2>1, <3>3, <3>7
    <3> QED
      BY <3>1, <3>7, <3>8, <3>9
  <2> QED
    BY <2>3, <2>4, <2>5
<1>17. InOrder'
  BY <1>1, <1>6, <1>15, <1>16 DEF InOrder
<1> QED
  BY <1>9, <1>10, <1>11, <1>13, <1>14, <1>17 DEF WebhooksInv

\* An event that is answered again, and one that is refused, change no row.
LEMMA RowsStay ==
  ASSUME WebhooksInv, UNCHANGED <<objects, processed, rows, late>>,
         unanswered' \subseteq unanswered, unanswered \subseteq unanswered' \cup processed,
         lost' \in 0 .. MaxLost
  PROVE  WebhooksInv'
<1>1. \A l : Versions(l)' = Versions(l)
  BY DEF Versions
<1>2. WebhookTypes'
  BY <1>1 DEF WebhooksInv, WebhookTypes, SoundEvent
<1>3. AllTold'
  BY <1>1 DEF WebhooksInv, AllTold
<1>4. RowsAreStates' /\ CheckoutFirst' /\ InvoiceStored'
  BY <1>1 DEF WebhooksInv, RowsAreStates, CheckoutFirst, InvoiceStored
<1>5. InOrder'
  BY <1>1 DEF WebhooksInv, InOrder
<1> QED
  BY <1>2, <1>3, <1>4, <1>5 DEF WebhooksInv

\* Every step keeps the inductive invariant.
LEMMA WebhooksStep ==
  ASSUME Stripe!WebhookAssumption, WebhooksInv, [Stripe!Next]_(Stripe!webhookVars)
  PROVE  WebhooksInv'
<1>1. MaxLost \in Nat /\ lost \in 0 .. MaxLost
  BY DEF Stripe!WebhookAssumption, WebhooksInv, WebhookTypes
<1>2. CASE UNCHANGED Stripe!webhookVars
  BY <1>1, <1>2, RowsStay DEF Stripe!webhookVars
<1>3. ASSUME NEW e \in unanswered, Stripe!Duplicate(e) PROVE WebhooksInv'
  <2>1. /\ UNCHANGED <<objects, processed, rows, late>> /\ e \in processed
        /\ unanswered' \in {unanswered, unanswered \ {e}} /\ lost' \in 0 .. MaxLost
    BY <1>1, <1>3 DEF Stripe!Duplicate, Stripe!Answered
  <2> QED
    BY <2>1, RowsStay
<1>4. ASSUME NEW e \in unanswered, Stripe!Fail(e) PROVE WebhooksInv'
  <2>1. UNCHANGED <<objects, unanswered, processed, rows, late>> /\ lost' \in 0 .. MaxLost
    BY <1>1, <1>4 DEF Stripe!Fail, Stripe!Refuse
  <2> QED
    BY <2>1, RowsStay
<1> QED
  BY <1>2, <1>3, <1>4, ChangeKeeps, ProcessKeeps DEF Stripe!Next

\* The inductive invariant: every state of an object had its event, what was processed of
\* an object whose events came in order is stored in its row, and a subscription has no row
\* before its checkout.
THEOREM WebhooksAlwaysCoherent ==
  ASSUME Stripe!WebhookAssumption PROVE Stripe!Spec => []WebhooksInv
<1>1. Stripe!Init => WebhooksInv
  BY WebhooksStart
<1>2. WebhooksInv /\ [Stripe!Next]_(Stripe!webhookVars) => WebhooksInv'
  BY WebhooksStep
<1> QED
  BY <1>1, <1>2, PTL DEF Stripe!Spec

\* Every variable keeps to its domain, and no event of Stripe is taken for delivered
\* without a row to show for it: handle_webhook commits the record of the event together
\* with what its handler writes.
THEOREM DeliveredIsAlwaysStored ==
  ASSUME Stripe!WebhookAssumption
  PROVE  Stripe!Spec => [](Stripe!TypeOK /\ Stripe!DeliveredIsStored)
<1>1. WebhooksInv => Stripe!TypeOK
  <2> SUFFICES ASSUME WebhooksInv PROVE Stripe!TypeOK
    OBVIOUS
  <2>1. \A k \in Stripe!Kinds : rows[k].of \in 0 .. Len(objects[k])
    <3> SUFFICES ASSUME NEW k \in Stripe!Kinds PROVE rows[k].of \in 0 .. Len(objects[k])
      OBVIOUS
    <3>1. Len(objects[k]) \in Nat
      BY DEF WebhooksInv, WebhookTypes
    <3> QED
      BY <3>1, NoRowIs DEF WebhooksInv, RowsAreStates, Versions
  <2>2. \A e \in unanswered \cup processed :
          e # Stripe!Checkout => e.kind \in Stripe!Kinds /\ e.of \in 1 .. Len(objects[e.kind])
    BY EventsAre DEF WebhooksInv, WebhookTypes, SoundEvent, Versions
  <2> QED
    BY <2>1, <2>2 DEF WebhooksInv, WebhookTypes, Stripe!TypeOK
<1>2. WebhooksInv => Stripe!DeliveredIsStored
  <2> SUFFICES ASSUME WebhooksInv, Stripe!Checkout \notin unanswered,
                      rows["subscription"] = Stripe!NoRow
               PROVE  \E i \in DOMAIN objects["subscription"] :
                        objects["subscription"][i].price = NewPrice
    BY DEF WebhooksInv, InvoiceStored, Stripe!DeliveredIsStored
  <2>1. PICK i \in Versions("subscription") : objects["subscription"][i].price = NewPrice
    BY DEF WebhooksInv, AllTold, CheckoutFirst
  <2>2. objects["subscription"] \in Seq(Stripe!States["subscription"])
    BY KindsAre DEF WebhooksInv, WebhookTypes
  <2> QED
    BY <2>1, <2>2 DEF Versions
<1> QED
  BY <1>1, <1>2, WebhooksAlwaysCoherent, PTL

\* Once Stripe has nothing left to send about an object, its row shows the state the
\* object is in, and a subscription the plan of its last known price; unless an event came
\* after a later one, which _upsert_subscription and _handle_invoice_update do not notice.
THEOREM SettledIsAlwaysCurrent ==
  ASSUME Stripe!WebhookAssumption PROVE Stripe!Spec => []Stripe!SettledIsCurrent
<1>1. WebhooksInv => Stripe!SettledIsCurrent
  <2> SUFFICES ASSUME WebhooksInv, NEW k \in Stripe!Kinds \ late,
                      {e \in unanswered : Stripe!About(e).kind = k} = {}, rows[k] # Stripe!NoRow
               PROVE  /\ rows[k].status = objects[k][Len(objects[k])].status
                      /\ k = "subscription" => rows[k].price = Stripe!LastPrice
    BY DEF Stripe!SettledIsCurrent, Stripe!Last
  <2> DEFINE n == Len(objects[k])
  <2>1. n \in Nat /\ n >= 1 /\ objects[k] \in Seq(Stripe!States[k])
    BY DEF WebhooksInv, WebhookTypes
  <2>2. \A i \in Versions(k) : Stripe!Event(k, i) \in processed
    <3> SUFFICES ASSUME NEW i \in Versions(k) PROVE Stripe!Event(k, i) \in processed
      OBVIOUS
    <3>1. Stripe!About(Stripe!Event(k, i)).kind = k
      BY EventsAre DEF Stripe!About
    <3>2. Stripe!Event(k, i) \notin unanswered
      BY <3>1
    <3> QED
      BY <3>2 DEF WebhooksInv, AllTold
  <2>3. rows[k].of \in 1 .. n /\ rows[k].status = objects[k][rows[k].of].status
    BY DEF WebhooksInv, RowsAreStates, Versions
  <2>4. rows[k].of = n
    <3>1. n \in Versions(k)
      BY <2>1 DEF Versions
    <3>2. n <= rows[k].of
      BY <2>2, <3>1 DEF WebhooksInv, InOrder
    <3> QED
      BY <2>1, <2>3, <3>2
  <2>5. ASSUME k = "subscription" PROVE rows[k].price = Stripe!LastPrice
    <3> DEFINE known == {i \in DOMAIN objects[k] : objects[k][i].price # NewPrice}
    <3>1. PICK j \in 1 .. n :
            /\ objects[k][j].price # NewPrice /\ rows[k].price = objects[k][j].price
            /\ \A m \in (j + 1) .. n : objects[k][m].price = NewPrice
      BY <2>2, <2>4, <2>5 DEF WebhooksInv, InOrder
    <3>2. DOMAIN objects[k] = 1 .. n
      BY <2>1
    <3>3. j \in known /\ known \subseteq 1 .. n
      BY <3>1, <3>2
    <3>4. \A i \in known : j >= i
      <4> SUFFICES ASSUME NEW i \in known, i > j PROVE FALSE
        BY <2>1, <3>1, <3>3
      <4>1. i \in (j + 1) .. n
        BY <2>1, <3>1, <3>3
      <4> QED
        BY <3>1, <4>1
    <3> HIDE DEF known
    <3>5. \A x \in known : (\A y \in known : x >= y) => x = j
      BY <2>1, <3>3, <3>4
    <3>6. Stripe!Max(known) = j
      BY <3>3, <3>4, <3>5 DEF Stripe!Max
    <3>7. Stripe!LastPrice = objects[k][Stripe!Max(known)].price
      BY <2>5 DEF known, Stripe!LastPrice
    <3> QED
      BY <3>1, <3>6, <3>7
  <2> QED
    BY <2>3, <2>4, <2>5
<1> QED
  BY <1>1, WebhooksAlwaysCoherent, PTL

-----------------------------------------------------------------------------
(* The plans that tenants are charged by, for any plans, texts, gestures and requests:    *)
(* what their deletion leaves, and what the lists of the page show of them.               *)

CONSTANTS PlanKeys, FirstPlans, Texts, MaxGestures, MaxRequests, MaxPlanLosses
VARIABLES plans, prices, subscriptions, shown, editor, requests, mixed, tally

\* The plans that tenants are charged by, and the page that edits them.
Plans == INSTANCE PlanTemplates WITH MaxLost <- MaxPlanLosses

\* A row of either list.
PlanRow == [key : PlanKeys, text : Texts \cup {Plans!Blank}]

\* A request that writes, and the load of both lists.
PlanWrite(q) ==
  q.op \in {"create", "save", "delete"} /\ q.kind \in Plans!Kinds /\ q.row \in PlanRow
PlanLoad(q) ==
  /\ q.op = "load"
  /\ q.seen = [plans |-> q.seen.plans, prices |-> q.seen.prices]
  /\ q.seen.plans \subseteq PlanRow /\ q.seen.prices \subseteq PlanRow
  /\ q.step = "done" => q.unread = {}

\* A request of the page.
PlanRequest(q) ==
  /\ q = [op |-> q.op, kind |-> q.kind, row |-> q.row, seen |-> q.seen, unread |-> q.unread,
          step |-> q.step, id |-> q.id]
  /\ PlanWrite(q) \/ PlanLoad(q)
  /\ q.step \in {"sent", "counted", "done", "failed"}
  /\ q.step = "counted" => q.op = "delete"

\* The domains of the variables.
PlanTypes ==
  /\ plans \subseteq PlanRow /\ prices \subseteq PlanRow
  /\ shown = [plans |-> shown.plans, prices |-> shown.prices]
  /\ shown.plans \subseteq PlanRow /\ shown.prices \subseteq PlanRow
  /\ \A s \in subscriptions : s.plan \in PlanKeys /\ s.status \in {"active", "canceled"}
  /\ editor \in [Plans!Kinds -> PlanKeys \cup {Plans!Blank}]
  /\ \A q \in requests : PlanRequest(q)
  /\ mixed \in BOOLEAN

\* These lists are those of the server, but for prices of plans that were deleted.
Agree(pl, pr) == pl = plans /\ {r \in pr : r.key \in Plans!Keys(plans)} = prices

\* What a load has read is what there is.
Read(q) ==
  /\ "plans" \notin q.unread => q.seen.plans = plans
  /\ "prices" \notin q.unread => q.seen.prices = prices

\* Requests that did not meet follow one another; the lists agree unless the server has
\* done what is not answered yet, and then they will.
Listed ==
  ~mixed =>
    /\ \A q, r \in requests : q = r
    /\ (\A q \in requests : q.step # "done" \/ q.op = "load") => Agree(shown.plans, shown.prices)
    /\ \A q \in requests : q.op = "load" => Read(q)
    /\ \A q \in requests : q.step = "done" /\ q.op # "load" =>
         IF q.kind = "plans" THEN Agree(Plans!ShownAfter(q), shown.prices)
         ELSE Agree(shown.plans, Plans!ShownAfter(q))

\* A plan that is being made has no price in the list.
New ==
  ~mixed => \A q \in requests : q.step = "sent" /\ q.op = "create" /\ q.kind = "plans" =>
    q.row.key \notin Plans!Keys(shown.prices) \ Plans!Keys(plans)

\* The inductive invariant.
PlansInv ==
  /\ PlanTypes /\ Plans!PlansInUseStay /\ Listed /\ New
  /\ Plans!Keys(prices) \subseteq Plans!Keys(plans)

\* The initial state satisfies the inductive invariant.
LEMMA PlansStart == ASSUME Plans!PlanAssumption PROVE Plans!Init => PlansInv
<1> SUFFICES ASSUME Plans!Init PROVE PlansInv
  OBVIOUS
<1>1. plans \subseteq PlanRow
  BY DEF Plans!Init, Plans!PlanAssumption, Plans!Row, PlanRow
<1>2. Plans!Keys(plans) = FirstPlans
  <2>1. plans = {Plans!Row(k, Plans!Blank) : k \in FirstPlans}
    BY DEF Plans!Init
  <2>2. \A k : Plans!Row(k, Plans!Blank).key = k
    BY DEF Plans!Row
  <2> QED
    BY <2>1, <2>2 DEF Plans!Keys
<1>3. prices \subseteq plans /\ Plans!Keys(prices) \subseteq Plans!Keys(plans)
  BY DEF Plans!Init, Plans!Keys
<1>4. shown = [plans |-> plans, prices |-> prices] /\ requests = {} /\ mixed = FALSE
  BY DEF Plans!Init
<1>5. \A s \in subscriptions : s.plan \in FirstPlans /\ s.status \in {"active", "canceled"}
  BY DEF Plans!Init
<1>6. editor \in [Plans!Kinds -> PlanKeys \cup {Plans!Blank}]
  BY DEF Plans!Init, Plans!Kinds
<1>7. PlanTypes
  BY <1>1, <1>3, <1>4, <1>5, <1>6 DEF PlanTypes, Plans!PlanAssumption
<1>8. Plans!PlansInUseStay
  BY <1>2, <1>5 DEF Plans!PlansInUseStay
<1>9. Listed /\ New
  BY <1>3, <1>4 DEF Listed, New, Agree, Plans!Keys
<1> QED
  BY <1>3, <1>7, <1>8, <1>9 DEF PlansInv

\* What an answer makes of its list are rows.
LEMMA ShownAfterRows ==
  ASSUME NEW q, PlanWrite(q), shown[q.kind] \subseteq PlanRow
  PROVE  Plans!ShownAfter(q) \subseteq PlanRow
<1>1. CASE q.op = "delete"
  BY <1>1 DEF Plans!ShownAfter, Plans!Others
<1>2. CASE q.op = "create"
  BY <1>2 DEF Plans!ShownAfter, PlanWrite
<1>3. CASE q.op = "save"
  BY <1>3 DEF Plans!ShownAfter, PlanWrite
<1> QED
  BY <1>1, <1>2, <1>3 DEF PlanWrite

\* A gesture that sends a request: it meets those under way, if there are any.
LEMMA PlanSent ==
  ASSUME PlansInv, NEW op \in {"create", "save", "delete", "load"}, NEW kind, NEW row,
         op # "load" => kind \in Plans!Kinds /\ row \in PlanRow, Plans!Send(op, kind, row),
         op = "create" /\ kind = "plans" => row.key \notin Plans!Keys(shown.prices) \ Plans!Keys(plans)
  PROVE  PlansInv'
<1>1. UNCHANGED <<plans, prices, subscriptions, shown, editor>> /\ mixed' = (mixed \/ requests # {})
  BY DEF Plans!Send, Plans!rowVars
<1>2. PICK k : requests' = requests \cup {[op |-> op, kind |-> kind, row |-> row,
                                          seen |-> Plans!NoRows,
                                          unread |-> IF op = "load" THEN Plans!Kinds ELSE {},
                                          step |-> "sent", id |-> k]}
  BY DEF Plans!Send
<1>3. PICK q : q = [op |-> op, kind |-> kind, row |-> row, seen |-> Plans!NoRows,
                    unread |-> IF op = "load" THEN Plans!Kinds ELSE {},
                    step |-> "sent", id |-> k]
  OBVIOUS
<1>4. requests' = requests \cup {q}
  BY <1>2, <1>3
<1>5. /\ PlanRequest(q) /\ q.step = "sent" /\ q.op = op /\ q.kind = kind /\ q.row = row
      /\ q.op = "load" => q.unread = Plans!Kinds
  BY <1>3 DEF PlanRequest, PlanWrite, PlanLoad, Plans!NoRows
<1>6. mixed' \in BOOLEAN
  BY <1>1 DEF PlansInv, PlanTypes
<1>7. PlanTypes'
  BY <1>1, <1>4, <1>5, <1>6 DEF PlansInv, PlanTypes
<1>8. ~mixed' => ~mixed /\ requests = {}
  BY <1>1
<1>9. Listed' /\ New'
  <2>1. ~mixed' => requests' = {q} /\ Agree(shown.plans, shown.prices)
    BY <1>4, <1>8 DEF PlansInv, Listed
  <2>2. q.op = "load" => Read(q)'
    BY <1>5 DEF Read, Plans!Kinds
  <2> QED
    BY <1>1, <1>5, <1>8, <2>1, <2>2 DEF PlansInv, Listed, New, Agree, Plans!Keys
<1> QED
  BY <1>1, <1>7, <1>9 DEF PlansInv, Plans!PlansInUseStay

\* One request goes on; what there is of it stays.
LEMMA PlanGoesOn ==
  ASSUME PlansInv, NEW q \in requests, NEW step \in {"counted", "done", "failed"},
         Plans!Answered(q, step), step = "counted" => q.op = "delete",
         step = "done" => q.op # "load"
  PROVE  \E s : /\ requests' = (requests \ {q}) \cup {s} /\ PlanRequest(s)
                /\ s.step = step /\ s.op = q.op /\ s.kind = q.kind /\ s.row = q.row
                /\ s.seen = q.seen /\ s.unread = q.unread
<1>1. PICK s : s = [q EXCEPT !.step = step]
  OBVIOUS
<1>2. requests' = (requests \ {q}) \cup {s}
  BY <1>1 DEF Plans!Answered
<1>3. PlanRequest(q)
  BY DEF PlansInv, PlanTypes
<1>4. /\ PlanRequest(s) /\ s.step = step /\ s.op = q.op /\ s.kind = q.kind /\ s.row = q.row
      /\ s.seen = q.seen /\ s.unread = q.unread
  BY <1>1, <1>3 DEF PlanRequest, PlanWrite, PlanLoad
<1> QED
  BY <1>2, <1>4

\* A request is refused, or counted, or lost: nothing is done.
LEMMA PlanNotDone ==
  ASSUME PlansInv, NEW q \in requests, NEW step \in {"counted", "failed"},
         Plans!Answered(q, step), step = "counted" => q.op = "delete",
         UNCHANGED <<plans, prices, subscriptions, shown, editor>>,
         mixed' \in BOOLEAN, ~mixed' => ~mixed /\ (q.step # "done" \/ q.op = "load")
  PROVE  PlansInv'
<1>1. PICK s : /\ requests' = (requests \ {q}) \cup {s} /\ PlanRequest(s)
               /\ s.step = step /\ s.op = q.op /\ s.kind = q.kind /\ s.row = q.row
               /\ s.seen = q.seen /\ s.unread = q.unread
  BY PlanGoesOn
<1>2. PlanTypes'
  BY <1>1 DEF PlansInv, PlanTypes
<1>3. ~mixed' => requests = {q} /\ requests' = {s}
  BY <1>1 DEF PlansInv, Listed
<1>4. ~mixed' => /\ Agree(shown.plans, shown.prices)
                 /\ q.op = "load" => Read(q)
  BY <1>3 DEF PlansInv, Listed
<1>5. Listed' /\ New'
  BY <1>1, <1>3, <1>4 DEF Listed, New, Agree, Read, Plans!Keys
<1> QED
  BY <1>2, <1>5 DEF PlansInv, Plans!PlansInUseStay

\* What the server does to the rows, and what the answer will make of the lists.
LEMMA PlanDone ==
  ASSUME PlansInv, NEW q \in requests, Plans!Answered(q, "done"),
         UNCHANGED <<subscriptions, shown, editor, mixed>>,
         plans' \subseteq PlanRow, prices' \subseteq PlanRow,
         Plans!Keys(prices') \subseteq Plans!Keys(plans'),
         \A s \in subscriptions : s.plan \in Plans!Keys(plans'),
         ~mixed /\ Agree(shown.plans, shown.prices) /\ requests = {q} =>
           IF q.kind = "plans"
           THEN /\ Plans!ShownAfter(q) = plans'
                /\ {r \in shown.prices : r.key \in Plans!Keys(plans')} = prices'
           ELSE /\ shown.plans = plans'
                /\ {r \in Plans!ShownAfter(q) : r.key \in Plans!Keys(plans')} = prices',
         q.step # "done", q.op # "load"
  PROVE  PlansInv'
<1>1. PICK s : /\ requests' = (requests \ {q}) \cup {s} /\ PlanRequest(s)
               /\ s.step = "done" /\ s.op = q.op /\ s.kind = q.kind /\ s.row = q.row
  BY PlanGoesOn
<1>2. PlanTypes'
  BY <1>1 DEF PlansInv, PlanTypes
<1>3. ~mixed => requests = {q} /\ requests' = {s} /\ Agree(shown.plans, shown.prices)
  BY <1>1 DEF PlansInv, Listed
<1>4. Plans!ShownAfter(s) = Plans!ShownAfter(q) /\ Plans!ShownAfter(s)' = Plans!ShownAfter(q)
  BY <1>1 DEF Plans!ShownAfter
<1>5. Listed' /\ New'
  BY <1>1, <1>3, <1>4 DEF Listed, New, Agree, Plans!Keys
<1> QED
  BY <1>2, <1>5 DEF PlansInv, Plans!PlansInUseStay, Plans!Keys

\* The keys of rows one of which is written, or gone.
LEMMA PlanKeysAre ==
  ASSUME NEW S, NEW row
  PROVE  /\ Plans!Keys(Plans!Others(S, row.key) \cup {row}) = Plans!Keys(S) \cup {row.key}
         /\ \A k : Plans!Keys(Plans!Others(S, k)) = Plans!Keys(S) \ {k}
  BY DEF Plans!Keys, Plans!Others

\* A row is created or saved.
LEMMA ServeWriteKeeps ==
  ASSUME PlansInv, NEW q \in requests, Plans!ServeWrite(q)
  PROVE  PlansInv'
<1>1. PlanWrite(q) /\ q.op \in {"create", "save"} /\ q.step = "sent"
  BY DEF PlansInv, PlanTypes, PlanRequest, PlanLoad, Plans!ServeWrite
<1>2. UNCHANGED <<subscriptions, shown, editor, mixed>>
  BY DEF Plans!ServeWrite
<1>3. CASE Plans!Answered(q, "failed") /\ UNCHANGED <<plans, prices>>
  <2>1. mixed' \in BOOLEAN
    BY <1>2 DEF PlansInv, PlanTypes
  <2> QED
    BY <1>1, <1>2, <1>3, <2>1, PlanNotDone
<1>4. CASE q.kind = "plans" /\ Plans!Answered(q, "done")
           /\ (q.row.key \in Plans!Keys(plans)) = (q.op = "save")
           /\ plans' = Plans!Others(plans, q.row.key) \cup {q.row} /\ prices' = prices
  <2>1. plans' \subseteq PlanRow /\ prices' \subseteq PlanRow
    BY <1>1, <1>4 DEF PlansInv, PlanTypes, PlanWrite, Plans!Others
  <2>2. PICK k : k = q.row.key
    OBVIOUS
  <2>3. Plans!Keys(plans') = Plans!Keys(plans) \cup {k}
    BY <1>4, <2>2, PlanKeysAre
  <2>4. /\ Plans!Keys(prices') \subseteq Plans!Keys(plans')
        /\ \A s \in subscriptions : s.plan \in Plans!Keys(plans')
    BY <1>4, <2>3 DEF PlansInv, Plans!PlansInUseStay
  <2>5. ASSUME ~mixed, Agree(shown.plans, shown.prices)
        PROVE  /\ Plans!ShownAfter(q) = plans'
               /\ {r \in shown.prices : r.key \in Plans!Keys(plans')} = prices'
    <3>1. CASE q.op = "create"
      <4>1. k \notin Plans!Keys(plans)
        BY <1>4, <2>2, <3>1
      <4>2. k \notin Plans!Keys(shown.prices)
        BY <1>1, <1>4, <2>2, <2>5, <3>1, <4>1 DEF PlansInv, New
      <4>3. plans' = plans \cup {q.row}
        BY <1>4, <2>2, <4>1 DEF Plans!Keys, Plans!Others
      <4>4. Plans!ShownAfter(q) = shown.plans \cup {q.row}
        BY <1>4, <3>1 DEF Plans!ShownAfter
      <4>5. {r \in shown.prices : r.key \in Plans!Keys(plans')} = prices
        BY <2>3, <2>5, <4>2 DEF Agree, Plans!Keys
      <4> QED
        BY <1>4, <2>5, <4>3, <4>4, <4>5 DEF Agree
    <3>2. CASE q.op = "save"
      <4>1. k \in Plans!Keys(plans)
        BY <1>4, <2>2, <3>2
      <4>2. Plans!ShownAfter(q) = {IF r.key = k THEN q.row ELSE r : r \in plans}
        BY <1>4, <2>2, <2>5, <3>2 DEF Plans!ShownAfter, Agree
      <4>3. {IF r.key = k THEN q.row ELSE r : r \in plans} = Plans!Others(plans, k) \cup {q.row}
        BY <4>1 DEF Plans!Keys, Plans!Others
      <4>4. Plans!Keys(plans') = Plans!Keys(plans)
        BY <2>3, <4>1
      <4> QED
        BY <1>4, <2>2, <2>5, <4>2, <4>3, <4>4 DEF Agree
    <3> QED
      BY <1>1, <3>1, <3>2
  <2> QED
    BY <1>1, <1>2, <1>4, <2>1, <2>4, <2>5, PlanDone
<1>5. CASE q.kind = "prices" /\ Plans!Answered(q, "done")
           /\ (q.row.key \in Plans!Keys(prices)) = (q.op = "save")
           /\ q.row.key \in Plans!Keys(plans)
           /\ prices' = Plans!Others(prices, q.row.key) \cup {q.row} /\ plans' = plans
  <2>1. plans' \subseteq PlanRow /\ prices' \subseteq PlanRow
    BY <1>1, <1>5 DEF PlansInv, PlanTypes, PlanWrite, Plans!Others
  <2>2. PICK k : k = q.row.key
    OBVIOUS
  <2>3. Plans!Keys(prices') = Plans!Keys(prices) \cup {k}
    BY <1>5, <2>2, PlanKeysAre
  <2>4. /\ Plans!Keys(prices') \subseteq Plans!Keys(plans')
        /\ \A s \in subscriptions : s.plan \in Plans!Keys(plans')
    BY <1>5, <2>2, <2>3 DEF PlansInv, Plans!PlansInUseStay
  <2>5. ASSUME ~mixed, Agree(shown.plans, shown.prices)
        PROVE  /\ shown.plans = plans'
               /\ {r \in Plans!ShownAfter(q) : r.key \in Plans!Keys(plans')} = prices'
    <3>1. CASE q.op = "create"
      <4>1. k \notin Plans!Keys(prices)
        BY <1>5, <2>2, <3>1
      <4>2. prices' = prices \cup {q.row}
        BY <1>5, <2>2, <4>1 DEF Plans!Keys, Plans!Others
      <4>3. Plans!ShownAfter(q) = shown.prices \cup {q.row}
        BY <1>5, <3>1 DEF Plans!ShownAfter
      <4> QED
        BY <1>5, <2>2, <2>5, <4>2, <4>3 DEF Agree
    <3>2. CASE q.op = "save"
      <4>1. k \in Plans!Keys(prices) /\ k \in Plans!Keys(plans)
        BY <1>5, <2>2, <3>2
      <4>2. Plans!ShownAfter(q) = {IF r.key = k THEN q.row ELSE r : r \in shown.prices}
        BY <1>5, <2>2, <3>2 DEF Plans!ShownAfter
      <4>3. \A r \in shown.prices : r.key \in Plans!Keys(plans) <=> r \in prices
        BY <2>5 DEF Agree
      <4>4. prices \subseteq shown.prices
        BY <2>5 DEF Agree
      <4>5. PICK K : K = Plans!Keys(plans)
        OBVIOUS
      <4>6. {r \in {IF r.key = k THEN q.row ELSE r : r \in shown.prices} : r.key \in K}
              = Plans!Others(prices, k) \cup {q.row}
        BY <2>2, <4>1, <4>3, <4>4, <4>5 DEF Plans!Keys, Plans!Others
      <4> QED
        BY <1>5, <2>2, <2>5, <4>2, <4>5, <4>6 DEF Agree
    <3> QED
      BY <1>1, <3>1, <3>2
  <2> QED
    BY <1>1, <1>2, <1>5, <2>1, <2>4, <2>5, PlanDone
<1>6. q.kind \in {"plans", "prices"}
  BY <1>1 DEF PlanWrite, Plans!Kinds
<1>7. PICK there : there = (q.row.key \in Plans!Keys(Plans!Rows(q.kind)))
  OBVIOUS
<1>8. CASE there = (q.op = "create") \/ (q.kind = "prices" /\ q.row.key \notin Plans!Keys(plans))
  BY <1>3, <1>7, <1>8 DEF Plans!ServeWrite
<1>9. CASE ~(there = (q.op = "create") \/ (q.kind = "prices" /\ q.row.key \notin Plans!Keys(plans)))
  <2>1. /\ Plans!Answered(q, "done")
        /\ plans' = IF q.kind = "plans"
                    THEN Plans!Others(Plans!Rows(q.kind), q.row.key) \cup {q.row} ELSE plans
        /\ prices' = IF q.kind = "prices"
                     THEN Plans!Others(Plans!Rows(q.kind), q.row.key) \cup {q.row} ELSE prices
    BY <1>7, <1>9 DEF Plans!ServeWrite
  <2>2. there = (q.op = "save")
    BY <1>1, <1>7, <1>9
  <2>3. CASE q.kind = "plans"
    BY <1>4, <1>7, <2>1, <2>2, <2>3 DEF Plans!Rows
  <2>4. CASE q.kind = "prices"
    BY <1>5, <1>7, <1>9, <2>1, <2>2, <2>4 DEF Plans!Rows
  <2> QED
    BY <1>6, <2>3, <2>4
<1> QED
  BY <1>8, <1>9

\* The subscriptions are counted, and the row is looked for.
LEMMA CountUsesKeeps ==
  ASSUME PlansInv, NEW q \in requests, Plans!CountUses(q)
  PROVE  PlansInv'
<1>1. /\ q.op = "delete" /\ q.step = "sent"
      /\ Plans!Answered(q, "failed") \/ Plans!Answered(q, "counted")
      /\ UNCHANGED <<plans, prices, subscriptions, shown, editor, mixed>>
  BY DEF Plans!CountUses, Plans!rowVars
<1>2. mixed' \in BOOLEAN
  BY <1>1 DEF PlansInv, PlanTypes
<1> QED
  BY <1>1, <1>2, PlanNotDone

\* A row is deleted, unless a subscription refers to the plan.
LEMMA DeleteRowKeeps ==
  ASSUME PlansInv, NEW q \in requests, Plans!DeleteRow(q)
  PROVE  PlansInv'
<1>1. PlanWrite(q) /\ q.op = "delete" /\ q.step = "counted"
  BY DEF PlansInv, PlanTypes, PlanRequest, PlanLoad, Plans!DeleteRow
<1>2. UNCHANGED <<subscriptions, shown, editor, mixed>>
  BY DEF Plans!DeleteRow
<1>3. CASE Plans!Answered(q, "failed") /\ UNCHANGED <<plans, prices>>
  <2>1. mixed' \in BOOLEAN
    BY <1>2 DEF PlansInv, PlanTypes
  <2> QED
    BY <1>1, <1>2, <1>3, <2>1, PlanNotDone
<1>4. CASE /\ ~(q.kind = "plans" /\ Plans!Subscribed(q.row.key))
           /\ Plans!Answered(q, "done")
           /\ plans' = IF q.kind = "plans" THEN Plans!Others(plans, q.row.key) ELSE plans
           /\ prices' = Plans!Others(prices, q.row.key)
  <2>1. plans' \subseteq PlanRow /\ prices' \subseteq PlanRow
    BY <1>4 DEF PlansInv, PlanTypes, Plans!Others
  <2>2. PICK k : k = q.row.key
    OBVIOUS
  <2>3. Plans!ShownAfter(q) = Plans!Others(shown[q.kind], k)
    BY <1>1, <2>2 DEF Plans!ShownAfter
  <2>4. CASE q.kind = "plans"
    <3>1. Plans!Keys(plans') = Plans!Keys(plans) \ {k} /\ Plans!Keys(prices') = Plans!Keys(prices) \ {k}
      BY <1>4, <2>2, <2>4, PlanKeysAre
    <3>2. \A s \in subscriptions : s.plan # k
      BY <1>4, <2>2, <2>4 DEF Plans!Subscribed
    <3>3. /\ Plans!Keys(prices') \subseteq Plans!Keys(plans')
          /\ \A s \in subscriptions : s.plan \in Plans!Keys(plans')
      BY <3>1, <3>2 DEF PlansInv, Plans!PlansInUseStay
    <3>4. ASSUME Agree(shown.plans, shown.prices)
          PROVE  /\ Plans!ShownAfter(q) = plans'
                 /\ {r \in shown.prices : r.key \in Plans!Keys(plans')} = prices'
      <4>1. Plans!ShownAfter(q) = plans'
        BY <1>4, <2>2, <2>3, <2>4, <3>4 DEF Agree
      <4>2. {r \in shown.prices : r.key \in Plans!Keys(plans) \ {k}} = Plans!Others(prices, k)
        BY <3>4 DEF Agree, Plans!Others
      <4> QED
        BY <1>4, <2>2, <3>1, <4>1, <4>2
    <3> QED
      BY <1>1, <1>2, <1>4, <2>1, <2>4, <3>3, <3>4, PlanDone
  <2>5. CASE q.kind = "prices"
    <3>1. plans' = plans /\ Plans!Keys(prices') = Plans!Keys(prices) \ {k}
      BY <1>4, <2>2, <2>5, PlanKeysAre
    <3>2. /\ Plans!Keys(prices') \subseteq Plans!Keys(plans')
          /\ \A s \in subscriptions : s.plan \in Plans!Keys(plans')
      BY <3>1 DEF PlansInv, Plans!PlansInUseStay
    <3>3. ASSUME Agree(shown.plans, shown.prices)
          PROVE  /\ shown.plans = plans'
                 /\ {r \in Plans!ShownAfter(q) : r.key \in Plans!Keys(plans')} = prices'
      <4>1. Plans!ShownAfter(q) = Plans!Others(shown.prices, k)
        BY <2>3, <2>5
      <4>2. {r \in Plans!Others(shown.prices, k) : r.key \in Plans!Keys(plans)} = Plans!Others(prices, k)
        BY <3>3 DEF Agree, Plans!Others
      <4> QED
        BY <1>4, <2>2, <3>1, <3>3, <4>1, <4>2 DEF Agree
    <3> QED
      BY <1>1, <1>2, <1>4, <2>1, <2>5, <3>2, <3>3, PlanDone
  <2> QED
    BY <1>1, <2>4, <2>5 DEF PlanWrite, Plans!Kinds
<1> QED
  BY <1>3, <1>4 DEF Plans!DeleteRow

\* A request fails, or its answer is lost.
LEMMA PlanLost ==
  ASSUME PlansInv, NEW q \in requests, Plans!Lose(q)
  PROVE  PlansInv'
<1>1. /\ Plans!Answered(q, "failed") /\ mixed' = (mixed \/ q.op # "load")
      /\ UNCHANGED <<plans, prices, subscriptions, shown, editor>>
  BY DEF Plans!Lose, Plans!rowVars
<1>2. mixed' \in BOOLEAN
  BY <1>1 DEF PlansInv, PlanTypes
<1> QED
  BY <1>1, <1>2, PlanNotDone

\* A load reads one of the lists.
LEMMA ServeLoadKeeps ==
  ASSUME PlansInv, NEW q \in requests, NEW kind \in Plans!Kinds, Plans!ServeLoad(q, kind)
  PROVE  PlansInv'
<1>1. PICK s : s = [q EXCEPT !.seen[kind] = Plans!Rows(kind), !.unread = @ \ {kind},
                             !.step = IF q.unread = {kind} THEN "done" ELSE "sent"]
  OBVIOUS
<1>2. /\ requests' = (requests \ {q}) \cup {s} /\ q.op = "load" /\ q.step = "sent"
      /\ UNCHANGED <<plans, prices, subscriptions, shown, editor, mixed>>
  BY <1>1 DEF Plans!ServeLoad, Plans!rowVars
<1>3. /\ PlanRequest(q) /\ PlanLoad(q)
      /\ plans \subseteq PlanRow /\ prices \subseteq PlanRow
  BY <1>2 DEF PlansInv, PlanTypes, PlanRequest, PlanWrite
<1>4. /\ s.op = "load" /\ s.unread = q.unread \ {kind} /\ s.step \in {"sent", "done"}
      /\ s.step = "done" => s.unread = {}
      /\ s = [op |-> s.op, kind |-> s.kind, row |-> s.row, seen |-> s.seen,
              unread |-> s.unread, step |-> s.step, id |-> s.id]
      /\ s.seen = [q.seen EXCEPT ![kind] = Plans!Rows(kind)]
  BY <1>1, <1>2, <1>3 DEF PlanRequest
<1>5. /\ s.seen = [plans |-> s.seen.plans, prices |-> s.seen.prices]
      /\ s.seen.plans = IF kind = "plans" THEN plans ELSE q.seen.plans
      /\ s.seen.prices = IF kind = "prices" THEN prices ELSE q.seen.prices
  <2>1. q.seen = [plans |-> q.seen.plans, prices |-> q.seen.prices]
    BY <1>3 DEF PlanLoad
  <2>2. CASE kind = "plans"
    BY <1>4, <2>1, <2>2 DEF Plans!Rows
  <2>3. CASE kind = "prices"
    BY <1>4, <2>1, <2>3 DEF Plans!Rows
  <2> QED
    BY <2>2, <2>3 DEF Plans!Kinds
<1>6. PlanRequest(s)
  BY <1>3, <1>4, <1>5 DEF PlanRequest, PlanLoad
<1>7. PlanTypes'
  BY <1>2, <1>6 DEF PlansInv, PlanTypes
<1>8. ~mixed => /\ requests' = {s} /\ Agree(shown.plans, shown.prices) /\ Read(q)
  BY <1>2 DEF PlansInv, Listed
<1>9. ~mixed => Read(s)
  BY <1>4, <1>5, <1>8 DEF Read
<1>10. Listed' /\ New'
  BY <1>2, <1>4, <1>8, <1>9 DEF Listed, New, Agree, Read, Plans!Keys
<1> QED
  BY <1>2, <1>7, <1>10 DEF PlansInv, Plans!PlansInUseStay

\* The page takes an answer.
LEMMA PlanAnswered ==
  ASSUME PlansInv, NEW q \in requests, Plans!Answer(q)
  PROVE  PlansInv'
<1>1. /\ requests' = requests \ {q} /\ q.step \in {"done", "failed"}
      /\ UNCHANGED <<plans, prices, subscriptions, mixed>>
  BY DEF Plans!Answer, Plans!rowVars
<1>2. PlanRequest(q) /\ (q.op = "load" \/ (PlanWrite(q) /\ q.kind \in {"plans", "prices"}))
  BY DEF PlansInv, PlanTypes, PlanRequest, PlanWrite, PlanLoad, Plans!Kinds
<1>3. ~mixed => requests = {q} /\ requests' = {}
  BY <1>1 DEF PlansInv, Listed
<1>4. CASE q.step = "failed"
  <2>1. UNCHANGED <<shown, editor>>
    BY <1>4 DEF Plans!Answer
  <2>2. PlanTypes'
    BY <1>1, <2>1 DEF PlansInv, PlanTypes
  <2>3. ~mixed => Agree(shown.plans, shown.prices)
    BY <1>3, <1>4 DEF PlansInv, Listed
  <2>4. Listed' /\ New'
    BY <1>1, <1>3, <2>1, <2>3 DEF Listed, New, Agree, Plans!Keys
  <2> QED
    BY <1>1, <2>2, <2>4 DEF PlansInv, Plans!PlansInUseStay
<1>5. CASE q.step = "done" /\ q.op = "load"
  <2>1. shown' = q.seen /\ editor' = editor
    BY <1>5 DEF Plans!Answer
  <2>2. PlanLoad(q)
    BY <1>2, <1>5 DEF PlanRequest, PlanWrite
  <2>3. PlanTypes'
    BY <1>1, <2>1, <2>2 DEF PlansInv, PlanTypes, PlanLoad
  <2>4. ~mixed => shown'.plans = plans /\ shown'.prices = prices
    BY <1>5, <2>1, <2>2 DEF PlansInv, Listed, Read, PlanLoad
  <2>5. ~mixed => Agree(shown'.plans, shown'.prices)
    BY <2>4 DEF PlansInv, Agree, Plans!Keys
  <2>6. Listed' /\ New'
    BY <1>1, <1>3, <2>5 DEF Listed, New, Agree, Plans!Keys
  <2> QED
    BY <1>1, <2>3, <2>6 DEF PlansInv, Plans!PlansInUseStay
<1>6. CASE q.step = "done" /\ q.op # "load"
  <2>1. /\ shown' = [shown EXCEPT ![q.kind] = Plans!ShownAfter(q)]
        /\ editor' = editor \/ editor' = [editor EXCEPT ![q.kind] = Plans!Blank]
    BY <1>6 DEF Plans!Answer
  <2>2. editor' \in [Plans!Kinds -> PlanKeys \cup {Plans!Blank}]
    BY <1>2, <1>6, <2>1 DEF PlansInv, PlanTypes
  <2>3. shown[q.kind] \subseteq PlanRow
    BY <1>2, <1>6 DEF PlansInv, PlanTypes
  <2>4. Plans!ShownAfter(q) \subseteq PlanRow
    BY <1>2, <1>6, <2>3, ShownAfterRows
  <2>5. /\ shown' = [plans |-> shown'.plans, prices |-> shown'.prices]
        /\ q.kind = "plans" => shown'.plans = Plans!ShownAfter(q) /\ shown'.prices = shown.prices
        /\ q.kind = "prices" => shown'.prices = Plans!ShownAfter(q) /\ shown'.plans = shown.plans
    BY <1>2, <1>6, <2>1 DEF PlansInv, PlanTypes
  <2>6. PlanTypes'
    BY <1>1, <1>2, <1>6, <2>2, <2>4, <2>5 DEF PlansInv, PlanTypes
  <2>7. ~mixed => Agree(shown'.plans, shown'.prices)
    BY <1>2, <1>3, <1>6, <2>5 DEF PlansInv, Listed
  <2>8. Listed' /\ New'
    BY <1>1, <1>3, <2>7 DEF Listed, New, Agree, Plans!Keys
  <2> QED
    BY <1>1, <2>6, <2>8 DEF PlansInv, Plans!PlansInUseStay
<1> QED
  BY <1>1, <1>4, <1>5, <1>6

\* A tenant gets a plan, and an editor is opened or closed.
LEMMA PlansOtherwise ==
  ASSUME PlansInv,
         \/ \E key \in Plans!Keys(plans) : Plans!Subscribe(key)
         \/ \E kind \in Plans!Kinds, key \in PlanKeys \cup {Plans!Blank} : Plans!Edit(kind, key)
  PROVE  PlansInv'
<1>1. UNCHANGED <<plans, prices, shown, requests, mixed>>
  BY DEF Plans!Subscribe, Plans!Edit, Plans!rowVars
<1>2. editor' \in [Plans!Kinds -> PlanKeys \cup {Plans!Blank}]
  BY DEF Plans!Subscribe, Plans!Edit, PlansInv, PlanTypes
<1>3. \A s \in subscriptions' :
        /\ s.plan \in Plans!Keys(plans) /\ s.plan \in PlanKeys
        /\ s.status \in {"active", "canceled"}
  <2>1. CASE \E key \in Plans!Keys(plans) : Plans!Subscribe(key)
    <3>1. PICK key \in Plans!Keys(plans) : Plans!Subscribe(key)
      BY <2>1
    <3>2. key \in PlanKeys
      BY DEF PlansInv, PlanTypes, PlanRow, Plans!Keys
    <3>3. subscriptions' = subscriptions \cup {[plan |-> key, status |-> "active"]}
      BY <3>1 DEF Plans!Subscribe
    <3> QED
      BY <3>2, <3>3 DEF PlansInv, PlanTypes, Plans!PlansInUseStay
  <2>2. CASE \E kind \in Plans!Kinds, key \in PlanKeys \cup {Plans!Blank} : Plans!Edit(kind, key)
    <3>1. subscriptions' = subscriptions
      BY <2>2 DEF Plans!Edit, Plans!rowVars
    <3> QED
      BY <3>1 DEF PlansInv, PlanTypes, Plans!PlansInUseStay
  <2> QED
    BY <2>1, <2>2
<1>4. PlanTypes'
  BY <1>1, <1>2, <1>3 DEF PlansInv, PlanTypes
<1>5. Listed' /\ New'
  BY <1>1 DEF PlansInv, Listed, New, Agree, Read, Plans!Keys, Plans!ShownAfter
<1> QED
  BY <1>1, <1>3, <1>4, <1>5 DEF PlansInv, Plans!PlansInUseStay

\* The gestures that send a request.
LEMMA PlanGestures ==
  ASSUME PlansInv, NEW kind \in Plans!Kinds,
         \/ \E key \in PlanKeys : Plans!Create(kind, Plans!Row(key, Plans!Blank))
         \/ \E text \in Texts : Plans!Save(kind, text)
         \/ \E row \in shown[kind] : Plans!Delete(kind, row)
  PROVE  PlansInv'
<1>1. shown[kind] \subseteq PlanRow
  BY DEF PlansInv, PlanTypes, Plans!Kinds
<1>2. ASSUME NEW key \in PlanKeys, Plans!Create(kind, Plans!Row(key, Plans!Blank))
      PROVE  PlansInv'
  <2>1. PICK row : row = Plans!Row(key, Plans!Blank)
    OBVIOUS
  <2>2. row \in PlanRow
    BY <2>1 DEF Plans!Row, PlanRow
  <2>3. /\ kind = "plans" => row.key \notin Plans!Keys(shown.prices) \ Plans!Keys(plans)
        /\ Plans!Send("create", kind, row)
    BY <1>2, <2>1 DEF Plans!Create
  <2> QED
    BY <2>2, <2>3, PlanSent
<1>3. ASSUME NEW text \in Texts, Plans!Save(kind, text)
      PROVE  PlansInv'
  <2>1. PICK row : row = Plans!Row(editor[kind], text)
    OBVIOUS
  <2>2. editor[kind] \in PlanKeys
    BY <1>1, <1>3 DEF Plans!Save, Plans!Keys, PlanRow
  <2>3. row \in PlanRow
    BY <2>1, <2>2 DEF Plans!Row, PlanRow
  <2>4. Plans!Send("save", kind, row)
    BY <1>3, <2>1 DEF Plans!Save
  <2> QED
    BY <2>3, <2>4, PlanSent
<1>4. ASSUME NEW row \in shown[kind], Plans!Delete(kind, row)
      PROVE  PlansInv'
  <2>1. row \in PlanRow /\ Plans!Send("delete", kind, row)
    BY <1>1, <1>4 DEF Plans!Delete
  <2> QED
    BY <2>1, PlanSent
<1> QED
  BY <1>2, <1>3, <1>4

\* Every step keeps the inductive invariant.
LEMMA PlansStep == PlansInv /\ [Plans!Next]_Plans!planVars => PlansInv'
<1> SUFFICES ASSUME PlansInv, [Plans!Next]_Plans!planVars PROVE PlansInv'
  OBVIOUS
<1>1. CASE UNCHANGED Plans!planVars
  BY <1>1 DEF Plans!planVars, PlansInv, PlanTypes, Plans!PlansInUseStay, Listed, New,
              Agree, Read, Plans!Keys, Plans!ShownAfter, Plans!Others
<1>2. ASSUME NEW kind \in Plans!Kinds,
             \/ \E key \in PlanKeys : Plans!Create(kind, Plans!Row(key, Plans!Blank))
             \/ \E key \in PlanKeys \cup {Plans!Blank} : Plans!Edit(kind, key)
             \/ \E text \in Texts : Plans!Save(kind, text)
             \/ \E row \in shown[kind] : Plans!Delete(kind, row)
      PROVE  PlansInv'
  BY <1>2, PlanGestures, PlansOtherwise
<1>3. CASE \E key \in Plans!Keys(plans) : Plans!Subscribe(key)
  BY <1>3, PlansOtherwise
<1>4. ASSUME NEW q \in requests,
             \/ Plans!ServeWrite(q) \/ Plans!CountUses(q) \/ Plans!DeleteRow(q) \/ Plans!Lose(q)
             \/ Plans!Answer(q) \/ \E kind \in Plans!Kinds : Plans!ServeLoad(q, kind)
      PROVE  PlansInv'
  BY <1>4, ServeWriteKeeps, CountUsesKeeps, DeleteRowKeeps, PlanLost, PlanAnswered, ServeLoadKeeps
<1>5. CASE Plans!Renew
  BY <1>5, PlanSent DEF Plans!Renew
<1> QED
  BY <1>1, <1>2, <1>3, <1>4, <1>5 DEF Plans!Next

\* The inductive invariant: requests that did not meet leave lists that agree with the rows,
\* but for prices of plans that were deleted.
THEOREM PlansAlwaysCoherent ==
  ASSUME Plans!PlanAssumption PROVE Plans!Spec => []PlansInv
<1>1. Plans!Init => PlansInv
  BY PlansStart
<1>2. PlansInv /\ [Plans!Next]_Plans!planVars => PlansInv'
  BY PlansStep
<1> QED
  BY <1>1, <1>2, PTL DEF Plans!Spec

\* Every variable keeps to its domain, and a plan that a tenant has, or had, is not deleted,
\* also when the tenant gets it after delete_plan has counted the subscriptions.
THEOREM PlansInUseAlwaysStay ==
  ASSUME Plans!PlanAssumption PROVE Plans!Spec => [](Plans!TypeOK /\ Plans!PlansInUseStay)
<1>1. PlansInv => Plans!TypeOK
  <2> SUFFICES ASSUME PlansInv PROVE Plans!TypeOK
    OBVIOUS
  <2>1. plans \cup prices \cup shown.plans \cup shown.prices \subseteq PlanRow
    BY DEF PlansInv, PlanTypes
  <2>2. /\ \A q \in requests : q.step \in {"sent", "counted", "done", "failed"}
        /\ \A s \in subscriptions : s.plan \in PlanKeys /\ s.status \in {"active", "canceled"}
        /\ mixed \in BOOLEAN
    BY DEF PlansInv, PlanTypes, PlanRequest
  <2>3. editor.plans \in PlanKeys \cup {Plans!Blank} /\ editor.prices \in PlanKeys \cup {Plans!Blank}
    BY DEF PlansInv, PlanTypes, Plans!Kinds
  <2> QED
    BY <2>1, <2>2, <2>3 DEF Plans!TypeOK, PlanRow
<1>2. PlansInv => Plans!PlansInUseStay
  BY DEF PlansInv
<1> QED
  BY <1>1, <1>2, PlansAlwaysCoherent, PTL

\* Once nothing is under way the lists of plans and prices are those of the server, but for
\* the prices of plans that were deleted, unless requests overlapped or failed.
THEOREM QuietListsAlwaysCurrent ==
  ASSUME Plans!PlanAssumption PROVE Plans!Spec => []Plans!QuietListsAreCurrent
<1>1. PlansInv => Plans!QuietListsAreCurrent
  BY DEF PlansInv, Listed, Agree, Plans!QuietListsAreCurrent
<1> QED
  BY <1>1, PlansAlwaysCoherent, PTL
=============================================================================

----------------------- MODULE AssessmentAttempts_proofs -----------------------
(***************************************************************************)
(* Proofs about AssessmentAttempts, for any number of deliveries, requests *)
(* and administrators, any settings and instants: attempts are numbered    *)
(* without gaps, tests are never counted twice and a milestone is unlocked *)
(* once, however requests overlap; and requests that follow one another    *)
(* leave one attempt in progress, stars that add up and true scores.  The  *)
(* second part is about an instance of TestTaking, the page that saves the *)
(* answers of an attempt, the third about one of DeliveriesPage, the page  *)
(* that assigns the tests.                                                 *)
(***************************************************************************)
EXTENDS AssessmentAttempts, Sequences, FiniteSetTheorems, WellFoundedInduction, TLAPS

Places  == {"idle", "begun", "open", "none", "counted", "read", "flushed", "unlocked"}
Starts  == {"open", "none", "counted"}
Submits == {"read", "flushed", "unlocked"}
Counts  == [stars : Nat, tests : Nat]
Times   == {NoTime} \cup Nat

\* The attempt a request is about.
Aim(r) == <<op[r].on, op[r].number>>

\* What a request is asked for: a submission and an answer are of an attempt there is.
Asked(r) ==
  /\ op[r].kind \in {"start", "submit", "save"} \cup AdminKinds
  /\ op[r].on \in Deliveries
  /\ op[r].kind \in {"submit", "save"} =>
       op[r].number \in Numbers /\ attempts[op[r].on][op[r].number].status # "absent"
  /\ op[r].kind = "save" => op[r].answer \in Answers
  /\ op[r].kind = "update" => op[r].to \in Settings

\* A start has read a setting that was in force; the number it counted is one of those the
\* setting allows, and is taken by now or the next.
Starting(r) ==
  stage[r] \in Starts =>
    /\ op[r].kind = "start"
    /\ snap[r].setup \in Setting /\ snap[r].at \in 0 .. MaxTime
    /\ snap[r].setup.allowed <= granted[op[r].on]
    /\ stage[r] = "counted" =>
         /\ snap[r].number \in 1 .. snap[r].setup.allowed
         /\ snap[r].number <= Cardinality(Used(op[r].on)) + 1

\* The counts a submission has read leave room for its attempt: they were read when that
\* attempt was not scored.
Counting(r) ==
  /\ stage[r] = "begun" =>
       snap[r].member \in Counts /\ snap[r].member.tests <= Cardinality(Scored)
  /\ stage[r] \in Submits /\ op[r].kind = "submit" =>
       /\ snap[r].row \in Row /\ snap[r].member \in Counts
       /\ snap[r].member.tests + 1 <= Cardinality(Scored \cup {Aim(r)})

\* From its flush to its commit a submission holds the membership row: what it has found
\* of the milestone is still so.
Locking(r) ==
  /\ stage[r] \in {"flushed", "unlocked"} => op[r].kind = "submit" /\ holder = r
  /\ stage[r] = "unlocked" => snap[r].unlock \in BOOLEAN /\ (snap[r].unlock => unlocked = 0)

\* The rows that saves and administrators have read.
Reading(r) ==
  stage[r] = "read" =>
    /\ op[r].kind # "start"
    /\ op[r].kind = "save" => snap[r].row \in Row
    /\ op[r].kind \in AdminKinds =>
         /\ snap[r].setup \in Setting /\ snap[r].rows \subseteq Numbers
         /\ snap[r].until \in [Numbers -> Times]
         /\ \A n \in snap[r].rows : snap[r].until[n] # NoTime /\ n \in Used(op[r].on)

Request(r) == Asked(r) /\ Starting(r) /\ Counting(r) /\ Locking(r) /\ Reading(r)

Slots == /\ DOMAIN op = Requests /\ DOMAIN snap = Requests
         /\ \A r \in Requests : stage[r] # "idle" => Request(r)

\* The most attempts ever allowed are at least those allowed.
Granted == \A d \in Deliveries : setup[d].allowed <= granted[d]

IInv == /\ TypeOK /\ Slots /\ Granted
        /\ AttemptsNumbered /\ NeverOvercounted /\ MilestoneOnce /\ IsFiniteSet(Scored)

-----------------------------------------------------------------------------
(* Sets of attempts. *)

\* What it is to be scored, and to be used.
LEMMA ScoredIs ==
  ASSUME NEW d \in Deliveries, NEW n \in Numbers
  PROVE  <<d, n>> \in Scored <=> attempts[d][n].status = "scored"
<1> DEFINE a == <<d, n>>
<1>1. a \in Deliveries \X Numbers /\ a[1] = d /\ a[2] = n
  OBVIOUS
<1> HIDE DEF a
<1>2. a \in Scored <=> attempts[d][n].status = "scored"
  BY <1>1 DEF Scored
<1> QED
  BY <1>2 DEF a

LEMMA UsedIs ==
  ASSUME AttemptsAssumption, NEW d \in Deliveries
  PROVE  /\ Used(d) \in SUBSET Numbers /\ IsFiniteSet(Used(d)) /\ Cardinality(Used(d)) \in Nat
         /\ \A n \in Numbers : n \in Used(d) <=> attempts[d][n].status # "absent"
<1>1. Used(d) \in SUBSET Numbers
  BY DEF Used
<1>2. IsFiniteSet(Numbers)
  BY FS_Interval DEF Numbers, AttemptsAssumption
<1> QED
  BY <1>1, <1>2, FS_Subset, FS_CardinalityType DEF Used

\* A larger finite set counts as much at least.
LEMMA Larger ==
  ASSUME NEW T, IsFiniteSet(T), NEW S \in SUBSET T
  PROVE  /\ IsFiniteSet(S) /\ Cardinality(S) \in Nat /\ Cardinality(T) \in Nat
         /\ Cardinality(S) <= Cardinality(T)
BY FS_Subset, FS_CardinalityType

-----------------------------------------------------------------------------
(* What steps have in common. *)

\* No attempt is taken back, scored attempts stay so, and grants stay.
Onward ==
  /\ \A d \in Deliveries, n \in Numbers :
       attempts[d][n].status # "absent" => attempts'[d][n].status # "absent"
  /\ Scored \subseteq Scored' /\ IsFiniteSet(Scored')
  /\ \A d \in Deliveries : granted[d] <= granted'[d]

\* The slot of a request is as it was.
Same(q) == op'[q] = op[q] /\ stage'[q] = stage[q] /\ snap'[q] = snap[q]

\* A used attempt is counted before and after.
LEMMA UsedMore ==
  ASSUME AttemptsAssumption, Onward, NEW d \in Deliveries
  PROVE  /\ Used(d) \subseteq Used(d)' /\ IsFiniteSet(Used(d)') /\ Cardinality(Used(d)') \in Nat
         /\ Cardinality(Used(d)) \in Nat /\ Cardinality(Used(d)) <= Cardinality(Used(d)')
<1>1. Used(d) \subseteq Used(d)'
  BY DEF Onward, Used
<1>2. Used(d)' \in SUBSET Numbers
  BY DEF Used
<1>3. IsFiniteSet(Numbers)
  BY FS_Interval DEF Numbers, AttemptsAssumption
<1> QED
  BY <1>1, <1>2, <1>3, Larger

\* A request that a step passes by is as coherent as it was.
LEMMA RequestKept ==
  ASSUME AttemptsAssumption, TypeOK, IsFiniteSet(Scored), Onward, granted' \in [Deliveries -> Numbers],
         NEW q \in Requests, Request(q), Same(q),
         stage[q] \in {"flushed", "unlocked"} => UNCHANGED <<holder, unlocked>>
  PROVE  Request(q)'
<1>1. Asked(q)'
  BY DEF Request, Asked, Same, Onward
<1>2. Starting(q)'
  <2>1. SUFFICES ASSUME stage[q] \in Starts PROVE Starting(q)'
    BY DEF Starting, Same
  <2>2. op[q].on \in Deliveries
    BY DEF Request, Asked
  <2>3. granted[op[q].on] \in Nat /\ granted'[op[q].on] \in Nat /\ granted[op[q].on] <= granted'[op[q].on]
    BY <2>2 DEF TypeOK, Onward, Numbers
  <2>4. snap[q].setup.allowed \in Nat
    BY <2>1 DEF Request, Starting, Setting, Numbers
  <2>5. snap[q].setup.allowed <= granted'[op[q].on]
    BY <2>1, <2>3, <2>4 DEF Request, Starting
  <2>6. stage[q] = "counted" => snap[q].number <= Cardinality(Used(op[q].on)') + 1
    <3>1. ASSUME NEW d \in Deliveries, d = op[q].on, stage[q] = "counted"
          PROVE  snap[q].number <= Cardinality(Used(d)') + 1
      <4>1. snap[q].number \in Nat /\ snap[q].number <= Cardinality(Used(d)) + 1
        BY <2>1, <2>4, <3>1 DEF Request, Starting
      <4> QED
        BY <4>1, UsedMore
    <3> QED
      BY <2>2, <3>1 DEF Same
  <2> QED
    BY <2>1, <2>5, <2>6 DEF Request, Starting, Same
<1>3. Counting(q)'
  <2> DEFINE b  == Aim(q)
             m  == Cardinality(Scored)
             m1 == Cardinality(Scored')
             k  == Cardinality(Scored \cup {b})
             k1 == Cardinality(Scored' \cup {b})
             t  == snap[q].member.tests
  <2>1. m \in Nat /\ m1 \in Nat /\ m <= m1 /\ k \in Nat /\ k1 \in Nat /\ k <= k1
    <3>1. IsFiniteSet(Scored' \cup {b}) /\ Scored \cup {b} \in SUBSET (Scored' \cup {b})
      BY FS_AddElement DEF Onward
    <3> HIDE DEF b
    <3> QED
      BY <3>1, Larger DEF Onward
  <2>2. Aim(q)' = Aim(q)
    BY DEF Aim, Same
  <2>3. /\ stage[q] = "begun" => snap[q].member \in Counts /\ t <= m
        /\ stage[q] \in Submits /\ op[q].kind = "submit" =>
             snap[q].row \in Row /\ snap[q].member \in Counts /\ t + 1 <= k
    BY DEF Request, Counting
  <2>4. snap[q].member \in Counts => t \in Nat
    BY DEF Counts
  <2>5. Counting(q)' <=>
          /\ stage[q] = "begun" => snap[q].member \in Counts /\ t <= m1
          /\ stage[q] \in Submits /\ op[q].kind = "submit" =>
               snap[q].row \in Row /\ snap[q].member \in Counts /\ t + 1 <= k1
    BY <2>2 DEF Counting, Same
  <2> HIDE DEF m, m1, k, k1, t
  <2> QED
    BY <2>1, <2>3, <2>4, <2>5
<1>4. Locking(q)'
  BY DEF Request, Locking, Same
<1>5. Reading(q)'
  <2>1. stage[q] = "read" /\ op[q].kind \in AdminKinds => Used(op[q].on) \subseteq Used(op[q].on)'
    BY UsedMore DEF Request, Asked, Same
  <2> QED
    BY <2>1 DEF Request, Reading, Same
<1> QED
  BY <1>1, <1>2, <1>3, <1>4, <1>5 DEF Request

\* Nothing is taken back where attempts stay and grants grow.
LEMMA OnwardUnchanged ==
  ASSUME IsFiniteSet(Scored), UNCHANGED attempts, \A d \in Deliveries : granted[d] <= granted'[d]
  PROVE  Onward
BY DEF Onward, Scored

\* One slot changes: what remains to be shown is about the request in it.
LEMMA SlotsKept ==
  ASSUME AttemptsAssumption, TypeOK, IsFiniteSet(Scored), Slots, Onward,
         granted' \in [Deliveries -> Numbers], NEW r \in Requests,
         DOMAIN op' = Requests, DOMAIN snap' = Requests,
         \A q \in Requests \ {r} : Same(q),
         \A q \in Requests \ {r} :
           stage[q] \in {"flushed", "unlocked"} => UNCHANGED <<holder, unlocked>>,
         stage'[r] # "idle" => Request(r)'
  PROVE  Slots'
<1>1. ASSUME NEW q \in Requests \ {r}, stage'[q] # "idle" PROVE Request(q)'
  <2>1. stage[q] # "idle" /\ Same(q)
    BY <1>1 DEF Same
  <2>2. Request(q)
    BY <2>1 DEF Slots
  <2> QED
    BY <2>1, <2>2, RequestKept
<1> QED
  BY <1>1 DEF Slots

\* A request that leaves frees its slot.
LEMMA LeaveSlot ==
  ASSUME TypeOK, Slots, NEW r \in Requests, Leave(r)
  PROVE  /\ DOMAIN op' = Requests /\ DOMAIN snap' = Requests
         /\ \A q \in Requests \ {r} : Same(q)
         /\ stage'[r] = "idle"
         /\ stage' \in [Requests -> Places]
         /\ \A q \in Requests : stage'[q] = "idle" <=> op'[q] = Idle
BY DEF Leave, TypeOK, Slots, Same, Places

\* A request that goes on keeps it.
LEMMA ReachSlot ==
  ASSUME TypeOK, Slots, NEW r \in Requests, stage[r] # "idle",
         NEW to \in Places \ {"idle"}, NEW read, Reach(r, to, read)
  PROVE  /\ DOMAIN op' = Requests /\ DOMAIN snap' = Requests
         /\ \A q \in Requests \ {r} : Same(q)
         /\ op'[r] = op[r] /\ stage'[r] = to /\ snap'[r] = read
         /\ stage' \in [Requests -> Places]
         /\ \A q \in Requests : stage'[q] = "idle" <=> op'[q] = Idle
BY DEF Reach, TypeOK, Slots, Same, Places

\* A step that reads moves one request only.
LEMMA ReadKeeps ==
  ASSUME AttemptsAssumption, IInv, NEW r \in Requests, Reads,
         \/ Leave(r)
         \/ /\ stage[r] # "idle"
            /\ \E to \in Places \ {"idle"} : \E read : Reach(r, to, read)
            /\ Request(r)'
  PROVE  IInv'
<1>1. UNCHANGED <<setup, attempts, member, unlocked, now, holder, granted, begun>>
  BY DEF Reads, stored
<1>2. Onward
  <2>1. \A d \in Deliveries : granted[d] <= granted'[d]
    BY <1>1 DEF IInv, TypeOK, Numbers
  <2> QED
    BY <1>1, <2>1, OnwardUnchanged DEF IInv
<1>3. /\ DOMAIN op' = Requests /\ DOMAIN snap' = Requests
      /\ \A q \in Requests \ {r} : Same(q)
      /\ stage'[r] # "idle" => Request(r)'
      /\ stage' \in [Requests -> Places]
      /\ \A q \in Requests : stage'[q] = "idle" <=> op'[q] = Idle
  <2>1. CASE Leave(r)
    BY <2>1, LeaveSlot DEF IInv
  <2>2. CASE /\ stage[r] # "idle" /\ Request(r)'
             /\ \E to \in Places \ {"idle"} : \E read : Reach(r, to, read)
    <3>1. PICK to, read : to \in Places \ {"idle"} /\ Reach(r, to, read)
      BY <2>2
    <3> QED
      BY <2>2, <3>1, ReachSlot DEF IInv
  <2> QED
    BY <2>1, <2>2
<1>4. Slots'
  BY <1>1, <1>2, <1>3, SlotsKept DEF IInv, TypeOK
<1>5. TypeOK'
  BY <1>1, <1>3 DEF IInv, TypeOK, Places
<1>6. (Granted /\ AttemptsNumbered /\ NeverOvercounted /\ MilestoneOnce /\ IsFiniteSet(Scored))'
  BY <1>1 DEF IInv, Granted, AttemptsNumbered, NeverOvercounted, MilestoneOnce, Scored, Used
<1> QED
  BY <1>4, <1>5, <1>6 DEF IInv

-----------------------------------------------------------------------------
(* The steps of a start. *)

\* What is the same after a step that reads.
LEMMA ReadsSame ==
  ASSUME Reads, NEW r \in Requests, op' = op
  PROVE  /\ attempts' = attempts /\ holder' = holder /\ unlocked' = unlocked /\ granted' = granted
         /\ Scored' = Scored /\ Aim(r)' = Aim(r) /\ Used(op[r].on)' = Used(op[r].on)
         /\ Asked(r) => Asked(r)'
BY DEF Reads, stored, Scored, Aim, Used, Asked

\* A start that goes on has read what Starting says.
LEMMA StartGoesOn ==
  ASSUME IInv, NEW r \in Requests, op[r].kind = "start", stage[r] # "idle", Reads,
         NEW to \in Starts, NEW read, Reach(r, to, read),
         read.setup \in Setting, read.at \in 0 .. MaxTime,
         read.setup.allowed <= granted[op[r].on],
         to = "counted" => /\ read.number \in 1 .. read.setup.allowed
                           /\ read.number <= Cardinality(Used(op[r].on)) + 1
  PROVE  Request(r)' /\ to \in Places \ {"idle"}
<1>1. to \in Places \ {"idle"}
  BY DEF Starts, Places
<1>2. op'[r] = op[r] /\ stage'[r] = to /\ snap'[r] = read /\ op' = op
  BY <1>1, ReachSlot DEF IInv, Reach
<1>3. Asked(r)' /\ granted' = granted /\ Used(op[r].on)' = Used(op[r].on)
  BY <1>2, ReadsSame DEF IInv, Slots, Request
<1>4. Starting(r)'
  BY <1>2, <1>3 DEF Starting
<1>5. Counting(r)' /\ Locking(r)' /\ Reading(r)'
  BY <1>2 DEF Counting, Locking, Reading, Starts, Submits
<1> QED
  BY <1>1, <1>3, <1>4, <1>5 DEF Request

LEMMA FindDeliveryKeeps ==
  ASSUME AttemptsAssumption, IInv, NEW r \in Requests, FindDelivery(r)
  PROVE  IInv'
<1> DEFINE s == setup[op[r].on]
           read == [setup |-> s, at |-> now]
<1>1. stage[r] = "begun" /\ op[r].kind = "start" /\ Reads
  BY DEF FindDelivery, At
<1>2. CASE Leave(r)
  BY <1>1, <1>2, ReadKeeps
<1>3. CASE Reach(r, "open", read)
  <2>1. op[r].on \in Deliveries
    BY <1>1 DEF IInv, Slots, Request, Asked
  <2>2. s \in Setting /\ now \in 0 .. MaxTime /\ s.allowed <= granted[op[r].on]
    BY <2>1 DEF IInv, TypeOK, Granted
  <2>3. read.setup = s /\ read.at = now
    OBVIOUS
  <2> HIDE DEF s, read
  <2>4. Request(r)' /\ "open" \in Places \ {"idle"}
    BY <1>1, <1>3, <2>2, <2>3, StartGoesOn DEF Starts
  <2> QED
    BY <1>1, <1>3, <2>4, ReadKeeps
<1> QED
  BY <1>2, <1>3 DEF FindDelivery

LEMMA ResumeKeeps ==
  ASSUME AttemptsAssumption, IInv, NEW r \in Requests, Resume(r)
  PROVE  IInv'
BY ReadKeeps DEF Resume

LEMMA FindNoneKeeps ==
  ASSUME AttemptsAssumption, IInv, NEW r \in Requests, FindNone(r)
  PROVE  IInv'
<1>1. stage[r] = "open" /\ op[r].kind = "start" /\ Reads /\ Reach(r, "none", snap[r])
  BY DEF FindNone, At
<1>2. /\ snap[r].setup \in Setting /\ snap[r].at \in 0 .. MaxTime
      /\ snap[r].setup.allowed <= granted[op[r].on]
  BY <1>1 DEF IInv, Slots, Request, Starting, Starts
<1>3. Request(r)' /\ "none" \in Places \ {"idle"}
  BY <1>1, <1>2, StartGoesOn DEF Starts
<1> QED
  BY <1>1, <1>3, ReadKeeps

LEMMA CountKeeps ==
  ASSUME AttemptsAssumption, IInv, NEW r \in Requests, Count(r)
  PROVE  IInv'
<1> DEFINE n == Cardinality(Used(op[r].on))
           read == [setup |-> snap[r].setup, at |-> snap[r].at, number |-> n + 1]
<1>1. stage[r] = "none" /\ op[r].kind = "start" /\ Reads
  BY DEF Count, At
<1>2. CASE Leave(r)
  BY <1>1, <1>2, ReadKeeps
<1>3. CASE ~ (n >= snap[r].setup.allowed) /\ Reach(r, "counted", read)
  <2>1. /\ snap[r].setup \in Setting /\ snap[r].at \in 0 .. MaxTime
        /\ snap[r].setup.allowed <= granted[op[r].on]
    BY <1>1 DEF IInv, Slots, Request, Starting, Starts
  <2>2. n \in Nat /\ snap[r].setup.allowed \in Nat
    BY <1>1, <2>1, UsedIs DEF IInv, Slots, Request, Asked, Setting, Numbers
  <2>3. read.setup = snap[r].setup /\ read.at = snap[r].at /\ read.number = n + 1
    OBVIOUS
  <2> HIDE DEF read
  <2>4. Request(r)' /\ "counted" \in Places \ {"idle"}
    <3>1. read.number \in 1 .. read.setup.allowed /\ read.number <= n + 1
      BY <1>3, <2>2, <2>3
    <3> QED
      BY <1>1, <1>3, <2>1, <2>3, <3>1, StartGoesOn DEF Starts
  <2> QED
    BY <1>1, <1>3, <2>4, ReadKeeps
<1> QED
  BY <1>2, <1>3 DEF Count

\* The expiry of a new attempt.
LEMMA ExpiryIs ==
  ASSUME AttemptsAssumption, NEW s \in Setting, NEW at \in 0 .. MaxTime
  PROVE  Expiry(s, at) \in Times
<1>1. s.duration \in {NoTime} \cup Nat /\ s.until \in {NoTime} \cup 0 .. MaxTime
  BY DEF Setting
<1> QED
  BY <1>1 DEF Expiry, Times, AttemptsAssumption, NoTime

\* Only the attempts of one delivery change.
LEMMA NewRowType ==
  ASSUME NEW d \in Deliveries, NEW n \in Numbers, NEW row \in Row,
         attempts \in [Deliveries -> [Numbers -> Row]],
         attempts' = [attempts EXCEPT ![d] = [attempts[d] EXCEPT ![n] = row]]
  PROVE  /\ attempts' \in [Deliveries -> [Numbers -> Row]]
         /\ attempts'[d][n] = row
         /\ \A e \in Deliveries, m \in Numbers :
              e # d \/ m # n => attempts'[e][m] = attempts[e][m]
<1>1. attempts \in [Deliveries -> [Numbers -> Row]]
  OBVIOUS
<1>2. attempts[d] \in [Numbers -> Row] /\ [attempts[d] EXCEPT ![n] = row] \in [Numbers -> Row]
  BY <1>1
<1>3. attempts' = [attempts EXCEPT ![d] = [attempts[d] EXCEPT ![n] = row]]
  OBVIOUS
<1>4. attempts'[d] = [attempts[d] EXCEPT ![n] = row]
  BY <1>1, <1>3
<1>5. ASSUME NEW e \in Deliveries, e # d PROVE attempts'[e] = attempts[e]
  BY <1>1, <1>3, <1>5
<1> QED
  BY <1>1, <1>2, <1>3, <1>4, <1>5

\* What a row that stays scored, or does not become so, leaves of what is scored.
LEMMA ScoredSame ==
  ASSUME IsFiniteSet(Scored),
         \A d \in Deliveries, n \in Numbers :
           attempts'[d][n].status = "scored" <=> attempts[d][n].status = "scored"
  PROVE  Scored' = Scored
<1>1. \A a \in Deliveries \X Numbers : a[1] \in Deliveries /\ a[2] \in Numbers
  OBVIOUS
<1> QED
  BY <1>1 DEF Scored

\* The row of a new attempt.
LEMMA NewAttempt ==
  ASSUME NEW x \in Times
  PROVE  LET row == [Absent EXCEPT !.status = "in_progress", !.expires = x]
         IN  row \in Row /\ row.status = "in_progress"
<1> DEFINE one == [Absent EXCEPT !.status = "in_progress"]
           row == [one EXCEPT !.expires = x]
<1>1. one = [status |-> "in_progress", expires |-> NoTime, answer |-> NoAnswer,
             graded |-> NoAnswer, stars |-> 0]
  BY DEF Absent
<1> HIDE DEF one
<1>2. row = [status |-> "in_progress", expires |-> x, answer |-> NoAnswer,
             graded |-> NoAnswer, stars |-> 0]
  BY <1>1
<1> HIDE DEF row
<1>3. row \in Row /\ row.status = "in_progress"
  BY <1>2 DEF Row, Times
<1> QED
  BY <1>3 DEF row, one

\* An insert writes one row at most, of an attempt that was absent.
LEMMA InsertWrites ==
  ASSUME AttemptsAssumption, IInv, NEW r \in Requests, Insert(r)
  PROVE  /\ attempts' \in [Deliveries -> [Numbers -> Row]]
         /\ \E row \in Row :
              /\ row.status = "in_progress"
              /\ \A e \in Deliveries, m \in Numbers :
                   attempts'[e][m] = attempts[e][m]
                     \/ (e = op[r].on /\ m = snap[r].number /\ attempts[e][m].status = "absent"
                           /\ attempts'[e][m] = row)
<1> DEFINE d == op[r].on
           n == snap[r].number
           k == Cardinality(Used(d))
           row == [Absent EXCEPT !.status = "in_progress",
                                 !.expires = Expiry(snap[r].setup, snap[r].at)]
<1>1. /\ op[r].kind = "start" /\ stage[r] = "counted" /\ Leave(r)
      /\ UNCHANGED <<setup, member, unlocked, now, holder, granted, begun>>
      /\ attempts' = IF n \in Used(d) THEN attempts ELSE [attempts EXCEPT ![d][n] = row]
  BY DEF Insert, At
<1>2. d \in Deliveries /\ Starting(r)
  BY <1>1 DEF IInv, Slots, Request, Asked
<1>3. /\ snap[r].setup \in Setting /\ snap[r].at \in 0 .. MaxTime
      /\ snap[r].setup.allowed \in Numbers /\ snap[r].setup.allowed <= granted[d]
      /\ n \in 1 .. snap[r].setup.allowed /\ n <= k + 1
  BY <1>1, <1>2 DEF Starting, Starts, Setting
<1>4. k \in Nat /\ n \in Numbers /\ granted[d] \in Nat /\ n <= granted[d]
  <2>1. k \in Nat
    BY <1>2, UsedIs
  <2>2. granted[d] \in Numbers
    BY <1>2 DEF IInv, TypeOK
  <2> HIDE DEF d, n, k
  <2>3. n \in Numbers /\ granted[d] \in Nat /\ n <= granted[d]
    BY <1>3, <2>2 DEF Numbers, AttemptsAssumption
  <2> QED
    BY <2>1, <2>3
<1>5. row \in Row /\ row.status = "in_progress"
  <2>1. Expiry(snap[r].setup, snap[r].at) \in Times
    BY <1>3, ExpiryIs
  <2> QED
    BY <2>1, NewAttempt
<1> HIDE DEF row
<1>6. /\ attempts' \in [Deliveries -> [Numbers -> Row]]
      /\ \A e \in Deliveries, m \in Numbers :
           attempts'[e][m] = attempts[e][m]
             \/ (e = d /\ m = n /\ attempts[e][m].status = "absent" /\ attempts'[e][m] = row)
  <2>1. CASE n \in Used(d)
    BY <1>1, <2>1 DEF IInv, TypeOK
  <2>2. CASE n \notin Used(d)
    <3>1. attempts' = [attempts EXCEPT ![d] = [attempts[d] EXCEPT ![n] = row]]
      BY <1>1, <2>2
    <3>2. attempts[d][n].status = "absent"
      BY <1>2, <1>4, <2>2, UsedIs
    <3>3. attempts \in [Deliveries -> [Numbers -> Row]]
      BY DEF IInv, TypeOK
    <3> HIDE DEF d, n
    <3>4. /\ attempts' \in [Deliveries -> [Numbers -> Row]] /\ attempts'[d][n] = row
          /\ \A e \in Deliveries, m \in Numbers :
               e # d \/ m # n => attempts'[e][m] = attempts[e][m]
      BY <1>2, <1>4, <1>5, <3>1, <3>3, NewRowType
    <3> QED
      BY <3>2, <3>4
  <2> QED
    BY <2>1, <2>2
<1> QED
  BY <1>5, <1>6

LEMMA InsertKeeps ==
  ASSUME AttemptsAssumption, IInv, NEW r \in Requests, Insert(r)
  PROVE  IInv'
<1> DEFINE d == op[r].on
           n == snap[r].number
           k == Cardinality(Used(d))
<1>1. /\ op[r].kind = "start" /\ stage[r] = "counted" /\ Leave(r)
      /\ UNCHANGED <<setup, member, unlocked, now, holder, granted, begun>>
  BY DEF Insert, At
<1>2. d \in Deliveries /\ Starting(r)
  BY <1>1 DEF IInv, Slots, Request, Asked
<1>3. /\ snap[r].setup \in Setting /\ snap[r].at \in 0 .. MaxTime
      /\ snap[r].setup.allowed \in Numbers /\ snap[r].setup.allowed <= granted[d]
      /\ n \in 1 .. snap[r].setup.allowed /\ n <= k + 1
  BY <1>1, <1>2 DEF Starting, Starts, Setting
<1>4. k \in Nat /\ n \in Numbers /\ granted[d] \in Nat /\ n <= granted[d]
  <2>1. k \in Nat
    BY <1>2, UsedIs
  <2>2. granted[d] \in Numbers
    BY <1>2 DEF IInv, TypeOK
  <2> HIDE DEF d, n, k
  <2>3. n \in Numbers /\ granted[d] \in Nat /\ n <= granted[d]
    BY <1>3, <2>2 DEF Numbers, AttemptsAssumption
  <2> QED
    BY <2>1, <2>3
<1>5. PICK row \in Row :
        /\ row.status = "in_progress"
        /\ \A e \in Deliveries, m \in Numbers :
             attempts'[e][m] = attempts[e][m]
               \/ (e = d /\ m = n /\ attempts[e][m].status = "absent" /\ attempts'[e][m] = row)
  BY InsertWrites
<1>6. attempts' \in [Deliveries -> [Numbers -> Row]]
  BY InsertWrites
<1>7. Scored' = Scored
  BY <1>5, ScoredSame DEF IInv
<1>8. Onward /\ granted' \in [Deliveries -> Numbers]
  BY <1>1, <1>5, <1>7 DEF IInv, TypeOK, Onward, Numbers
<1>9. /\ DOMAIN op' = Requests /\ DOMAIN snap' = Requests
      /\ \A q \in Requests \ {r} : Same(q)
      /\ stage'[r] = "idle" /\ stage' \in [Requests -> Places]
      /\ \A q \in Requests : stage'[q] = "idle" <=> op'[q] = Idle
  BY <1>1, LeaveSlot DEF IInv
<1>10. Slots'
  BY <1>1, <1>8, <1>9, SlotsKept DEF IInv
<1>11. TypeOK'
  BY <1>1, <1>6, <1>9 DEF IInv, TypeOK, Places
<1>12. AttemptsNumbered'
  <2>1. ASSUME NEW e \in Deliveries, Used(e)' = Used(e)
        PROVE  Used(e)' = 1 .. Cardinality(Used(e)') /\ Cardinality(Used(e)') <= granted'[e]
    BY <1>1, <2>1 DEF IInv, AttemptsNumbered
  <2>2. ASSUME NEW e \in Deliveries, Used(e)' # Used(e)
        PROVE  Used(e)' = 1 .. Cardinality(Used(e)') /\ Cardinality(Used(e)') <= granted'[e]
    <3> HIDE DEF d, n, k
    <3>1. /\ Used(e) = {m \in Numbers : attempts[e][m].status # "absent"}
          /\ Used(e)' = {m \in Numbers : attempts'[e][m].status # "absent"}
      BY DEF Used
    <3>2. PICK m \in Numbers : ~ (m \in Used(e)' <=> m \in Used(e))
      BY <2>2, <3>1
    <3>3. e = d /\ m = n /\ attempts[e][m].status = "absent" /\ attempts'[e][m] = row
      BY <1>5, <3>1, <3>2
    <3>4. \A i \in Numbers : i \in Used(e)' <=> (i \in Used(e) \/ i = n)
      BY <1>4, <1>5, <3>1, <3>3
    <3>5. Used(e) = 1 .. k /\ n \notin Used(e)
      <4>1. Used(e) = 1 .. Cardinality(Used(e)) /\ k = Cardinality(Used(e))
        BY <3>3 DEF IInv, AttemptsNumbered, k
      <4> QED
        BY <3>1, <3>3, <4>1
    <3>6. n = k + 1
      BY <1>3, <1>4, <3>5 DEF Numbers
    <3>7. Used(e)' = 1 .. (k + 1)
      <4>1. Used(e)' = Used(e) \cup {n}
        BY <1>4, <3>1, <3>4
      <4> QED
        BY <1>4, <3>5, <3>6, <4>1
    <3>8. Cardinality(Used(e)') = k + 1
      BY <1>4, <3>7, FS_Interval
    <3>9. granted' = granted
      BY <1>1
    <3> QED
      BY <1>4, <3>3, <3>6, <3>7, <3>8, <3>9
  <2> QED
    BY <2>1, <2>2 DEF AttemptsNumbered
<1>13. (Granted /\ NeverOvercounted /\ MilestoneOnce /\ IsFiniteSet(Scored))'
  BY <1>1, <1>7 DEF IInv, Granted, NeverOvercounted, MilestoneOnce
<1> QED
  BY <1>10, <1>11, <1>12, <1>13 DEF IInv

-----------------------------------------------------------------------------
(* The other steps of the participant's requests. *)

\* A request begins with what it is asked for and with the membership row.
LEMMA BeginKeeps ==
  ASSUME AttemptsAssumption, IInv, NEW r \in Requests, Begin(r)
  PROVE  IInv'
<1>1. PICK o \in Operations : op' = [op EXCEPT ![r] = o]
  BY DEF Begin
<1>2. /\ stage[r] = "idle" /\ stage' = [stage EXCEPT ![r] = "begun"]
      /\ snap' = [snap EXCEPT ![r] = [member |-> member]]
      /\ UNCHANGED <<setup, attempts, member, unlocked, now, holder, granted>>
  BY DEF Begin, stored
<1>3. /\ o.kind \in {"start", "submit", "save"} \cup AdminKinds /\ o.on \in Deliveries
      /\ o.kind \in {"submit", "save"} => o.number \in Used(o.on)
      /\ o.kind = "save" => o.answer \in Answers
      /\ o.kind = "update" => o.to \in Settings
  <2>1. CASE o \in [kind : {"start", "extend", "retake", "stop"}, on : Deliveries]
    BY <2>1 DEF AdminKinds
  <2>2. CASE o \in [kind : {"update"}, on : Deliveries, to : Settings]
    BY <2>2 DEF AdminKinds
  <2>3. CASE o \in UNION {[kind : {"submit"}, on : {d}, number : Used(d)] : d \in Deliveries}
    <3>1. PICK d \in Deliveries : o \in [kind : {"submit"}, on : {d}, number : Used(d)]
      BY <2>3
    <3> QED
      BY <3>1
  <2>4. CASE o \in UNION {[kind : {"save"}, on : {d}, number : Used(d), answer : Answers] :
                          d \in Deliveries}
    <3>1. PICK d \in Deliveries : o \in [kind : {"save"}, on : {d}, number : Used(d), answer : Answers]
      BY <2>4
    <3> QED
      BY <3>1
  <2> QED
    BY <2>1, <2>2, <2>3, <2>4 DEF Operations
<1>4. o # Idle
  BY <1>3 DEF Idle, AdminKinds
<1>5. /\ DOMAIN op' = Requests /\ DOMAIN snap' = Requests
      /\ \A q \in Requests \ {r} : Same(q)
      /\ op'[r] = o /\ stage'[r] = "begun" /\ snap'[r] = [member |-> member]
      /\ stage' \in [Requests -> Places]
      /\ \A q \in Requests : stage'[q] = "idle" <=> op'[q] = Idle
  BY <1>1, <1>2, <1>4 DEF IInv, TypeOK, Slots, Same, Places
<1>6. Onward /\ granted' \in [Deliveries -> Numbers] /\ Scored' = Scored
  <2>1. \A d \in Deliveries : granted[d] <= granted'[d]
    BY <1>2 DEF IInv, TypeOK, Numbers
  <2> QED
    BY <1>2, <2>1, OnwardUnchanged DEF IInv, TypeOK, Scored
<1>7. Request(r)'
  <2>1. Asked(r)'
    <3>1. o.kind \in {"submit", "save"} =>
            o.number \in Numbers /\ attempts[o.on][o.number].status # "absent"
      BY <1>3, UsedIs
    <3> QED
      BY <1>2, <1>3, <1>5, <3>1 DEF Asked
  <2>2. Counting(r)'
    <3>1. member \in Counts /\ member.tests <= Cardinality(Scored)
      BY DEF IInv, TypeOK, NeverOvercounted, Counts
    <3> QED
      BY <1>5, <1>6, <3>1 DEF Counting, Submits
  <2> QED
    BY <1>5, <2>1, <2>2 DEF Request, Starting, Starts, Locking, Reading
<1>8. Slots'
  BY <1>2, <1>5, <1>6, <1>7, SlotsKept DEF IInv
<1>9. TypeOK'
  BY <1>2, <1>5 DEF IInv, TypeOK, Places
<1>10. (Granted /\ AttemptsNumbered /\ NeverOvercounted /\ MilestoneOnce /\ IsFiniteSet(Scored))'
  BY <1>2, <1>6 DEF IInv, Granted, AttemptsNumbered, NeverOvercounted, MilestoneOnce, Used
<1> QED
  BY <1>8, <1>9, <1>10 DEF IInv

\* What is read is a row in progress, so that the counts read before leave room for it.
LEMMA ReadAttemptKeeps ==
  ASSUME AttemptsAssumption, IInv, NEW r \in Requests, ReadAttempt(r)
  PROVE  IInv'
<1> DEFINE row == Attempt(r)
           m == snap[r].member
           t == m.tests
<1>1. stage[r] = "begun" /\ Reads /\ Request(r) /\ op[r].kind \in {"save", "submit"}
  BY DEF ReadAttempt, IInv, Slots
<1>2. op[r].on \in Deliveries /\ op[r].number \in Numbers /\ row \in Row
  <2>1. op[r].on \in Deliveries /\ op[r].number \in Numbers
    BY <1>1 DEF Request, Asked
  <2> QED
    BY <2>1 DEF IInv, TypeOK, Attempt
<1>3. CASE Leave(r)
  BY <1>1, <1>3, ReadKeeps
<1>4. CASE op[r].kind = "save" /\ Reach(r, "read", [row |-> row])
  <2>1. "read" \in Places \ {"idle"}
    BY DEF Places
  <2>2. op'[r] = op[r] /\ stage'[r] = "read" /\ snap'[r] = [row |-> row] /\ op' = op
    BY <1>1, <1>4, <2>1, ReachSlot DEF IInv, Reach
  <2>3. Asked(r)'
    BY <1>1, <2>2, ReadsSame DEF Request
  <2> HIDE DEF row
  <2>4. Starting(r)' /\ Counting(r)' /\ Locking(r)' /\ Reading(r)'
    BY <1>2, <1>4, <2>2 DEF Starting, Starts, Counting, Locking, Reading, AdminKinds
  <2> QED
    BY <1>1, <1>4, <2>1, <2>3, <2>4, ReadKeeps DEF Request
<1>5. CASE /\ op[r].kind = "submit" /\ row.status = "in_progress"
           /\ Reach(r, "read", [row |-> row, member |-> snap[r].member])
  <2>1. "read" \in Places \ {"idle"}
    BY DEF Places
  <2>2. /\ op'[r] = op[r] /\ stage'[r] = "read" /\ op' = op
        /\ snap'[r] = [row |-> row, member |-> m]
    BY <1>1, <1>5, <2>1, ReachSlot DEF IInv, Reach
  <2>3. Asked(r)' /\ Scored' = Scored /\ Aim(r)' = Aim(r)
    BY <1>1, <2>2, ReadsSame DEF Request
  <2>4. Aim(r) \notin Scored
    BY <1>2, <1>5, ScoredIs DEF Aim, Attempt
  <2>5. m \in Counts /\ t \in Nat /\ t <= Cardinality(Scored) /\ Cardinality(Scored) \in Nat
    BY <1>1, FS_CardinalityType DEF IInv, Request, Counting, Counts
  <2>6. t + 1 <= Cardinality(Scored \cup {Aim(r)})
    <3>1. Cardinality(Scored \cup {Aim(r)}) = Cardinality(Scored) + 1
      BY <2>4, FS_AddElement DEF IInv
    <3> QED
      BY <2>5, <3>1
  <2> HIDE DEF row, m
  <2>7. snap'[r].row = row /\ snap'[r].member = m
    BY <2>2
  <2>8. Counting(r)'
    BY <1>2, <2>2, <2>3, <2>5, <2>6, <2>7 DEF Counting, Submits
  <2>9. Starting(r)' /\ Locking(r)' /\ Reading(r)'
    BY <1>5, <2>2 DEF Starting, Starts, Locking, Reading, AdminKinds
  <2>10. Request(r)'
    BY <2>3, <2>8, <2>9 DEF Request
  <2> QED
    BY <1>1, <1>5, <2>1, <2>10, ReadKeeps DEF m
<1> QED
  BY <1>3, <1>4, <1>5 DEF ReadAttempt

\* A request that leaves, and changes no status, granted nothing and counted nothing.
LEMMA StatusesStay ==
  ASSUME AttemptsAssumption, IInv, NEW r \in Requests, Leave(r),
         attempts' \in [Deliveries -> [Numbers -> Row]],
         \A e \in Deliveries, m \in Numbers : attempts'[e][m].status = attempts[e][m].status,
         UNCHANGED <<setup, member, unlocked, now, holder, granted>>
  PROVE  IInv'
<1>1. Scored' = Scored
  BY ScoredSame DEF IInv
<1>2. \A e \in Deliveries : Used(e)' = Used(e)
  BY DEF Used
<1>3. Onward /\ granted' \in [Deliveries -> Numbers]
  BY <1>1 DEF IInv, TypeOK, Onward, Numbers
<1>4. /\ DOMAIN op' = Requests /\ DOMAIN snap' = Requests
      /\ \A q \in Requests \ {r} : Same(q)
      /\ stage'[r] = "idle" /\ stage' \in [Requests -> Places]
      /\ \A q \in Requests : stage'[q] = "idle" <=> op'[q] = Idle
  BY LeaveSlot DEF IInv
<1>5. Slots'
  BY <1>3, <1>4, SlotsKept DEF IInv
<1>6. TypeOK'
  BY <1>4 DEF IInv, TypeOK, Places
<1>7. (Granted /\ AttemptsNumbered /\ NeverOvercounted /\ MilestoneOnce /\ IsFiniteSet(Scored))'
  BY <1>1, <1>2 DEF IInv, Granted, AttemptsNumbered, NeverOvercounted, MilestoneOnce
<1> QED
  BY <1>5, <1>6, <1>7 DEF IInv

\* A save changes an answer, and nothing else of an attempt.
LEMMA SaveWrites ==
  ASSUME AttemptsAssumption, IInv, NEW r \in Requests, SaveAnswer(r)
  PROVE  /\ attempts' \in [Deliveries -> [Numbers -> Row]]
         /\ \A e \in Deliveries, m \in Numbers :
              /\ attempts'[e][m].status = attempts[e][m].status
              /\ attempts'[e][m].stars = attempts[e][m].stars
              /\ attempts'[e][m] = attempts[e][m] \/ (e = op[r].on /\ m = op[r].number)
<1> DEFINE d == op[r].on
           n == op[r].number
           answer == op[r].answer
           row == [attempts[d][n] EXCEPT !.answer = answer]
<1>1. /\ op[r].kind = "save" /\ stage[r] = "read" /\ Leave(r)
      /\ UNCHANGED <<setup, member, unlocked, now, holder, granted, begun>>
      /\ \/ UNCHANGED attempts
         \/ attempts' = [attempts EXCEPT ![d] = [attempts[d] EXCEPT ![n] = row]]
  BY DEF SaveAnswer, At
<1>2. d \in Deliveries /\ n \in Numbers /\ answer \in Answers /\ attempts[d][n] \in Row
  <2>1. Asked(r)
    BY <1>1 DEF IInv, Slots, Request
  <2> QED
    BY <1>1, <2>1 DEF Asked, IInv, TypeOK
<1>3. row \in Row /\ row.status = attempts[d][n].status /\ row.stars = attempts[d][n].stars
  BY <1>2 DEF Row
<1>4. attempts \in [Deliveries -> [Numbers -> Row]]
  BY DEF IInv, TypeOK
<1> HIDE DEF d, n, row
<1>5. /\ attempts' \in [Deliveries -> [Numbers -> Row]]
      /\ \A e \in Deliveries, m \in Numbers :
           /\ attempts'[e][m].status = attempts[e][m].status
           /\ attempts'[e][m].stars = attempts[e][m].stars
           /\ attempts'[e][m] = attempts[e][m] \/ (e = d /\ m = n)
  <2>1. CASE UNCHANGED attempts
    BY <1>4, <2>1
  <2>2. CASE attempts' = [attempts EXCEPT ![d] = [attempts[d] EXCEPT ![n] = row]]
    <3>1. /\ attempts' \in [Deliveries -> [Numbers -> Row]] /\ attempts'[d][n] = row
          /\ \A e \in Deliveries, m \in Numbers :
               e # d \/ m # n => attempts'[e][m] = attempts[e][m]
      BY <1>2, <1>3, <1>4, <2>2, NewRowType
    <3> QED
      BY <1>3, <3>1
  <2> QED
    BY <1>1, <2>1, <2>2
<1> QED
  BY <1>5 DEF d, n

LEMMA SaveAnswerKeeps ==
  ASSUME AttemptsAssumption, IInv, NEW r \in Requests, SaveAnswer(r)
  PROVE  IInv'
<1>1. Leave(r) /\ UNCHANGED <<setup, member, unlocked, now, holder, granted>>
  BY DEF SaveAnswer
<1> QED
  BY <1>1, SaveWrites, StatusesStay

\* The flush takes the lock of the membership row.
LEMMA FlushKeeps ==
  ASSUME AttemptsAssumption, IInv, NEW r \in Requests, Flush(r)
  PROVE  IInv'
<1>1. /\ op[r].kind = "submit" /\ stage[r] = "read" /\ holder = Nobody /\ holder' = r
      /\ Reach(r, "flushed", snap[r])
      /\ UNCHANGED <<setup, attempts, member, unlocked, now, granted>>
  BY DEF Flush, At, stored
<1>2. "flushed" \in Places \ {"idle"}
  BY DEF Places
<1>3. /\ DOMAIN op' = Requests /\ DOMAIN snap' = Requests
      /\ \A q \in Requests \ {r} : Same(q)
      /\ op' = op /\ stage'[r] = "flushed" /\ snap'[r] = snap[r]
      /\ stage' \in [Requests -> Places]
      /\ \A q \in Requests : stage'[q] = "idle" <=> op'[q] = Idle
  BY <1>1, <1>2, ReachSlot DEF IInv, Reach
<1>4. Onward /\ granted' \in [Deliveries -> Numbers] /\ Scored' = Scored
  <2>1. \A d \in Deliveries : granted[d] <= granted'[d]
    BY <1>1 DEF IInv, TypeOK, Numbers
  <2> QED
    BY <1>1, <2>1, OnwardUnchanged DEF IInv, TypeOK, Scored
<1>5. \A q \in Requests : stage[q] \notin {"flushed", "unlocked"}
  <2>1. ASSUME NEW q \in Requests, stage[q] \in {"flushed", "unlocked"} PROVE FALSE
    <3>1. holder = q
      BY <2>1 DEF IInv, Slots, Request, Locking
    <3> QED
      BY <1>1, <3>1 DEF AttemptsAssumption
  <2> QED
    BY <2>1
<1>6. Request(r)'
  <2>1. Request(r)
    BY <1>1 DEF IInv, Slots
  <2>2. Asked(r)' /\ Aim(r)' = Aim(r)
    BY <1>1, <1>3, <2>1 DEF Request, Asked, Aim
  <2>3. Counting(r)'
    BY <1>1, <1>3, <1>4, <2>1, <2>2 DEF Request, Counting, Submits
  <2>4. Starting(r)' /\ Locking(r)' /\ Reading(r)'
    BY <1>1, <1>3 DEF Starting, Starts, Locking, Reading
  <2> QED
    BY <2>2, <2>3, <2>4 DEF Request
<1>7. Slots'
  BY <1>3, <1>4, <1>5, <1>6, SlotsKept DEF IInv
<1>8. TypeOK'
  BY <1>1, <1>3 DEF IInv, TypeOK, Places
<1>9. (Granted /\ AttemptsNumbered /\ NeverOvercounted /\ MilestoneOnce /\ IsFiniteSet(Scored))'
  BY <1>1, <1>4 DEF IInv, Granted, AttemptsNumbered, NeverOvercounted, MilestoneOnce, Used
<1> QED
  BY <1>7, <1>8, <1>9 DEF IInv

\* What it finds of the milestone stays so while it holds the lock.
LEMMA UnlockKeeps ==
  ASSUME AttemptsAssumption, IInv, NEW r \in Requests, Unlock(r)
  PROVE  IInv'
<1> DEFINE first == unlocked = 0 /\ snap[r].member.tests + 1 >= Goal
           read  == [row |-> snap[r].row, member |-> snap[r].member, unlock |-> first]
<1>1. op[r].kind = "submit" /\ stage[r] = "flushed" /\ Reach(r, "unlocked", read) /\ Reads
  BY DEF Unlock, At
<1>2. "unlocked" \in Places \ {"idle"}
  BY DEF Places
<1>3. op' = op /\ stage'[r] = "unlocked" /\ snap'[r] = read
  BY <1>1, <1>2, ReachSlot DEF IInv, Reach
<1>4. /\ snap'[r].row = snap[r].row /\ snap'[r].member = snap[r].member
      /\ snap'[r].unlock \in BOOLEAN /\ (snap'[r].unlock => unlocked = 0)
  <2>1. first \in BOOLEAN /\ (first => unlocked = 0)
    OBVIOUS
  <2> HIDE DEF first
  <2>2. read.row = snap[r].row /\ read.member = snap[r].member /\ read.unlock = first
    OBVIOUS
  <2> HIDE DEF read
  <2> QED
    BY <1>3, <2>1, <2>2
<1> HIDE DEF read, first
<1>5. Request(r)
  BY <1>1 DEF IInv, Slots
<1>6. /\ attempts' = attempts /\ holder' = holder /\ unlocked' = unlocked
      /\ Scored' = Scored /\ Aim(r)' = Aim(r) /\ Asked(r)'
  BY <1>1, <1>3, <1>5, ReadsSame DEF Request
<1>7. Counting(r)'
  BY <1>1, <1>3, <1>4, <1>5, <1>6 DEF Request, Counting, Submits
<1>8. Starting(r)' /\ Locking(r)' /\ Reading(r)'
  BY <1>1, <1>3, <1>4, <1>5, <1>6 DEF Request, Starting, Starts, Locking, Reading
<1>9. Request(r)'
  BY <1>6, <1>7, <1>8 DEF Request
<1> QED
  BY <1>1, <1>2, <1>9, ReadKeeps

\* The stars of a score.
LEMMA StarsAre == \A percent \in 0 .. 100 : Stars(percent) \in 1 .. 5
BY DEF Stars

\* The commit scores one attempt, by the answers that were read.
LEMMA CommitWrites ==
  ASSUME AttemptsAssumption, IInv, NEW r \in Requests, Commit(r)
  PROVE  LET d == op[r].on
             n == op[r].number
             answer == snap[r].row.answer
         IN  /\ attempts' \in [Deliveries -> [Numbers -> Row]]
             /\ d \in Deliveries /\ n \in Numbers /\ Stars(Score[answer]) \in 1 .. 5
             /\ attempts[d][n].status # "absent" /\ attempts'[d][n].status = "scored"
             /\ attempts'[d][n].answer = attempts[d][n].answer
             /\ attempts'[d][n].graded = answer /\ attempts'[d][n].stars = Stars(Score[answer])
             /\ \A e \in Deliveries, k \in Numbers :
                  e # d \/ k # n => attempts'[e][k] = attempts[e][k]
             /\ Scored' = Scored \cup {<<d, n>>}
<1> DEFINE d == op[r].on
           n == op[r].number
           answer == snap[r].row.answer
           stars == Stars(Score[answer])
           row == [attempts[d][n] EXCEPT !.status = "scored", !.graded = answer, !.stars = stars]
<1>1. /\ op[r].kind = "submit" /\ stage[r] = "unlocked" /\ Leave(r)
      /\ attempts' = [attempts EXCEPT ![d] = [attempts[d] EXCEPT ![n] = row]]
  BY DEF Commit, At
<1>2. Request(r)
  BY <1>1 DEF IInv, Slots
<1>3. /\ d \in Deliveries /\ n \in Numbers /\ attempts[d][n] \in Row
      /\ attempts[d][n].status # "absent"
  <2>1. Asked(r)
    BY <1>2 DEF Request
  <2> QED
    BY <1>1, <2>1 DEF Asked, IInv, TypeOK
<1>4. snap[r].row \in Row
  BY <1>1, <1>2 DEF Request, Counting, Submits
<1>5. answer \in Answers \cup {NoAnswer} /\ stars \in 1 .. 5
  <2>1. answer \in Answers \cup {NoAnswer}
    BY <1>4 DEF Row
  <2>2. Score[answer] \in 0 .. 100
    BY <2>1 DEF AttemptsAssumption
  <2> QED
    BY <2>1, <2>2, StarsAre
<1> HIDE DEF answer, stars
<1>6. /\ row \in Row /\ row.status = "scored" /\ row.answer = attempts[d][n].answer
      /\ row.graded = answer /\ row.stars = stars
  <2> DEFINE now1 == [attempts[d][n] EXCEPT !.status = "scored"]
             now2 == [now1 EXCEPT !.graded = answer]
  <2>1. now1 \in Row /\ now1.status = "scored" /\ now1.answer = attempts[d][n].answer
    BY <1>3 DEF Row
  <2>2. row = [now2 EXCEPT !.stars = stars]
    OBVIOUS
  <2> HIDE DEF now1, row
  <2>3. /\ now2 \in Row /\ now2.status = "scored" /\ now2.answer = attempts[d][n].answer
        /\ now2.graded = answer
    BY <1>5, <2>1 DEF Row
  <2> HIDE DEF now2, d, n
  <2> QED
    BY <1>5, <2>2, <2>3 DEF Row
<1>7. attempts \in [Deliveries -> [Numbers -> Row]]
  BY DEF IInv, TypeOK
<1> HIDE DEF d, n, row
<1>8. /\ attempts' \in [Deliveries -> [Numbers -> Row]] /\ attempts'[d][n] = row
      /\ \A e \in Deliveries, k \in Numbers :
           e # d \/ k # n => attempts'[e][k] = attempts[e][k]
  BY <1>1, <1>3, <1>6, <1>7, NewRowType
<1>9. Scored' = Scored \cup {<<d, n>>}
  <2>1. \A e \in Deliveries, k \in Numbers :
          attempts'[e][k].status = "scored" <=>
            (attempts[e][k].status = "scored" \/ (e = d /\ k = n))
    BY <1>6, <1>8
  <2>2. ASSUME NEW a \in Deliveries \X Numbers
        PROVE  a \in Scored' <=> a \in Scored \cup {<<d, n>>}
    <3>1. PICK e \in Deliveries, k \in Numbers : a = <<e, k>>
      OBVIOUS
    <3>2. a[1] = e /\ a[2] = k /\ (a = <<d, n>> <=> (e = d /\ k = n))
      BY <3>1
    <3>3. (a \in Scored <=> attempts[e][k].status = "scored")
          /\ (a \in Scored' <=> attempts'[e][k].status = "scored")
      BY <3>2 DEF Scored
    <3> QED
      BY <2>1, <3>2, <3>3
  <2>3. Scored \subseteq Deliveries \X Numbers /\ Scored' \subseteq Deliveries \X Numbers
        /\ <<d, n>> \in Deliveries \X Numbers
    BY <1>3 DEF Scored
  <2> QED
    BY <2>2, <2>3
<1> QED
  BY <1>3, <1>5, <1>6, <1>8, <1>9 DEF d, n, answer, stars

\* The commit counts what was read and one attempt more, which is scored from now on.
LEMMA CommitKeeps ==
  ASSUME AttemptsAssumption, IInv, NEW r \in Requests, Commit(r)
  PROVE  IInv'
<1> DEFINE d == op[r].on
           n == op[r].number
           stars == Stars(Score[snap[r].row.answer])
           m == snap[r].member
<1>1. /\ op[r].kind = "submit" /\ stage[r] = "unlocked" /\ Leave(r)
      /\ member' = [stars |-> m.stars + stars, tests |-> m.tests + 1]
      /\ unlocked' = IF snap[r].unlock THEN unlocked + 1 ELSE unlocked
      /\ UNCHANGED <<setup, now, granted>> /\ holder' = Nobody
  BY DEF Commit, At
<1>2. Request(r)
  BY <1>1 DEF IInv, Slots
<1>3. m \in Counts /\ m.tests + 1 <= Cardinality(Scored \cup {<<d, n>>})
  BY <1>1, <1>2 DEF Request, Counting, Submits, Aim
<1>4. /\ attempts' \in [Deliveries -> [Numbers -> Row]]
      /\ d \in Deliveries /\ n \in Numbers /\ stars \in 1 .. 5
      /\ attempts[d][n].status # "absent" /\ attempts'[d][n].status = "scored"
      /\ \A e \in Deliveries, k \in Numbers :
           e # d \/ k # n => attempts'[e][k] = attempts[e][k]
      /\ Scored' = Scored \cup {<<d, n>>}
  BY CommitWrites
<1> HIDE DEF d, n, m, stars
<1>5. IsFiniteSet(Scored') /\ m.tests + 1 <= Cardinality(Scored')
  BY <1>3, <1>4, FS_AddElement DEF IInv
<1>6. \A e \in Deliveries : Used(e)' = Used(e)
  <2>1. \A e \in Deliveries, k \in Numbers :
          attempts'[e][k].status # "absent" <=> attempts[e][k].status # "absent"
    BY <1>4
  <2> QED
    BY <2>1 DEF Used
<1>7. Onward /\ granted' \in [Deliveries -> Numbers]
  <2>1. \A e \in Deliveries, k \in Numbers :
          attempts[e][k].status # "absent" => attempts'[e][k].status # "absent"
    BY <1>4
  <2>2. granted' \in [Deliveries -> Numbers] /\ \A e \in Deliveries : granted[e] <= granted'[e]
    BY <1>1 DEF IInv, TypeOK, Numbers
  <2> QED
    BY <1>4, <1>5, <2>1, <2>2 DEF Onward
<1>8. /\ DOMAIN op' = Requests /\ DOMAIN snap' = Requests
      /\ \A q \in Requests \ {r} : Same(q)
      /\ stage'[r] = "idle" /\ stage' \in [Requests -> Places]
      /\ \A q \in Requests : stage'[q] = "idle" <=> op'[q] = Idle
  BY <1>1, LeaveSlot DEF IInv
<1>9. Slots'
  <2>1. \A q \in Requests \ {r} : stage[q] \notin {"flushed", "unlocked"}
    <3>1. holder = r
      BY <1>1, <1>2 DEF Request, Locking
    <3>2. \A q \in Requests : stage[q] \in {"flushed", "unlocked"} => holder = q
      BY DEF IInv, Slots, Request, Locking
    <3> QED
      BY <3>1, <3>2
  <2> QED
    BY <1>7, <1>8, <2>1, SlotsKept DEF IInv
<1>10. member' \in Counts /\ member'.tests = m.tests + 1
  BY <1>1, <1>3, <1>4 DEF Counts
<1>11. unlocked' \in Nat /\ unlocked' <= 1
  <2>1. snap[r].unlock => unlocked = 0
    BY <1>1, <1>2 DEF Request, Locking
  <2> QED
    BY <1>1, <2>1 DEF IInv, TypeOK, MilestoneOnce
<1>12. TypeOK'
  BY <1>1, <1>4, <1>7, <1>8, <1>10, <1>11 DEF IInv, TypeOK, Places, Counts
<1>13. (Granted /\ AttemptsNumbered)'
  BY <1>1, <1>6 DEF IInv, Granted, AttemptsNumbered
<1>14. (NeverOvercounted /\ MilestoneOnce)'
  BY <1>5, <1>10, <1>11 DEF NeverOvercounted, MilestoneOnce
<1> QED
  BY <1>5, <1>9, <1>12, <1>13, <1>14 DEF IInv

-----------------------------------------------------------------------------
(* The requests of administrators. *)

\* The rows of an extension are in progress and can expire.
LEMMA AdminReadKeeps ==
  ASSUME AttemptsAssumption, IInv, NEW r \in Requests, AdminRead(r)
  PROVE  IInv'
<1> DEFINE d == op[r].on
           rows == {n \in InProgress(d) : attempts[d][n].expires # NoTime}
           until == [n \in Numbers |-> attempts[d][n].expires]
           read == [setup |-> setup[d], rows |-> rows, until |-> until]
<1>1. op[r].kind \in AdminKinds /\ stage[r] = "begun" /\ Reach(r, "read", read) /\ Reads
  BY DEF AdminRead
<1>2. d \in Deliveries /\ Request(r)
  BY <1>1 DEF IInv, Slots, Request, Asked
<1>3. setup[d] \in Setting /\ attempts[d] \in [Numbers -> Row]
  BY <1>2 DEF IInv, TypeOK
<1>4. "read" \in Places \ {"idle"}
  BY DEF Places
<1>5. op' = op /\ stage'[r] = "read" /\ snap'[r] = read
  BY <1>1, <1>4, ReachSlot DEF IInv, Reach
<1>6. /\ rows \subseteq Numbers /\ until \in [Numbers -> Times]
      /\ \A n \in rows : until[n] # NoTime /\ n \in Used(d)
  <2>1. \A n \in Numbers : attempts[d][n].expires \in Times
    BY <1>3 DEF Row, Times
  <2> QED
    BY <2>1 DEF InProgress, Used
<1>7. read.setup = setup[d] /\ read.rows = rows /\ read.until = until
  OBVIOUS
<1>8. Asked(r)' /\ Used(d)' = Used(d)
  BY <1>1, <1>2, <1>5, ReadsSame DEF Request
<1>9. op[r].kind \notin {"start", "submit", "save"}
  BY <1>1 DEF AdminKinds
<1> HIDE DEF d, rows, until, read
<1>10. Reading(r)'
  <2>1. op'[r].on = d
    BY <1>5 DEF d
  <2>2. Used(op[r].on)' = Used(d)
    BY <1>8 DEF d
  <2> QED
    BY <1>3, <1>5, <1>6, <1>7, <1>9, <2>1, <2>2 DEF Reading
<1>11. Starting(r)' /\ Counting(r)' /\ Locking(r)'
  BY <1>5, <1>9 DEF Starting, Starts, Counting, Locking
<1>12. Request(r)'
  BY <1>8, <1>10, <1>11 DEF Request
<1> QED
  BY <1>1, <1>4, <1>12, ReadKeeps

\* Columns written one by one make a setting.
LEMMA MergedSetting ==
  ASSUME NEW current \in Setting, NEW loaded \in Setting, NEW new \in Setting
  PROVE  [c \in DOMAIN loaded |-> Merged(current[c], loaded[c], new[c])] \in Setting
<1> DEFINE columns == {"from", "until", "allowed", "duration"}
           merged == [c \in DOMAIN loaded |-> Merged(current[c], loaded[c], new[c])]
<1>1. DOMAIN loaded = columns
  BY DEF Setting
<1>2. merged = [from |-> merged["from"], until |-> merged["until"],
                allowed |-> merged["allowed"], duration |-> merged["duration"]]
  BY <1>1
<1>3. \A c \in columns : merged[c] \in {current[c], new[c]}
  BY <1>1 DEF Merged
<1>4. /\ merged["from"] \in 0 .. MaxTime /\ merged["until"] \in {NoTime} \cup 0 .. MaxTime
      /\ merged["allowed"] \in Numbers /\ merged["duration"] \in {NoTime} \cup Nat
  BY <1>3 DEF Setting
<1> HIDE DEF merged
<1>5. merged \in Setting
  BY <1>2, <1>4 DEF Setting
<1> QED
  BY <1>5 DEF merged

\* The larger of two numbers.
LEMMA MaxOfTwo ==
  ASSUME NEW a \in Int, NEW b \in Int
  PROVE  Max({a, b}) \in {a, b} /\ a <= Max({a, b}) /\ b <= Max({a, b})
<1>1. \E x \in {a, b} : \A y \in {a, b} : x >= y
  OBVIOUS
<1>2. Max({a, b}) \in {a, b} /\ \A y \in {a, b} : Max({a, b}) >= y
  BY <1>1 DEF Max
<1> QED
  BY <1>2

\* A change of the setup of a delivery gives a setup.
LEMMA ChangeSetupType ==
  ASSUME TypeOK, NEW r \in Requests, op[r].on \in Deliveries, snap[r].setup \in Setting,
         NEW new \in Setting, ChangeSetup(r, new)
  PROVE  setup' \in [Deliveries -> Setting]
<1> DEFINE merged == [c \in DOMAIN snap[r].setup |->
                       Merged(setup[op[r].on][c], snap[r].setup[c], new[c])]
<1>1. merged \in Setting
  <2>1. setup[op[r].on] \in Setting
    BY DEF TypeOK
  <2> QED
    BY <2>1, MergedSetting
<1>2. setup' = [setup EXCEPT ![op[r].on] = merged]
  BY DEF ChangeSetup
<1> HIDE DEF merged
<1> QED
  BY <1>1, <1>2 DEF TypeOK

\* Of an attempt, only the expiry may change.
OnlyExpires(row, new) ==
  new.status = row.status /\ new.answer = row.answer /\ new.graded = row.graded /\ new.stars = row.stars

\* What each request of an administrator writes.
LEMMA AdministerWrites ==
  ASSUME AttemptsAssumption, IInv, NEW r \in Requests, stage[r] = "read",
         Extend(r) \/ GrantRetake(r) \/ UpdateDelivery(r) \/ StopDelivery(r)
  PROVE  /\ setup' \in [Deliveries -> Setting]
         /\ attempts' \in [Deliveries -> [Numbers -> Row]]
         /\ \A e \in Deliveries, m \in Numbers : OnlyExpires(attempts[e][m], attempts'[e][m])
<1> DEFINE d == op[r].on
           old == snap[r].setup
<1>1. Request(r)
  BY DEF IInv, Slots
<1>2. /\ setup \in [Deliveries -> Setting] /\ attempts \in [Deliveries -> [Numbers -> Row]]
      /\ now \in 0 .. MaxTime
  BY DEF IInv, TypeOK
<1>3. op[r].kind \in AdminKinds
  BY DEF Extend, GrantRetake, UpdateDelivery, StopDelivery, At, AdminKinds
<1>4. d \in Deliveries /\ old \in Setting
  BY <1>1, <1>3 DEF Request, Asked, Reading
<1>5. CASE GrantRetake(r) \/ UpdateDelivery(r) \/ StopDelivery(r)
  <2>1. PICK new \in Setting : ChangeSetup(r, new)
    <3>1. CASE GrantRetake(r)
      <4>1. old.allowed + 1 \in Numbers
        BY <1>4, <3>1 DEF GrantRetake, Setting, Numbers, AttemptsAssumption
      <4>2. [old EXCEPT !.allowed = old.allowed + 1] \in Setting
        BY <1>4, <4>1 DEF Setting
      <4> QED
        BY <3>1, <4>2 DEF GrantRetake
    <3>2. CASE UpdateDelivery(r)
      BY <1>1, <3>2 DEF UpdateDelivery, At, Request, Asked, AttemptsAssumption
    <3>3. CASE StopDelivery(r)
      <4>1. [old EXCEPT !.until = now] \in Setting
        BY <1>2, <1>4 DEF Setting
      <4> QED
        BY <3>3, <4>1 DEF StopDelivery
    <3> QED
      BY <1>5, <3>1, <3>2, <3>3
  <2>2. UNCHANGED attempts
    BY <1>5 DEF GrantRetake, UpdateDelivery, StopDelivery
  <2>3. setup' \in [Deliveries -> Setting]
    BY <1>4, <2>1, ChangeSetupType DEF IInv
  <2> QED
    BY <1>2, <2>2, <2>3 DEF OnlyExpires
<1>6. CASE Extend(r)
  <2> DEFINE until == snap[r].until
             Longer(n) == [attempts[d][n] EXCEPT !.expires = until[n] + Extra]
             rows == [n \in Numbers |-> IF n \in snap[r].rows THEN Longer(n) ELSE attempts[d][n]]
  <2>1. UNCHANGED setup /\ attempts' = [attempts EXCEPT ![d] = rows]
    BY <1>6 DEF Extend
  <2>2. \A n \in snap[r].rows : n \in Numbers /\ until[n] + Extra \in Nat
    <3>1. ASSUME NEW n \in snap[r].rows PROVE n \in Numbers /\ until[n] \in Nat
      BY <1>1, <1>3 DEF Request, Reading, Times
    <3> QED
      BY <3>1 DEF AttemptsAssumption
  <2>3. ASSUME NEW n \in Numbers
        PROVE  rows[n] \in Row /\ OnlyExpires(attempts[d][n], rows[n])
    <3>1. attempts[d][n] \in Row
      BY <1>2, <1>4
    <3> DEFINE x == until[n] + Extra
    <3>2. x \in Nat => Longer(n) \in Row /\ OnlyExpires(attempts[d][n], Longer(n))
      <4> HIDE DEF x, d
      <4>1. ASSUME x \in Nat, NEW row \in Row
            PROVE  [row EXCEPT !.expires = x] \in Row /\ OnlyExpires(row, [row EXCEPT !.expires = x])
        BY <4>1 DEF Row, OnlyExpires
      <4>2. Longer(n) = [attempts[d][n] EXCEPT !.expires = x]
        BY DEF x
      <4> QED
        BY <3>1, <4>1, <4>2
    <3>3. OnlyExpires(attempts[d][n], attempts[d][n])
      BY DEF OnlyExpires
    <3> QED
      BY <2>2, <3>1, <3>2, <3>3
  <2>4. rows \in [Numbers -> Row]
    BY <2>3
  <2> HIDE DEF rows, d
  <2>5. \A e \in Deliveries, m \in Numbers : e # d => attempts'[e][m] = attempts[e][m]
    BY <1>2, <2>1
  <2>6. \A m \in Numbers : attempts'[d][m] = rows[m]
    BY <1>2, <1>4, <2>1
  <2>7. \A row : OnlyExpires(row, row)
    BY DEF OnlyExpires
  <2> QED
    BY <1>2, <1>4, <2>1, <2>3, <2>4, <2>5, <2>6, <2>7
<1> QED
  BY <1>5, <1>6

\* What they allow is granted, and nothing that was granted is taken back.
LEMMA AdministerKeeps ==
  ASSUME AttemptsAssumption, IInv, NEW r \in Requests, Administer(r)
  PROVE  IInv'
<1>1. /\ Extend(r) \/ GrantRetake(r) \/ UpdateDelivery(r) \/ StopDelivery(r)
      /\ granted' = [d \in Deliveries |-> Max({granted[d], setup'[d].allowed})]
      /\ Leave(r) /\ UNCHANGED <<member, unlocked, now, holder>>
  BY DEF Administer
<1>2. stage[r] = "read"
  BY <1>1 DEF Extend, GrantRetake, UpdateDelivery, StopDelivery, At
<1>3. /\ setup' \in [Deliveries -> Setting]
      /\ attempts' \in [Deliveries -> [Numbers -> Row]]
      /\ \A e \in Deliveries, m \in Numbers : attempts'[e][m].status = attempts[e][m].status
  BY <1>1, <1>2, AdministerWrites DEF OnlyExpires
<1>4. ASSUME NEW d \in Deliveries
      PROVE  /\ granted[d] \in Numbers /\ granted'[d] \in Numbers
             /\ granted[d] <= granted'[d] /\ setup'[d].allowed <= granted'[d]
  <2>1. granted[d] \in Numbers /\ setup'[d].allowed \in Numbers
    BY <1>3 DEF IInv, TypeOK, Setting
  <2>2. granted'[d] = Max({granted[d], setup'[d].allowed})
    BY <1>1
  <2>3. granted[d] \in Int /\ setup'[d].allowed \in Int
    BY <2>1 DEF Numbers
  <2>4. /\ granted'[d] \in {granted[d], setup'[d].allowed}
        /\ granted[d] <= granted'[d] /\ setup'[d].allowed <= granted'[d]
    BY <2>2, <2>3, MaxOfTwo
  <2> QED
    BY <2>1, <2>4
<1>5. granted' \in [Deliveries -> Numbers]
  BY <1>1, <1>4
<1>6. Scored' = Scored
  BY <1>3, ScoredSame DEF IInv
<1>7. \A e \in Deliveries : Used(e)' = Used(e)
  BY <1>3 DEF Used
<1>8. Onward
  BY <1>3, <1>4, <1>6 DEF IInv, Onward
<1>9. /\ DOMAIN op' = Requests /\ DOMAIN snap' = Requests
      /\ \A q \in Requests \ {r} : Same(q)
      /\ stage'[r] = "idle" /\ stage' \in [Requests -> Places]
      /\ \A q \in Requests : stage'[q] = "idle" <=> op'[q] = Idle
  BY <1>1, LeaveSlot DEF IInv
<1>10. Slots'
  BY <1>1, <1>5, <1>8, <1>9, SlotsKept DEF IInv
<1>11. TypeOK'
  BY <1>1, <1>3, <1>5, <1>9 DEF IInv, TypeOK, Places
<1>12. (Granted /\ NeverOvercounted /\ MilestoneOnce /\ IsFiniteSet(Scored))'
  BY <1>1, <1>4, <1>6 DEF IInv, Granted, NeverOvercounted, MilestoneOnce
<1>13. AttemptsNumbered'
  <2>1. ASSUME NEW d \in Deliveries
        PROVE  Used(d)' = 1 .. Cardinality(Used(d)') /\ Cardinality(Used(d)') <= granted'[d]
    <3>1. Used(d) = 1 .. Cardinality(Used(d)) /\ Cardinality(Used(d)) <= granted[d]
      BY DEF IInv, AttemptsNumbered
    <3>2. Cardinality(Used(d)) \in Nat
      BY UsedIs
    <3>3. Used(d)' = Used(d) /\ granted[d] \in Nat /\ granted'[d] \in Nat /\ granted[d] <= granted'[d]
      BY <1>4, <1>7 DEF Numbers
    <3> QED
      BY <3>1, <3>2, <3>3
  <2> QED
    BY <2>1 DEF AttemptsNumbered
<1> QED
  BY <1>10, <1>11, <1>12, <1>13 DEF IInv

-----------------------------------------------------------------------------
(* All requests. *)

\* Time passes: nothing that was read or written changes.
LEMMA TickKeeps ==
  ASSUME AttemptsAssumption, IInv, Tick
  PROVE  IInv'
<1>1. /\ UNCHANGED <<setup, attempts, member, unlocked, op, stage, snap, holder, granted>>
      /\ now' = now + 1 /\ now < MaxTime
  BY DEF Tick, stored
<1>2. now' \in 0 .. MaxTime
  BY <1>1 DEF IInv, TypeOK, AttemptsAssumption
<1>3. TypeOK'
  BY <1>1, <1>2 DEF IInv, TypeOK
<1>4. Scored' = Scored /\ \A d \in Deliveries : Used(d)' = Used(d)
  BY <1>1 DEF Scored, Used
<1>5. ASSUME NEW q \in Requests, Request(q) PROVE Request(q)'
  <2>1. Asked(q)' /\ Locking(q)' /\ op[q].on \in Deliveries
    BY <1>1, <1>5 DEF Request, Asked, Locking
  <2>2. Used(op[q].on)' = Used(op[q].on)
    BY <1>1 DEF Used
  <2>3. Starting(q)' /\ Reading(q)'
    BY <1>1, <1>5, <2>2 DEF Request, Starting, Reading
  <2>4. Aim(q)' = Aim(q)
    BY <1>1 DEF Aim
  <2>5. Counting(q)'
    BY <1>1, <1>4, <1>5, <2>4 DEF Request, Counting
  <2> QED
    BY <2>1, <2>3, <2>5 DEF Request
<1>6. Slots'
  BY <1>1, <1>5 DEF IInv, Slots
<1>7. (Granted /\ AttemptsNumbered /\ NeverOvercounted /\ MilestoneOnce /\ IsFiniteSet(Scored))'
  BY <1>1, <1>4 DEF IInv, Granted, AttemptsNumbered, NeverOvercounted, MilestoneOnce
<1> QED
  BY <1>3, <1>6, <1>7 DEF IInv

LEMMA InitKeeps == ASSUME AttemptsAssumption, Init PROVE IInv
<1>1. \A d \in Deliveries : setup[d] \in Setting /\ granted[d] = setup[d].allowed
  BY DEF Init, AttemptsAssumption
<1>2. Absent \in Row /\ Absent.status = "absent"
  BY DEF Absent, Row, Times
<1>3. \A d \in Deliveries, n \in Numbers : attempts[d][n] = Absent
  BY DEF Init
<1>4. Scored = {}
  BY <1>2, <1>3 DEF Scored
<1>5. \A d \in Deliveries : Used(d) = {}
  BY <1>2, <1>3 DEF Used
<1>6. TypeOK
  <2>1. setup \in [Deliveries -> Setting]
    BY DEF Init, AttemptsAssumption
  <2>2. granted \in [Deliveries -> Numbers]
    BY <1>1 DEF Init, Setting
  <2>3. attempts \in [Deliveries -> [Numbers -> Row]]
    BY <1>2 DEF Init
  <2>4. member \in [stars : Nat, tests : Nat] /\ unlocked \in Nat /\ now \in 0 .. MaxTime
    BY DEF Init, AttemptsAssumption
  <2>5. /\ stage \in [Requests -> Places] /\ holder \in Requests \cup {Nobody}
        /\ \A r \in Requests : stage[r] = "idle" <=> op[r] = Idle
    BY DEF Init, Places
  <2> QED
    BY <2>1, <2>2, <2>3, <2>4, <2>5 DEF TypeOK, Places
<1>7. Slots
  BY DEF Init, Slots
<1>8. Granted
  BY <1>1, <1>6 DEF Granted, TypeOK, Numbers
<1>9. AttemptsNumbered
  <2>1. \A d \in Deliveries : granted[d] \in Numbers
    BY <1>6 DEF TypeOK
  <2> QED
    BY <1>5, <2>1, FS_EmptySet DEF AttemptsNumbered, Numbers
<1>10. NeverOvercounted /\ MilestoneOnce /\ IsFiniteSet(Scored)
  BY <1>4, FS_EmptySet DEF Init, NeverOvercounted, MilestoneOnce
<1> QED
  BY <1>6, <1>7, <1>8, <1>9, <1>10 DEF IInv

\* Every step of every request keeps the invariant.
LEMMA NextKeeps ==
  ASSUME AttemptsAssumption, IInv, [Next]_vars
  PROVE  IInv'
<1>1. CASE UNCHANGED vars
  <2>1. UNCHANGED <<setup, attempts, member, unlocked, now, op, stage, snap, holder, granted>>
    BY <1>1 DEF vars, stored
  <2>2. Scored' = Scored /\ \A d \in Deliveries : Used(d)' = Used(d)
    BY <2>1 DEF Scored, Used
  <2>3. ASSUME NEW q \in Requests, Request(q) PROVE Request(q)'
    <3>1. Used(op[q].on)' = Used(op[q].on) /\ Aim(q)' = Aim(q)
      BY <2>1 DEF Used, Aim
    <3>2. Asked(q)' /\ Starting(q)' /\ Locking(q)' /\ Reading(q)'
      BY <2>1, <2>3, <3>1 DEF Request, Asked, Starting, Locking, Reading
    <3>3. Counting(q)'
      BY <2>1, <2>2, <2>3, <3>1 DEF Request, Counting
    <3> QED
      BY <3>2, <3>3 DEF Request
  <2>4. Slots'
    BY <2>1, <2>3 DEF IInv, Slots
  <2>5. TypeOK'
    BY <2>1 DEF IInv, TypeOK
  <2>6. (Granted /\ AttemptsNumbered /\ NeverOvercounted /\ MilestoneOnce /\ IsFiniteSet(Scored))'
    BY <2>1, <2>2 DEF IInv, Granted, AttemptsNumbered, NeverOvercounted, MilestoneOnce
  <2> QED
    BY <2>4, <2>5, <2>6 DEF IInv
<1>2. ASSUME NEW r \in Requests, Begin(r) PROVE IInv'
  BY <1>2, BeginKeeps
<1>3. ASSUME NEW r \in Requests, Start(r) PROVE IInv'
  BY <1>3, FindDeliveryKeeps, ResumeKeeps, FindNoneKeeps, CountKeeps, InsertKeeps DEF Start
<1>4. ASSUME NEW r \in Requests, ReadAttempt(r) PROVE IInv'
  BY <1>4, ReadAttemptKeeps
<1>5. ASSUME NEW r \in Requests, SaveAnswer(r) PROVE IInv'
  BY <1>5, SaveAnswerKeeps
<1>6. ASSUME NEW r \in Requests, Submit(r) PROVE IInv'
  BY <1>6, FlushKeeps, UnlockKeeps, CommitKeeps DEF Submit
<1>7. ASSUME NEW r \in Requests, AdminRead(r) PROVE IInv'
  BY <1>7, AdminReadKeeps
<1>8. ASSUME NEW r \in Requests, Administer(r) PROVE IInv'
  BY <1>8, AdministerKeeps
<1>9. CASE Tick
  BY <1>9, TickKeeps
<1> QED
  BY <1>1, <1>2, <1>3, <1>4, <1>5, <1>6, <1>7, <1>8, <1>9 DEF Next

\* Whatever the settings and however requests overlap, what a request has read stays true
\* enough for what it writes: the invariant that the theorems below rest on.
THEOREM AlwaysCoherent == ASSUME AttemptsAssumption PROVE Spec => []IInv
<1>1. Init => IInv
  BY InitKeeps
<1>2. IInv /\ [Next]_vars => IInv'
  BY NextKeeps
<1> QED
  BY <1>1, <1>2, PTL DEF Spec

\* Every column holds a value of its domain: no setting that a merge of columns writes, and
\* no expiry that an extension adds to, leaves it.
THEOREM TypeCorrect == ASSUME AttemptsAssumption PROVE Spec => []TypeOK
<1>1. IInv => TypeOK
  BY DEF IInv
<1> QED
  BY <1>1, AlwaysCoherent, PTL

\* start_attempt hands out the attempts 1, 2, 3 ... and never more than were allowed at some
\* time, although overlapping starts count the same attempts: a late insert finds its number
\* taken, and what it counted is at most one behind.
THEOREM AlwaysNumbered == ASSUME AttemptsAssumption PROVE Spec => []AttemptsNumbered
<1>1. IInv => AttemptsNumbered
  BY DEF IInv
<1> QED
  BY <1>1, AlwaysCoherent, PTL

\* tests_completed is never more than the attempts scored, however often a submission is
\* sent: the counts were read before the attempt was seen in progress.
THEOREM NeverCountedTwice == ASSUME AttemptsAssumption PROVE Spec => []NeverOvercounted
<1>1. IInv => NeverOvercounted
  BY DEF IInv
<1> QED
  BY <1>1, AlwaysCoherent, PTL

\* An achievement is unlocked once: between finding it locked and unlocking it, a submission
\* holds the membership row.
THEOREM UnlockedOnce == ASSUME AttemptsAssumption PROVE Spec => []MilestoneOnce
<1>1. IInv => MilestoneOnce
  BY DEF IInv
<1> QED
  BY <1>1, AlwaysCoherent, PTL

-----------------------------------------------------------------------------
(* Sums of stars.  Induction over the size of a set is the choice of a least            *)
(* counterexample, for an induction theorem would take the property as an operator.     *)

StarsOf(rows, a) == rows[a[1]][a[2]].stars
Total(rows, S)   == MapThenSumSet(LAMBDA a : rows[a[1]][a[2]].stars, S)

\* The element that a sum takes next, and the sums over the subsets of S.
Pick(s) == CHOOSE a \in s : TRUE

SumsOf(rows, S) == CHOOSE it : it = [s \in SUBSET S |->
                     IF s = {} THEN 0 ELSE rows[Pick(s)[1]][Pick(s)[2]].stars + it[s \ {Pick(s)}]]

\* Sums of v over the subsets of S, each from that of a smaller one.
Adds(it, v, S) ==
  \A s \in SUBSET S : it[s] = IF s = {} THEN 0 ELSE v[Pick(s)] + it[s \ {Pick(s)}]

\* The library sums in the same order.
LEMMA TotalIs ==
  ASSUME NEW rows, NEW S
  PROVE  Total(rows, S) = SumsOf(rows, S)[S]
BY DEF Total, MapThenSumSet, MapThenFoldSet, SumsOf, Pick

\* The induction over the size of a set, as a set of sizes.
LEMMA Induction ==
  ASSUME NEW T, 0 \in T, \A n \in Nat : n \in T => n + 1 \in T
  PROVE  \A n \in Nat : n \in T
<1> DEFINE Bad == {n \in Nat : n \notin T}
           R == OpToRel(<, Nat)
<1>1. \A x, y \in Nat : x < y => <<x, y>> \in R
  BY DEF OpToRel
<1>2. IsWellFoundedOn(R, Nat)
  BY NatLessThanWellFounded
<1> HIDE DEF R
<1>3. SUFFICES ASSUME Bad # {} PROVE FALSE
  OBVIOUS
<1>4. PICK m \in Bad : \A y \in Bad : ~ (<<y, m>> \in R)
  BY <1>2, <1>3, WFMin
<1>5. m \in Nat /\ m \notin T /\ m # 0
  OBVIOUS
<1>6. m - 1 \in Nat /\ m - 1 \notin T /\ m - 1 < m
  BY <1>5
<1> QED
  BY <1>1, <1>4, <1>5, <1>6

\* A pick leaves one element less.
LEMMA PickLeaves ==
  ASSUME NEW s, IsFiniteSet(s), s # {}
  PROVE  /\ Pick(s) \in s /\ IsFiniteSet(s \ {Pick(s)})
         /\ Cardinality(s) \in Nat /\ Cardinality(s \ {Pick(s)}) \in Nat
         /\ Cardinality(s \ {Pick(s)}) = Cardinality(s) - 1
BY FS_RemoveElement, FS_CardinalityType DEF Pick

\* The sums exist: subset by subset, in the order of their sizes.
LEMMA SumsExist ==
  ASSUME NEW rows, NEW S, IsFiniteSet(S)
  PROVE  Adds(SumsOf(rows, S), [a \in S |-> StarsOf(rows, a)], S)
<1> DEFINE D(n) == {s \in SUBSET S : Cardinality(s) <= n}
           Step(g, s) == IF s = {} THEN 0
                         ELSE rows[Pick(s)[1]][Pick(s)[2]].stars + g[s \ {Pick(s)}]
           T == {n \in Nat : \E g : g = [s \in D(n) |-> Step(g, s)]}
<1>1. \A s \in SUBSET S : /\ IsFiniteSet(s) /\ Cardinality(s) \in Nat
                          /\ Cardinality(s) <= Cardinality(S)
                          /\ Cardinality(s) = 0 <=> s = {}
  BY FS_Subset, FS_CardinalityType, FS_EmptySet
<1>2. 0 \in T
  <2>1. \A g, s : s \in D(0) => Step(g, s) = 0
    BY <1>1
  <2>2. [s \in D(0) |-> 0] = [s \in D(0) |-> Step([u \in D(0) |-> 0], s)]
    BY <2>1
  <2> HIDE DEF Step, D
  <2> QED
    BY <2>2
<1>3. ASSUME NEW n \in Nat, n \in T PROVE n + 1 \in T
  <2>1. PICK g : g = [s \in D(n) |-> Step(g, s)]
    BY <1>3
  <2> DEFINE h == [s \in D(n + 1) |-> Step(g, s)]
  <2>2. ASSUME NEW s \in D(n + 1), s # {} PROVE s \ {Pick(s)} \in D(n) /\ s \ {Pick(s)} \in D(n + 1)
    BY <1>1, <2>2, PickLeaves
  <2>3. D(n) \subseteq D(n + 1)
    BY <1>1
  <2> HIDE DEF D
  <2>4. \A s \in D(n) : h[s] = g[s]
    BY <2>1, <2>3, Zenon
  <2>5. ASSUME NEW s \in D(n + 1) PROVE Step(g, s) = Step(h, s)
    BY <2>2, <2>4
  <2>6. h = [s \in D(n + 1) |-> Step(h, s)]
    <3> HIDE DEF Step
    <3> QED
      BY <2>5, Zenon
  <2>7. \E k : k = [s \in D(n + 1) |-> Step(k, s)]
    <3> HIDE DEF Step, h
    <3> QED
      BY <2>6, Zenon
  <2>8. n + 1 \in Nat
    OBVIOUS
  <2> HIDE DEF Step, D
  <2> QED
    BY <2>7, <2>8, Zenon
<1>4. Cardinality(S) \in Nat /\ Cardinality(S) \in T
  <2>1. Cardinality(S) \in Nat
    BY FS_CardinalityType
  <2> HIDE DEF T
  <2> QED
    BY <1>2, <1>3, <2>1, Induction
<1>5. D(Cardinality(S)) = SUBSET S
  BY <1>1
<1>6. \E it : it = [s \in SUBSET S |-> Step(it, s)]
  BY <1>4, <1>5
<1>7. SumsOf(rows, S) = [s \in SUBSET S |-> Step(SumsOf(rows, S), s)]
  BY <1>6, Zenon DEF SumsOf
<1>8. \A s \in SUBSET S : SumsOf(rows, S)[s] = Step(SumsOf(rows, S), s)
  <2> HIDE DEF Step
  <2> QED
    BY <1>7
<1>9. \A s \in SUBSET S : s # {} =>
        [a \in S |-> StarsOf(rows, a)][Pick(s)] = rows[Pick(s)[1]][Pick(s)[2]].stars
  BY <1>1, PickLeaves DEF StarsOf
<1> QED
  BY <1>8, <1>9 DEF Adds

\* Sums of the same numbers are the same, whatever larger set they are taken in.
LEMMA SumsAgree ==
  ASSUME NEW S, NEW T, NEW v, NEW w, NEW g, NEW h, IsFiniteSet(S), S \subseteq T,
         Adds(g, v, S), Adds(h, w, T), \A a \in S : v[a] = w[a]
  PROVE  \A s \in SUBSET S : g[s] = h[s]
<1> DEFINE N == {n \in Nat : \A s \in SUBSET S : Cardinality(s) = n => g[s] = h[s]}
<1>1. \A s \in SUBSET S : IsFiniteSet(s) /\ Cardinality(s) \in Nat /\ (Cardinality(s) = 0 <=> s = {})
  BY FS_Subset, FS_CardinalityType, FS_EmptySet
<1>2. 0 \in N
  BY <1>1 DEF Adds
<1>3. ASSUME NEW n \in Nat, n \in N PROVE n + 1 \in N
  <2>1. ASSUME NEW s \in SUBSET S, Cardinality(s) = n + 1 PROVE g[s] = h[s]
    <3> DEFINE x == Pick(s)
               u == s \ {x}
    <3>1. s # {}
      BY <1>1, <2>1
    <3>2. x \in s /\ Cardinality(u) = n /\ u \in SUBSET S
      BY <1>1, <2>1, <3>1, PickLeaves
    <3>3. g[u] = h[u] /\ v[x] = w[x]
      BY <1>3, <3>2
    <3>4. g[s] = v[x] + g[u] /\ h[s] = w[x] + h[u]
      BY <3>1 DEF Adds
    <3> QED
      BY <3>3, <3>4
  <2> QED
    BY <2>1
<1>4. \A n \in Nat : n \in N
  <2> HIDE DEF N
  <2> QED
    BY <1>2, <1>3, Induction
<1> QED
  BY <1>1, <1>4

\* A sum takes its elements in any order: x may be the last one.
LEMMA SumsApart ==
  ASSUME NEW S, NEW v, NEW g, IsFiniteSet(S), Adds(g, v, S), \A a \in S : v[a] \in Nat
  PROVE  \A s \in SUBSET S : g[s] \in Nat /\ \A x \in s : g[s] = v[x] + g[s \ {x}]
<1> DEFINE Fine(s) == g[s] \in Nat /\ \A x \in s : g[s] = v[x] + g[s \ {x}]
           N == {n \in Nat : \A s \in SUBSET S : Cardinality(s) <= n => Fine(s)}
<1>1. \A s \in SUBSET S : IsFiniteSet(s) /\ Cardinality(s) \in Nat /\ (Cardinality(s) = 0 <=> s = {})
  BY FS_Subset, FS_CardinalityType, FS_EmptySet
<1>2. 0 \in N
  <2>1. Fine({})
    BY DEF Adds
  <2>2. \A s \in SUBSET S : Cardinality(s) <= 0 => s = {}
    BY <1>1
  <2> HIDE DEF Fine
  <2> QED
    BY <2>1, <2>2
<1>3. ASSUME NEW n \in Nat, n \in N PROVE n + 1 \in N
  <2>1. ASSUME NEW s \in SUBSET S, Cardinality(s) <= n + 1, s # {} PROVE Fine(s)
    <3>1. ASSUME NEW x \in s
          PROVE  s \ {x} \in SUBSET S /\ Cardinality(s \ {x}) <= n /\ Fine(s \ {x}) /\ v[x] \in Nat
      <4>1. s \ {x} \in SUBSET S /\ Cardinality(s \ {x}) <= n /\ v[x] \in Nat
        BY <1>1, <2>1, FS_RemoveElement
      <4> QED
        BY <1>3, <4>1
    <3> DEFINE y == Pick(s)
               u == s \ {y}
    <3>2. y \in s
      BY <2>1 DEF Pick
    <3>3. g[s] = v[y] + g[u]
      BY <2>1 DEF Adds
    <3>4. u \in SUBSET S /\ Cardinality(u) <= n /\ Fine(u) /\ v[y] \in Nat
      BY <3>1, <3>2
    <3>5. ASSUME NEW x \in s, x # y PROVE g[s] = v[x] + g[s \ {x}]
      <4> DEFINE z == s \ {x}
                 both == u \ {x}
      <4>1. y \in z /\ z \ {y} = both /\ x \in u /\ both \in SUBSET S
        BY <3>2, <3>4, <3>5
      <4>2. Fine(z) /\ v[x] \in Nat
        BY <3>1
      <4>3. Fine(both)
        <5>1. Cardinality(both) = Cardinality(u) - 1 /\ Cardinality(both) \in Nat /\ Cardinality(u) \in Nat
          BY <1>1, <3>4, <4>1, FS_RemoveElement
        <5>2. Cardinality(both) <= n
          BY <3>4, <5>1
        <5> HIDE DEF both, u
        <5> QED
          BY <1>3, <4>1, <5>2
      <4>4. g[z] = v[y] + g[both]
        BY <4>1, <4>2
      <4>5. g[u] = v[x] + g[both]
        BY <3>4, <4>1
      <4>6. g[both] \in Nat
        BY <4>3
      <4> HIDE DEF z, both, u, y
      <4>7. g[s] = v[x] + g[z]
        BY <3>3, <3>4, <4>2, <4>4, <4>5, <4>6
      <4> QED
        BY <4>7 DEF z
    <3>6. g[s] \in Nat
      BY <3>3, <3>4
    <3> QED
      BY <3>3, <3>5, <3>6
  <2>2. Fine({})
    BY DEF Adds
  <2> QED
    BY <2>1, <2>2
<1>4. \A n \in Nat : n \in N
  <2> HIDE DEF N
  <2> QED
    BY <1>2, <1>3, Induction
<1> QED
  BY <1>1, <1>4

\* Attempts with the stars they had sum up as they did.
LEMMA TotalSame ==
  ASSUME NEW rows, NEW new, NEW S, IsFiniteSet(S), \A a \in S : StarsOf(new, a) = StarsOf(rows, a)
  PROVE  Total(new, S) = Total(rows, S)
<1> DEFINE v == [a \in S |-> StarsOf(rows, a)]
           w == [a \in S |-> StarsOf(new, a)]
<1>1. Adds(SumsOf(rows, S), v, S) /\ Adds(SumsOf(new, S), w, S) /\ \A a \in S : v[a] = w[a]
  BY SumsExist
<1> HIDE DEF v, w
<1>2. SumsOf(rows, S)[S] = SumsOf(new, S)[S]
  BY <1>1, SumsAgree
<1> QED
  BY <1>2, TotalIs

\* One attempt more adds its stars.
LEMMA TotalMore ==
  ASSUME NEW rows, NEW new, NEW S, IsFiniteSet(S), NEW x, x \notin S, StarsOf(new, x) \in Nat,
         \A a \in S : StarsOf(rows, a) \in Nat /\ StarsOf(new, a) = StarsOf(rows, a)
  PROVE  Total(rows, S) \in Nat /\ Total(new, S \cup {x}) = StarsOf(new, x) + Total(rows, S)
<1> DEFINE T == S \cup {x}
           v == [a \in S |-> StarsOf(rows, a)]
           w == [a \in T |-> StarsOf(new, a)]
           g == SumsOf(rows, S)
           h == SumsOf(new, T)
<1>1. IsFiniteSet(T)
  BY FS_AddElement
<1>2. Adds(g, v, S) /\ Adds(h, w, T)
  BY <1>1, SumsExist
<1>3. /\ \A a \in S : v[a] = w[a] /\ v[a] \in Nat
      /\ \A a \in T : w[a] \in Nat
      /\ w[x] = StarsOf(new, x)
  OBVIOUS
<1>4. S \subseteq T /\ T \ {x} = S /\ x \in T
  OBVIOUS
<1>5. Total(rows, S) = g[S] /\ Total(new, T) = h[T]
  BY TotalIs
<1> HIDE DEF T, v, w, g, h
<1>6. \A s \in SUBSET S : g[s] = h[s]
  BY <1>2, <1>3, <1>4, SumsAgree
<1>7. \A s \in SUBSET S : g[s] \in Nat
  BY <1>2, <1>3, SumsApart
<1>8. h[T] = w[x] + h[S]
  <2>1. \A s \in SUBSET T : h[s] \in Nat /\ \A a \in s : h[s] = w[a] + h[s \ {a}]
    <3>1. \A a \in T : w[a] \in Nat
      BY <1>3
    <3> QED
      BY <1>1, <1>2, <3>1, SumsApart
  <2>2. h[T] = w[x] + h[T \ {x}]
    BY <1>4, <2>1
  <2> QED
    BY <1>4, <2>2
<1> QED
  BY <1>3, <1>5, <1>6, <1>7, <1>8 DEF T

-----------------------------------------------------------------------------
(* Requests that follow one another. *)

\* Nobody else writes between what a request reads and what it writes.
Current(r) ==
  /\ stage[r] \in {"none", "counted"} => InProgress(op[r].on) = {}
  /\ stage[r] = "begun" => snap[r].member = member
  /\ stage[r] = "read" /\ op[r].kind = "save" => Attempt(r).status = "in_progress"
  /\ stage[r] \in Submits /\ op[r].kind = "submit" =>
       snap[r].member = member /\ snap[r].row = Attempt(r) /\ Attempt(r).status = "in_progress"

AllCurrent == \A r \in Requests : stage[r] # "idle" => Current(r)

OneRunning == \A d \in Deliveries : \A m, n \in InProgress(d) : m = n

SerialInv == IInv /\ AllCurrent /\ OneRunning /\ ScoreMatchesAnswers /\ StarsCounted

\* What is true of the records alone.
Records == OneRunning /\ ScoreMatchesAnswers /\ StarsCounted

\* The stars of a state, and of the next.
LEMMA StarsCountedIs ==
  /\ StarsCounted <=> member.tests = Cardinality(Scored) /\ member.stars = Total(attempts, Scored)
  /\ StarsCounted' <=>
       member'.tests = Cardinality(Scored') /\ member'.stars = Total(attempts', Scored')
<1>1. StarsCounted <=> member.tests = Cardinality(Scored) /\ member.stars = Total(attempts, Scored)
  BY DEF StarsCounted, Total
<1>2. StarsCounted' <=>
        member'.tests = Cardinality(Scored') /\ member'.stars = Total(attempts', Scored')
  BY DEF StarsCounted, Total, MapThenSumSet, MapThenFoldSet
<1> QED
  BY <1>1, <1>2

LEMMA RecordsStay ==
  ASSUME Records, UNCHANGED <<attempts, member>>
  PROVE  Records'
<1>1. Scored' = Scored /\ \A d \in Deliveries : InProgress(d)' = InProgress(d)
  BY DEF Scored, InProgress
<1>2. StarsCounted'
  BY <1>1, StarsCountedIs DEF Records
<1> QED
  BY <1>1, <1>2 DEF Records, OneRunning, ScoreMatchesAnswers

\* What scored attempts have in their rows, by delivery and number.
LEMMA ScoresByNumber ==
  ScoreMatchesAnswers <=>
    \A d \in Deliveries, n \in Numbers :
      attempts[d][n].status = "scored" => attempts[d][n].answer = attempts[d][n].graded
<1>1. \A a \in Deliveries \X Numbers : a[1] \in Deliveries /\ a[2] \in Numbers
  OBVIOUS
<1>2. ASSUME NEW d \in Deliveries, NEW n \in Numbers
      PROVE  <<d, n>> \in Deliveries \X Numbers /\ <<d, n>>[1] = d /\ <<d, n>>[2] = n
  OBVIOUS
<1>3. ASSUME ScoreMatchesAnswers, NEW d \in Deliveries, NEW n \in Numbers,
             attempts[d][n].status = "scored"
      PROVE  attempts[d][n].answer = attempts[d][n].graded
  <2> DEFINE a == <<d, n>>
  <2>1. a \in Deliveries \X Numbers /\ a[1] = d /\ a[2] = n
    BY <1>2
  <2> HIDE DEF a
  <2> QED
    BY <1>3, <2>1 DEF ScoreMatchesAnswers, Scored
<1> QED
  BY <1>1, <1>3 DEF ScoreMatchesAnswers, Scored

\* And in the next state.
LEMMA ScoresLater ==
  (\A d \in Deliveries, n \in Numbers :
     attempts'[d][n].status = "scored" => attempts'[d][n].answer = attempts'[d][n].graded)
  => ScoreMatchesAnswers'
<1>1. \A a \in Deliveries \X Numbers : a[1] \in Deliveries /\ a[2] \in Numbers
  OBVIOUS
<1> QED
  BY <1>1 DEF ScoreMatchesAnswers, Scored

\* The stars of a scored attempt.
LEMMA StarsType ==
  ASSUME TypeOK
  PROVE  \A a \in Scored : StarsOf(attempts, a) \in Nat
<1>1. \A d \in Deliveries, n \in Numbers : attempts[d][n] \in Row
  BY DEF TypeOK
<1>2. \A row \in Row : row.stars \in Nat
  BY DEF Row
<1>3. \A a \in Scored : a[1] \in Deliveries /\ a[2] \in Numbers
  BY DEF Scored
<1> QED
  BY <1>1, <1>2, <1>3 DEF StarsOf

\* The stars add up after a step that scores nothing.
LEMMA StarsStay ==
  ASSUME IsFiniteSet(Scored), StarsCounted, UNCHANGED member, Scored' = Scored,
         \A d \in Deliveries, n \in Numbers :
           attempts[d][n].status = "scored" => attempts'[d][n].stars = attempts[d][n].stars
  PROVE  StarsCounted'
<1>1. \A a \in Scored : StarsOf(attempts', a) = StarsOf(attempts, a)
  BY DEF Scored, StarsOf
<1>2. Total(attempts', Scored) = Total(attempts, Scored)
  BY <1>1, TotalSame
<1> QED
  BY <1>2, StarsCountedIs

\* With one request, what it has read is current if it is so after its own step.
LEMMA AloneCurrent ==
  ASSUME OneByOne, NEW r \in Requests, stage'[r] = "idle" \/ Current(r)'
  PROVE  AllCurrent'
BY DEF OneByOne, AllCurrent

\* With one request, nothing is read after it has left.
LEMMA LeftCurrent ==
  ASSUME OneByOne, IInv, NEW r \in Requests, Leave(r)
  PROVE  AllCurrent'
<1>1. stage'[r] = "idle"
  BY LeaveSlot DEF IInv
<1> QED
  BY <1>1, AloneCurrent

\* A step of a request that reads, locks or leaves.
LEMMA ReadCurrent ==
  ASSUME OneByOne, SerialInv, IInv', NEW r \in Requests, UNCHANGED <<attempts, member>>,
         stage'[r] = "idle" \/ Current(r)'
  PROVE  SerialInv'
BY AloneCurrent, RecordsStay DEF SerialInv, Records

\* A request that goes on with what it has read.
LEMMA GoesOn ==
  ASSUME IInv, NEW r \in Requests, stage[r] # "idle", NEW to \in Places \ {"idle"}, NEW read,
         Reach(r, to, read), UNCHANGED <<attempts, member>>
  PROVE  /\ stage'[r] = to /\ snap'[r] = read /\ op' = op /\ member' = member
         /\ Attempt(r)' = Attempt(r) /\ InProgress(op[r].on)' = InProgress(op[r].on)
<1>1. stage'[r] = to /\ snap'[r] = read /\ op' = op
  BY ReachSlot DEF IInv, Reach
<1> QED
  BY <1>1 DEF Attempt, InProgress

\* The steps that write no attempt.
LEMMA ReadsCurrent ==
  ASSUME AttemptsAssumption, OneByOne, SerialInv, IInv', NEW r \in Requests,
         \/ Begin(r) \/ FindDelivery(r) \/ Resume(r) \/ FindNone(r) \/ Count(r)
         \/ ReadAttempt(r) \/ Flush(r) \/ Unlock(r) \/ AdminRead(r)
  PROVE  SerialInv'
<1>1. UNCHANGED <<attempts, member>>
  BY DEF Begin, FindDelivery, Resume, FindNone, Count, ReadAttempt, Flush, Unlock, AdminRead,
         Reads, stored
<1>2. SUFFICES stage'[r] = "idle" \/ Current(r)'
  BY <1>1, ReadCurrent
<1>3. IInv /\ (stage[r] # "idle" => Current(r) /\ Request(r))
  BY DEF SerialInv, AllCurrent, IInv, Slots
<1>4. CASE Leave(r)
  BY <1>3, <1>4, LeaveSlot DEF IInv
<1>5. CASE Begin(r)
  <2>1. stage'[r] = "begun" /\ snap'[r] = [member |-> member]
    BY <1>3, <1>5 DEF Begin, IInv, TypeOK, Slots
  <2> QED
    BY <1>1, <2>1 DEF Current, Submits
<1>6. ASSUME NEW to \in {"open"}, NEW read, Reach(r, to, read), stage[r] # "idle"
      PROVE  Current(r)'
  <2>1. to \in Places \ {"idle"}
    BY DEF Places
  <2>2. stage'[r] = "open"
    BY <1>1, <1>3, <1>6, <2>1, GoesOn
  <2> QED
    BY <2>2 DEF Current, Submits
<1>7. CASE FindDelivery(r)
  <2>1. stage[r] = "begun"
    BY <1>7 DEF FindDelivery, At
  <2>2. CASE Leave(r)
    BY <1>4, <2>2
  <2>3. CASE ~ Leave(r)
    <3>1. PICK read : Reach(r, "open", read)
      BY <1>7, <2>3 DEF FindDelivery
    <3> QED
      BY <1>6, <2>1, <3>1
  <2> QED
    BY <2>2, <2>3
<1>8. CASE FindNone(r) \/ Count(r)
  <2>1. /\ stage[r] \in {"open", "none"}
        /\ Leave(r) \/ \E to \in {"none", "counted"} : \E read : Reach(r, to, read)
        /\ InProgress(op[r].on) = {}
    BY <1>3, <1>8 DEF FindNone, Count, At, Current
  <2>2. CASE Leave(r)
    BY <1>4, <2>2
  <2>3. CASE \E to \in {"none", "counted"} : \E read : Reach(r, to, read)
    <3>1. PICK to, read : to \in {"none", "counted"} /\ Reach(r, to, read)
      BY <2>3
    <3>2. to \in Places \ {"idle"}
      BY <3>1 DEF Places
    <3>3. stage'[r] = to /\ InProgress(op[r].on)' = {}
      BY <1>1, <1>3, <2>1, <3>1, <3>2, GoesOn
    <3> QED
      BY <3>1, <3>3 DEF Current, Submits
  <2> QED
    BY <2>1, <2>2, <2>3
<1>9. CASE ReadAttempt(r)
  <2>1. stage[r] = "begun" /\ snap[r].member = member
    BY <1>3, <1>9 DEF ReadAttempt, Current
  <2>2. CASE Leave(r)
    BY <1>4, <2>2
  <2>3. CASE ~ Leave(r)
    <3>1. PICK read : /\ Reach(r, "read", read) /\ Attempt(r).status = "in_progress"
                      /\ op[r].kind \in {"save", "submit"}
                      /\ op[r].kind = "submit" => read = [row |-> Attempt(r), member |-> snap[r].member]
      BY <1>9, <2>3 DEF ReadAttempt
    <3>2. "read" \in Places \ {"idle"}
      BY DEF Places
    <3>3. /\ stage'[r] = "read" /\ snap'[r] = read /\ op' = op /\ member' = member
          /\ Attempt(r)' = Attempt(r)
      BY <1>1, <1>3, <2>1, <3>1, <3>2, GoesOn
    <3>4. op[r].kind = "submit" => read.row = Attempt(r) /\ read.member = member
      BY <2>1, <3>1
    <3> QED
      BY <3>1, <3>3, <3>4 DEF Current
  <2> QED
    BY <2>2, <2>3
<1>10. CASE Flush(r) \/ Unlock(r)
  <2>1. op[r].kind = "submit" /\ stage[r] \in Submits
    BY <1>10 DEF Flush, Unlock, At, Submits
  <2>2. snap[r].member = member /\ snap[r].row = Attempt(r) /\ Attempt(r).status = "in_progress"
    BY <1>3, <2>1 DEF Current, Submits
  <2>3. PICK to, read :
          /\ to \in {"flushed", "unlocked"} /\ Reach(r, to, read)
          /\ read.row = snap[r].row /\ read.member = snap[r].member
    BY <1>10 DEF Flush, Unlock
  <2>4. to \in Places \ {"idle"} /\ stage[r] # "idle"
    BY <2>1, <2>3 DEF Places, Submits
  <2>5. /\ stage'[r] = to /\ snap'[r] = read /\ op' = op /\ member' = member
        /\ Attempt(r)' = Attempt(r)
    BY <1>1, <1>3, <2>3, <2>4, GoesOn
  <2> QED
    BY <2>1, <2>2, <2>3, <2>5 DEF Current
<1>11. CASE AdminRead(r)
  <2>1. stage[r] = "begun" /\ op[r].kind \in AdminKinds
    BY <1>11 DEF AdminRead
  <2>2. PICK read : Reach(r, "read", read)
    BY <1>11 DEF AdminRead
  <2>3. "read" \in Places \ {"idle"}
    BY DEF Places
  <2>4. stage'[r] = "read" /\ op' = op
    BY <1>1, <1>3, <2>1, <2>2, <2>3, GoesOn
  <2> QED
    BY <2>1, <2>4 DEF Current, AdminKinds
<1>12. CASE Resume(r)
  BY <1>4, <1>12 DEF Resume
<1> QED
  BY <1>5, <1>7, <1>8, <1>9, <1>10, <1>11, <1>12

\* The attempt inserted is the only one in progress: none was when it was looked for.
LEMMA InsertCurrent ==
  ASSUME AttemptsAssumption, OneByOne, SerialInv, IInv', NEW r \in Requests, Insert(r)
  PROVE  SerialInv'
<1>1. IInv /\ stage[r] = "counted" /\ Leave(r) /\ UNCHANGED member
  BY DEF Insert, At, SerialInv
<1>2. AllCurrent'
  BY <1>1, LeftCurrent
<1>3. InProgress(op[r].on) = {}
  BY <1>1 DEF SerialInv, AllCurrent, Current
<1>4. PICK row \in Row :
        /\ row.status = "in_progress"
        /\ \A e \in Deliveries, m \in Numbers :
             attempts'[e][m] = attempts[e][m]
               \/ (e = op[r].on /\ m = snap[r].number /\ attempts[e][m].status = "absent"
                     /\ attempts'[e][m] = row)
  BY <1>1, InsertWrites
<1>5. ASSUME NEW d \in Deliveries, NEW n \in Numbers, attempts'[d][n] # attempts[d][n]
      PROVE  d = op[r].on /\ n = snap[r].number /\ attempts[d][n].status # "scored"
             /\ attempts'[d][n].status # "scored"
  BY <1>4, <1>5
<1>6. OneRunning'
  <2>1. ASSUME NEW d \in Deliveries, NEW m \in InProgress(d)', NEW n \in InProgress(d)'
        PROVE  m = n
    <3>1. m \in Numbers /\ n \in Numbers
      BY DEF InProgress
    <3>2. CASE attempts'[d][m] = attempts[d][m] /\ attempts'[d][n] = attempts[d][n]
      <4>1. m \in InProgress(d) /\ n \in InProgress(d)
        BY <3>1, <3>2 DEF InProgress
      <4> QED
        BY <4>1 DEF SerialInv, OneRunning
    <3>3. CASE attempts'[d][m] # attempts[d][m] \/ attempts'[d][n] # attempts[d][n]
      <4>1. d = op[r].on
        BY <1>5, <3>1, <3>3
      <4>2. attempts[d][m].status # "in_progress" /\ attempts[d][n].status # "in_progress"
        BY <1>3, <3>1, <4>1 DEF InProgress
      <4>3. attempts'[d][m].status = "in_progress" /\ attempts'[d][n].status = "in_progress"
        BY DEF InProgress
      <4> QED
        BY <1>5, <3>1, <4>2, <4>3
    <3> QED
      BY <3>2, <3>3
  <2> QED
    BY <2>1 DEF OneRunning
<1>7. \A d \in Deliveries, n \in Numbers :
        /\ attempts'[d][n].status = "scored" <=> attempts[d][n].status = "scored"
        /\ attempts[d][n].status = "scored" => attempts'[d][n] = attempts[d][n]
  BY <1>5
<1>8. ScoreMatchesAnswers'
  BY <1>7, ScoresByNumber, ScoresLater DEF SerialInv
<1>9. StarsCounted'
  BY <1>1, <1>7, ScoredSame, StarsStay DEF SerialInv, IInv
<1> QED
  BY <1>2, <1>6, <1>8, <1>9 DEF SerialInv

\* An answer is saved to an attempt in progress only.
LEMMA SaveCurrent ==
  ASSUME AttemptsAssumption, OneByOne, SerialInv, IInv', NEW r \in Requests, SaveAnswer(r)
  PROVE  SerialInv'
<1>1. IInv /\ op[r].kind = "save" /\ stage[r] = "read" /\ Leave(r) /\ UNCHANGED member
  BY DEF SaveAnswer, At, SerialInv
<1>2. AllCurrent'
  BY <1>1, LeftCurrent
<1>3. attempts[op[r].on][op[r].number].status = "in_progress"
  BY <1>1 DEF SerialInv, AllCurrent, Current, Attempt
<1>4. \A e \in Deliveries, m \in Numbers :
        /\ attempts'[e][m].status = attempts[e][m].status
        /\ attempts'[e][m].stars = attempts[e][m].stars
        /\ attempts'[e][m] = attempts[e][m] \/ (e = op[r].on /\ m = op[r].number)
  BY <1>1, SaveWrites
<1>5. OneRunning'
  <2>1. \A d \in Deliveries : InProgress(d)' = InProgress(d)
    BY <1>4 DEF InProgress
  <2> QED
    BY <2>1 DEF SerialInv, OneRunning
<1>6. ScoreMatchesAnswers'
  <2>1. \A d \in Deliveries, n \in Numbers :
          attempts'[d][n].status = "scored" =>
            attempts[d][n].status = "scored" /\ attempts'[d][n] = attempts[d][n]
    BY <1>3, <1>4
  <2> QED
    BY <2>1, ScoresByNumber, ScoresLater DEF SerialInv
<1>7. StarsCounted'
  <2>1. Scored' = Scored
    BY <1>4, ScoredSame DEF SerialInv, IInv
  <2> QED
    BY <1>1, <1>4, <2>1, StarsStay DEF SerialInv, IInv
<1> QED
  BY <1>2, <1>5, <1>6, <1>7 DEF SerialInv

\* A commit adds the stars of its attempt to those of the others.
LEMMA CommitCurrent ==
  ASSUME AttemptsAssumption, OneByOne, SerialInv, IInv', NEW r \in Requests, Commit(r)
  PROVE  SerialInv'
<1> DEFINE d == op[r].on
           n == op[r].number
           answer == snap[r].row.answer
           stars == Stars(Score[answer])
           x == <<d, n>>
<1>1. /\ IInv /\ op[r].kind = "submit" /\ stage[r] = "unlocked" /\ Leave(r)
      /\ member' = [stars |-> snap[r].member.stars + stars, tests |-> snap[r].member.tests + 1]
  BY DEF Commit, At, SerialInv
<1>2. AllCurrent'
  BY <1>1, LeftCurrent
<1>3. /\ snap[r].member = member /\ snap[r].row = attempts[d][n]
      /\ attempts[d][n].status = "in_progress"
  BY <1>1 DEF SerialInv, AllCurrent, Current, Attempt, Submits
<1>4. /\ d \in Deliveries /\ n \in Numbers /\ stars \in 1 .. 5
      /\ attempts'[d][n].status = "scored" /\ attempts'[d][n].answer = attempts[d][n].answer
      /\ attempts'[d][n].graded = answer /\ attempts'[d][n].stars = stars
      /\ \A e \in Deliveries, k \in Numbers :
           e # d \/ k # n => attempts'[e][k] = attempts[e][k]
      /\ Scored' = Scored \cup {x}
  BY <1>1, CommitWrites
<1>5. answer = attempts[d][n].answer
  BY <1>3
<1>6. x \notin Scored /\ x[1] = d /\ x[2] = n
  BY <1>3, <1>4, ScoredIs
<1>7. member \in Counts /\ IsFiniteSet(Scored) /\ TypeOK
  BY <1>1 DEF IInv, TypeOK, Counts
<1>8. StarsOf(attempts', x) = stars
  BY <1>4, <1>6 DEF StarsOf
<1>9. \A a \in Scored : StarsOf(attempts, a) \in Nat /\ StarsOf(attempts', a) = StarsOf(attempts, a)
  <2>1. ASSUME NEW a \in Scored PROVE StarsOf(attempts', a) = StarsOf(attempts, a)
    <3>1. a \in Deliveries \X Numbers /\ attempts[a[1]][a[2]].status = "scored"
      BY DEF Scored
    <3>2. a[1] \in Deliveries /\ a[2] \in Numbers
      BY <3>1
    <3>3. a[1] # d \/ a[2] # n
      BY <1>3, <3>1
    <3> HIDE DEF d, n
    <3> QED
      BY <1>4, <3>2, <3>3 DEF StarsOf
  <2> QED
    BY <1>7, <2>1, StarsType
<1> HIDE DEF x, d, n, stars, answer
<1>10. OneRunning'
  <2>1. \A e \in Deliveries : InProgress(e)' \subseteq InProgress(e)
    BY <1>4 DEF InProgress
  <2> QED
    BY <2>1 DEF SerialInv, OneRunning
<1>11. ScoreMatchesAnswers'
  <2>1. \A e \in Deliveries, k \in Numbers :
          attempts'[e][k].status = "scored" => attempts'[e][k].answer = attempts'[e][k].graded
    BY <1>4, <1>5, ScoresByNumber DEF SerialInv
  <2> QED
    BY <2>1, ScoresLater
<1>12. StarsCounted'
  <2> DEFINE t  == Total(attempts, Scored)
             t1 == Total(attempts', Scored \cup {x})
             m  == Cardinality(Scored)
             m1 == Cardinality(Scored \cup {x})
  <2>1. t \in Nat /\ t1 = stars + t
    <3>1. StarsOf(attempts', x) \in Nat
      BY <1>4, <1>8
    <3>2. Total(attempts, Scored) \in Nat
          /\ Total(attempts', Scored \cup {x}) = StarsOf(attempts', x) + Total(attempts, Scored)
      BY <1>6, <1>7, <1>9, <3>1, TotalMore
    <3> QED
      BY <1>8, <3>2
  <2>2. m \in Nat /\ m1 = m + 1
    BY <1>6, <1>7, FS_AddElement, FS_CardinalityType
  <2>3. member.tests = m /\ member.stars = t
    BY StarsCountedIs DEF SerialInv
  <2>4. member'.stars = member.stars + stars /\ member'.tests = member.tests + 1
    BY <1>1, <1>3
  <2> HIDE DEF t, t1, m, m1
  <2>5. member'.tests = m1 /\ member'.stars = t1
    BY <1>4, <2>1, <2>2, <2>3, <2>4
  <2> QED
    BY <1>4, <2>5, StarsCountedIs DEF m1, t1
<1> QED
  BY <1>2, <1>10, <1>11, <1>12 DEF SerialInv

\* Administrators change no status, answer or star.
LEMMA AdministerCurrent ==
  ASSUME AttemptsAssumption, OneByOne, SerialInv, IInv', NEW r \in Requests, Administer(r)
  PROVE  SerialInv'
<1>1. /\ IInv /\ Leave(r) /\ UNCHANGED member /\ stage[r] = "read"
      /\ Extend(r) \/ GrantRetake(r) \/ UpdateDelivery(r) \/ StopDelivery(r)
  BY DEF Administer, Extend, GrantRetake, UpdateDelivery, StopDelivery, At, SerialInv
<1>2. AllCurrent'
  BY <1>1, LeftCurrent
<1>3. \A e \in Deliveries, m \in Numbers : OnlyExpires(attempts[e][m], attempts'[e][m])
  BY <1>1, AdministerWrites
<1>4. OneRunning'
  <2>1. \A d \in Deliveries : InProgress(d)' = InProgress(d)
    BY <1>3 DEF InProgress, OnlyExpires
  <2> QED
    BY <2>1 DEF SerialInv, OneRunning
<1>5. ScoreMatchesAnswers'
  BY <1>3, ScoresByNumber, ScoresLater DEF SerialInv, OnlyExpires
<1>6. StarsCounted'
  <2>1. Scored' = Scored
    BY <1>3, ScoredSame DEF SerialInv, IInv, OnlyExpires
  <2> QED
    BY <1>1, <1>3, <2>1, StarsStay DEF SerialInv, IInv, OnlyExpires
<1> QED
  BY <1>2, <1>4, <1>5, <1>6 DEF SerialInv

\* A step of the clock, or none.
LEMMA StillCurrent ==
  ASSUME SerialInv, IInv', UNCHANGED <<attempts, member, op, stage, snap>>
  PROVE  SerialInv'
<1>1. ASSUME NEW r \in Requests, stage'[r] # "idle" PROVE Current(r)'
  <2>1. Current(r)
    BY <1>1 DEF SerialInv, AllCurrent
  <2>2. Attempt(r)' = Attempt(r) /\ InProgress(op[r].on)' = InProgress(op[r].on)
    BY DEF Attempt, InProgress
  <2> QED
    BY <2>1, <2>2 DEF Current
<1>2. AllCurrent'
  BY <1>1 DEF AllCurrent
<1> QED
  BY <1>2, RecordsStay DEF SerialInv, Records

LEMMA InitSerial == ASSUME AttemptsAssumption, Init PROVE SerialInv
<1>1. IInv
  BY InitKeeps
<1>2. \A d \in Deliveries, n \in Numbers : attempts[d][n].status = "absent"
  BY DEF Init, Absent
<1>3. Scored = {}
  BY <1>2 DEF Scored
<1>4. OneRunning /\ AllCurrent
  BY <1>2 DEF Init, OneRunning, InProgress, AllCurrent
<1>5. ScoreMatchesAnswers
  BY <1>3 DEF ScoreMatchesAnswers
<1>6. StarsCounted
  <2>1. Adds(SumsOf(attempts, {}), [a \in {} |-> StarsOf(attempts, a)], {})
    BY FS_EmptySet, SumsExist
  <2>2. Total(attempts, {}) = 0
    BY <2>1, TotalIs DEF Adds
  <2> QED
    BY <1>3, <2>2, FS_EmptySet, StarsCountedIs DEF Init
<1> QED
  BY <1>1, <1>4, <1>5, <1>6 DEF SerialInv

LEMMA NextSerial ==
  ASSUME AttemptsAssumption, OneByOne, SerialInv, [Next]_vars
  PROVE  SerialInv'
<1>1. IInv'
  BY NextKeeps DEF SerialInv
<1>2. CASE UNCHANGED vars
  BY <1>1, <1>2, StillCurrent DEF vars, stored
<1>3. CASE Tick
  BY <1>1, <1>3, StillCurrent DEF Tick, stored
<1>4. ASSUME NEW r \in Requests,
             \/ Begin(r) \/ FindDelivery(r) \/ Resume(r) \/ FindNone(r) \/ Count(r)
             \/ ReadAttempt(r) \/ Flush(r) \/ Unlock(r) \/ AdminRead(r)
      PROVE  SerialInv'
  BY <1>1, <1>4, ReadsCurrent
<1>5. ASSUME NEW r \in Requests, Insert(r) \/ SaveAnswer(r) \/ Commit(r) \/ Administer(r)
      PROVE  SerialInv'
  BY <1>1, <1>5, InsertCurrent, SaveCurrent, CommitCurrent, AdministerCurrent
<1>6. Next => \/ Tick
              \/ \E r \in Requests :
                   \/ \/ Begin(r) \/ FindDelivery(r) \/ Resume(r) \/ FindNone(r) \/ Count(r)
                      \/ ReadAttempt(r) \/ Flush(r) \/ Unlock(r) \/ AdminRead(r)
                   \/ Insert(r) \/ SaveAnswer(r) \/ Commit(r) \/ Administer(r)
  BY DEF Next, Start, Submit
<1> QED
  BY <1>2, <1>3, <1>4, <1>5, <1>6

\* What the theorems below rest on.
THEOREM AlwaysSerial == ASSUME AttemptsAssumption, OneByOne PROVE Spec => []SerialInv
<1>1. Init => SerialInv
  BY InitSerial
<1>2. SerialInv /\ [Next]_vars => SerialInv'
  BY NextSerial
<1> QED
  BY <1>1, <1>2, PTL DEF Spec

\* "One in-progress attempt at a time" (docs/assessments-ai-roadmap.md), when requests follow
\* one another: start_attempt inserts an attempt only where it has found none in progress.
THEOREM OneAtATime == ASSUME AttemptsAssumption, OneByOne PROVE Spec => []OneInProgress
<1>1. ASSUME SerialInv, NEW d \in Deliveries PROVE Cardinality(InProgress(d)) <= 1
  <2>1. CASE InProgress(d) = {}
    BY <2>1, FS_EmptySet
  <2>2. CASE InProgress(d) # {}
    <3>1. PICK n : InProgress(d) = {n}
      BY <1>1, <2>2 DEF SerialInv, OneRunning
    <3>2. Cardinality({n}) = 1
      BY FS_Singleton
    <3> QED
      BY <3>1, <3>2
  <2> QED
    BY <2>1, <2>2
<1>2. SerialInv => OneInProgress
  BY <1>1 DEF OneInProgress
<1> QED
  BY <1>2, AlwaysSerial, PTL

\* The membership row counts exactly the stars of the scored attempts (award_stars), when
\* requests follow one another, whatever retakes, extensions and stops come between them.
THEOREM StarsAddUp == ASSUME AttemptsAssumption, OneByOne PROVE Spec => []StarsCounted
<1>1. SerialInv => StarsCounted
  BY DEF SerialInv
<1> QED
  BY <1>1, AlwaysSerial, PTL

\* A scored attempt keeps the answers its score was given for (submit_attempt,
\* autosave_answers), when requests follow one another.
THEOREM ScoresAreTrue == ASSUME AttemptsAssumption, OneByOne PROVE Spec => []ScoreMatchesAnswers
<1>1. SerialInv => ScoreMatchesAnswers
  BY DEF SerialInv
<1> QED
  BY <1>1, AlwaysSerial, PTL

\* All of them, for any number of requests: what holds however they overlap, and what holds
\* besides when there is one at a time.
THEOREM AttemptsAlwaysTrue == ASSUME AttemptsAssumption PROVE Spec => []AttemptsAreTrue
<1>1. Spec => [](AttemptsNumbered /\ NeverOvercounted /\ MilestoneOnce)
  BY AlwaysNumbered, NeverCountedTwice, UnlockedOnce, PTL
<1>2. CASE OneByOne
  <2>1. Spec => [](OneInProgress /\ StarsCounted /\ ScoreMatchesAnswers)
    BY <1>2, OneAtATime, StarsAddUp, ScoresAreTrue, PTL
  <2>2. /\ AttemptsNumbered /\ NeverOvercounted /\ MilestoneOnce
        /\ OneInProgress /\ StarsCounted /\ ScoreMatchesAnswers
        => AttemptsAreTrue
    BY DEF AttemptsAreTrue
  <2> QED
    BY <1>1, <2>1, <2>2, PTL
<1>3. CASE ~OneByOne
  <2>1. AttemptsNumbered /\ NeverOvercounted /\ MilestoneOnce => AttemptsAreTrue
    BY <1>3 DEF AttemptsAreTrue
  <2> QED
    BY <1>1, <2>1, PTL
<1> QED
  BY <1>2, <1>3

-----------------------------------------------------------------------------
(* The page on which a test is taken, for any number of questions, attempts, choices,   *)
(* requests, renewals of the token and losses: what it shows of an attempt, what waits    *)
(* for the debounce, what is under way, and what the attempt has stored.                  *)

CONSTANTS Questions, Multi, Options, Allowed, MaxChoices, MaxCalls, MaxRenewals, MaxLost
VARIABLES timed, status, late, saved, screen, attempt, answers, submitting, submitted,
          left, watch, autosave, calls, count, shown, doubt

\* The page on which a test is taken, next to the attempts it works on.
Taking == INSTANCE TestTaking WITH stored <- saved

\* The page has shown the answers for the attempt.
ShownFor(a, ans) ==
  a \in Taking!Attempts /\ \A q \in DOMAIN ans : <<q, ans[q]>> \in shown[a]

\* Answers for an attempt that are those of the page, and maybe more.
Carries(a, ans) ==
  DOMAIN answers # {} =>
    a = attempt /\ \A q \in DOMAIN answers : q \in DOMAIN ans /\ ans[q] = answers[q]

\* The requests that autosave makes.
IsSave(c) == c.kind = "save"

\* The domains of the variables.
TakingTypes ==
  /\ Taking!TypeOK
  /\ count \in [choices : Nat, calls : 0 .. MaxCalls, renewals : Nat, lost : Nat]
  /\ shown \in [Taking!Attempts -> SUBSET (Questions \X SUBSET Options)]
  /\ doubt \in [last : 0 .. MaxCalls, open : BOOLEAN]

\* What a request is about: an attempt that was started, answers that were shown.
SoundCall(c) ==
  /\ c.id <= count.calls
  /\ c.kind = "start" /\ c.reply = "ok" =>
       c.attempt \in Taking!Attempts /\ status[c.attempt] # "none"
  /\ c.kind = "submit" => c.attempt \in Taking!Attempts
  /\ IsSave(c) => c.reply = "none" /\ ShownFor(c.attempt, c.answers)

\* Requests have numbers of their own, the highest last.
Numbered ==
  /\ \A c \in calls : SoundCall(c)
  /\ \A c, d \in calls : c.id = d.id => c = d
  /\ doubt.last <= count.calls

\* The page shows questions of an attempt that was started, with answers to that attempt.
OnAttempt ==
  /\ screen \in {"question", "review"} => attempt # 0
  /\ attempt # 0 => status[attempt] # "none" /\ ShownFor(attempt, answers)

\* What waits for the debounce is all the page shows.
Waits ==
  autosave # Taking!NoSave =>
    /\ ShownFor(autosave.attempt, autosave.answers)
    /\ Carries(autosave.attempt, autosave.answers)

\* The attempt that the page works on has stored all that the page shows of it.
StoredCarries ==
  attempt # 0 /\ status[attempt] = "in_progress" => Carries(attempt, saved[attempt])

\* If nothing waits, then the save that was sent last carries what the page shows: it is
\* under way, or it is over, and what it carried is stored unless it was lost or overtaken.
LastSaveCarries ==
  autosave = Taking!NoSave /\ DOMAIN answers # {} =>
    \/ \E c \in calls : /\ IsSave(c) /\ c.id > doubt.last
                        /\ \A d \in calls : IsSave(d) => d.id <= c.id
                        /\ Carries(c.attempt, c.answers)
    \/ /\ \A d \in calls : IsSave(d) => d.id < doubt.last
       /\ doubt.open \/ StoredCarries

\* The inductive invariant.
TakingInv ==
  /\ TakingTypes /\ Numbered /\ OnAttempt /\ Waits /\ LastSaveCarries
  /\ Taking!StoredWasShown

\* A partial function from questions to sets of options.
LEMMA AnswersAre ==
  ASSUME NEW f
  PROVE  f \in Taking!Answers <=> DOMAIN f \subseteq Questions /\ f \in [DOMAIN f -> SUBSET Options]
  BY DEF Taking!Answers

\* The bounds are numbers, and no answers are answers.
LEMMA TakingBounds ==
  ASSUME Taking!TakingAssumption
  PROVE  /\ Allowed \in Nat /\ MaxCalls \in Nat
         /\ Taking!NoAnswers \in Taking!Answers /\ DOMAIN Taking!NoAnswers = {}
<1>1. DOMAIN Taking!NoAnswers = {} /\ Taking!NoAnswers \in [{} -> SUBSET Options]
  BY DEF Taking!NoAnswers
<1> QED
  BY <1>1, AnswersAre DEF Taking!TakingAssumption

\* The initial state satisfies the inductive invariant.
LEMMA TakingStart == ASSUME Taking!TakingAssumption PROVE Taking!Init => TakingInv
<1> SUFFICES ASSUME Taking!Init PROVE TakingInv
  OBVIOUS
<1>1. Taking!TypeOK
  <2>1. /\ 0 \in 0 .. Allowed /\ FALSE \in BOOLEAN
        /\ Taking!NoAnswers \in Taking!Answers
    BY TakingBounds
  <2>2. /\ status \in [Taking!Attempts -> {"none", "in_progress", "scored"}]
        /\ late \in [Taking!Attempts -> BOOLEAN]
        /\ saved \in [Taking!Attempts -> Taking!Answers]
        /\ watch \in [attempt : 0 .. Allowed, busy : BOOLEAN]
        /\ autosave \in [attempt : 0 .. Allowed, answers : Taking!Answers]
    BY <2>1 DEF Taking!Init, Taking!NoSave
  <2> QED
    BY <2>1, <2>2 DEF Taking!Init, Taking!TypeOK
<1>2. TakingTypes
  BY <1>1, TakingBounds DEF Taking!Init, TakingTypes
<1>3. Numbered /\ OnAttempt /\ Waits
  BY TakingBounds DEF Taking!Init, Numbered, OnAttempt, Waits
<1>4. LastSaveCarries
  BY TakingBounds DEF Taking!Init, LastSaveCarries
<1>5. Taking!StoredWasShown
  BY TakingBounds DEF Taking!Init, Taking!StoredWasShown
<1> QED
  BY <1>2, <1>3, <1>4, <1>5 DEF TakingInv

\* A request: what is about to be asked is sound, and is numbered last.
LEMMA RequestSentKeeps ==
  ASSUME TakingInv, Taking!TakingAssumption, NEW kind \in {"start", "save", "submit"},
         NEW a \in 0 .. Allowed, NEW ans \in Taking!Answers, Taking!Send(kind, a, ans),
         kind = "submit" => a \in Taking!Attempts,
         kind = "save" => ShownFor(a, ans),
         UNCHANGED <<status, shown, doubt>>
  PROVE  /\ Numbered'
         /\ count' \in [choices : Nat, calls : 0 .. MaxCalls, renewals : Nat, lost : Nat]
         /\ calls' \subseteq [id : 1 .. MaxCalls, kind : {"start", "save", "submit"},
                             attempt : 0 .. Allowed, answers : Taking!Answers,
                             reply : {"none", "ok", "error"}]
         /\ \E c \in calls' : /\ c.kind = kind /\ c.attempt = a /\ c.answers = ans
                              /\ calls' = calls \cup {c}
                              /\ c.id = count.calls + 1
<1>0. PICK c : c = [id |-> count.calls + 1, kind |-> kind, attempt |-> a, answers |-> ans,
                    reply |-> "none"]
  OBVIOUS
<1>1. MaxCalls \in Nat /\ count.calls \in 0 .. MaxCalls
  BY TakingBounds DEF TakingInv, TakingTypes
<1>2. /\ count.calls < MaxCalls
      /\ count' = [count EXCEPT !.calls = @ + 1] /\ count'.calls = count.calls + 1
  BY DEF Taking!Send, TakingInv, TakingTypes
<1>3. calls' = calls \cup {c}
  BY <1>0, <1>2 DEF Taking!Send
<1>4. c \in [id : 1 .. MaxCalls, kind : {"start", "save", "submit"}, attempt : 0 .. Allowed,
             answers : Taking!Answers, reply : {"none", "ok", "error"}]
      /\ c.kind = kind /\ c.attempt = a /\ c.answers = ans /\ c.id = count.calls + 1
      /\ c.reply = "none"
  BY <1>0, <1>1, <1>2
<1>5. \A d \in calls : d.id <= count.calls /\ d.id \in 1 .. MaxCalls
  BY DEF TakingInv, TakingTypes, Taking!TypeOK, Numbered, SoundCall
<1>6. Numbered'
  <2>1. \A d \in calls : SoundCall(d)'
    BY <1>1, <1>2, <1>5 DEF TakingInv, Numbered, SoundCall, IsSave, ShownFor
  <2>2. SoundCall(c)'
    BY <1>1, <1>2, <1>4 DEF SoundCall, IsSave, ShownFor
  <2>3. \A d \in calls : d.id # c.id
    BY <1>1, <1>4, <1>5
  <2> QED
    BY <1>1, <1>2, <1>3, <2>1, <2>2, <2>3 DEF TakingInv, TakingTypes, Numbered
<1> QED
  BY <1>1, <1>2, <1>3, <1>4, <1>6 DEF TakingInv, TakingTypes, Taking!TypeOK

\* Requests other than saves come and go without any effect on what the last save carries.
LEMMA LastSaveStays ==
  ASSUME LastSaveCarries, OnAttempt,
         UNCHANGED <<attempt, answers, autosave, saved, doubt>>,
         \A c \in calls : IsSave(c) => c \in calls',
         \A c \in calls' : IsSave(c) => c \in calls,
         attempt # 0 /\ status'[attempt] = "in_progress" => status[attempt] = "in_progress"
  PROVE  LastSaveCarries'
<1> SUFFICES ASSUME autosave = Taking!NoSave, DOMAIN answers # {}
             PROVE  LastSaveCarries'
  BY DEF LastSaveCarries, Taking!NoSave, Taking!NoAnswers
<1>1. \A a, ans : Carries(a, ans) <=> Carries(a, ans)'
  BY DEF Carries
<1>2. StoredCarries => StoredCarries'
  BY DEF StoredCarries, Carries
<1>3. CASE \E c \in calls : /\ IsSave(c) /\ c.id > doubt.last
                            /\ \A d \in calls : IsSave(d) => d.id <= c.id
                            /\ Carries(c.attempt, c.answers)
  BY <1>1, <1>3 DEF LastSaveCarries, IsSave
<1>4. CASE /\ \A d \in calls : IsSave(d) => d.id < doubt.last
           /\ doubt.open \/ StoredCarries
  BY <1>2, <1>4 DEF LastSaveCarries, IsSave
<1> QED
  BY <1>3, <1>4 DEF LastSaveCarries

\* The domain of the requests.
CallSet == [id : 1 .. MaxCalls, kind : {"start", "save", "submit"}, attempt : 0 .. Allowed,
            answers : Taking!Answers, reply : {"none", "ok", "error"}]

\* The requests but one, which is over.
LEMMA CallTaken ==
  ASSUME TakingInv, NEW c, calls' = calls \ {c}, count'.calls = count.calls,
         doubt'.last <= count.calls, UNCHANGED <<status, shown>>
  PROVE  calls' \subseteq CallSet /\ Numbered'
<1>1. \A d \in calls' : SoundCall(d)'
  BY DEF TakingInv, Numbered, SoundCall, IsSave, ShownFor
<1> QED
  BY <1>1 DEF TakingInv, TakingTypes, Taking!TypeOK, CallSet, Numbered

\* A request to start or to submit is answered, or lost: the saves are the same.
LEMMA AnsweredKeeps ==
  ASSUME TakingInv, NEW c \in calls, ~IsSave(c), NEW a \in 0 .. Allowed,
         NEW reply \in {"ok", "error"},
         calls' = (calls \ {c}) \cup {[c EXCEPT !.reply = reply, !.attempt = a]},
         c.kind = "submit" => a \in Taking!Attempts,
         c.kind = "start" /\ reply = "ok" => a \in Taking!Attempts /\ status'[a] # "none",
         status' \in [Taking!Attempts -> {"none", "in_progress", "scored"}],
         \A b \in Taking!Attempts : status[b] # "none" =>
           status'[b] # "none" /\ (status'[b] = "in_progress" => status[b] = "in_progress"),
         count' \in [choices : Nat, calls : 0 .. MaxCalls, renewals : Nat, lost : Nat],
         count'.calls = count.calls,
         UNCHANGED <<timed, late, saved, screen, attempt, answers, submitting, submitted, left,
                     watch, autosave, shown, doubt>>
  PROVE  TakingInv'
<1>0. calls \subseteq CallSet
  BY DEF TakingInv, TakingTypes, Taking!TypeOK, CallSet
<1>1. PICK e : e = [c EXCEPT !.reply = reply, !.attempt = a]
  OBVIOUS
<1>2. /\ e \in CallSet /\ e.id = c.id /\ e.kind = c.kind /\ e.attempt = a /\ e.reply = reply
      /\ ~IsSave(e)
  BY <1>0, <1>1 DEF CallSet, IsSave
<1>3. calls' = (calls \ {c}) \cup {e}
  BY <1>1
<1>4. Numbered'
  <2>1. SoundCall(e)'
    BY <1>2 DEF TakingInv, Numbered, SoundCall, IsSave
  <2>2. \A d \in calls : SoundCall(d)'
    BY DEF TakingInv, Numbered, SoundCall, IsSave, ShownFor
  <2>3. \A d, f \in calls' : d.id = f.id => d = f
    BY <1>2, <1>3 DEF TakingInv, Numbered
  <2> QED
    BY <1>3, <2>1, <2>2, <2>3 DEF TakingInv, Numbered
<1>5. TakingTypes'
  BY <1>0, <1>2, <1>3 DEF TakingInv, TakingTypes, Taking!TypeOK, CallSet
<1>6. OnAttempt' /\ Waits'
  BY DEF TakingInv, OnAttempt, Waits, ShownFor, Carries
<1>7. LastSaveCarries'
  <2>1. attempt # 0 /\ status'[attempt] = "in_progress" => status[attempt] = "in_progress"
    BY DEF TakingInv, OnAttempt, ShownFor
  <2>2. /\ \A d \in calls : IsSave(d) => d \in calls'
        /\ \A d \in calls' : IsSave(d) => d \in calls
    BY <1>2, <1>3
  <2> QED
    BY <2>1, <2>2, LastSaveStays DEF TakingInv
<1>8. Taking!StoredWasShown'
  BY DEF TakingInv, Taking!StoredWasShown
<1> QED
  BY <1>4, <1>5, <1>6, <1>7, <1>8 DEF TakingInv

\* A test is started.
LEMMA TakingStartServed ==
  ASSUME TakingInv, Taking!TakingAssumption, NEW c \in calls, Taking!ServeStart(c)
  PROVE  TakingInv'
<1>1. Allowed \in Nat /\ c \in CallSet /\ calls \subseteq CallSet
  BY TakingBounds DEF TakingInv, TakingTypes, Taking!TypeOK, CallSet
<1>2. ~IsSave(c) /\ c.kind = "start"
  BY DEF Taking!ServeStart, Taking!Waiting, IsSave
<1> DEFINE Answered(a, reply) ==
             /\ calls' = (calls \ {c}) \cup {[c EXCEPT !.reply = reply, !.attempt = a]}
             /\ reply = "ok" => a \in Taking!Attempts /\ status'[a] # "none"
             /\ \/ status' = status
                \/ a \in Taking!Fresh /\ status' = [status EXCEPT ![a] = "in_progress"]
<1>3. \E a \in 0 .. Allowed, reply \in {"ok", "error"} : Answered(a, reply)
  <2>1. ASSUME NEW a \in Taking!InProgress,
               calls' = (calls \ {c}) \cup {[c EXCEPT !.reply = "ok", !.attempt = a]},
               status' = status
        PROVE  \E b \in 0 .. Allowed, reply \in {"ok", "error"} : Answered(b, reply)
    <3>1. a \in 0 .. Allowed /\ a \in Taking!Attempts /\ status'[a] # "none"
      BY <1>1, <2>1 DEF Taking!InProgress, Taking!Attempts
    <3> QED
      BY <2>1, <3>1
  <2>2. ASSUME NEW a \in Taking!Fresh,
               calls' = (calls \ {c}) \cup {[c EXCEPT !.reply = "ok", !.attempt = a]},
               status' = [status EXCEPT ![a] = "in_progress"]
        PROVE  \E b \in 0 .. Allowed, reply \in {"ok", "error"} : Answered(b, reply)
    <3>1. a \in 0 .. Allowed /\ a \in Taking!Attempts /\ status'[a] = "in_progress"
      BY <1>1, <2>2 DEF Taking!Fresh, Taking!Attempts, TakingInv, TakingTypes, Taking!TypeOK
    <3> QED
      BY <2>2, <3>1
  <2>3. ASSUME Taking!Answer(c, "error"), status' = status
        PROVE  \E b \in 0 .. Allowed, reply \in {"ok", "error"} : Answered(b, reply)
    <3>1. [c EXCEPT !.reply = "error"] = [c EXCEPT !.reply = "error", !.attempt = c.attempt]
          /\ c.attempt \in 0 .. Allowed
      BY <1>1 DEF CallSet
    <3> QED
      BY <2>3, <3>1 DEF Taking!Answer
  <2> QED
    BY <2>1, <2>2, <2>3 DEF Taking!ServeStart
<1>4. PICK a \in 0 .. Allowed, reply \in {"ok", "error"} : Answered(a, reply)
  BY <1>3
<1>5. status' \in [Taking!Attempts -> {"none", "in_progress", "scored"}]
      /\ \A b \in Taking!Attempts : status[b] # "none" => status'[b] = status[b]
  BY <1>4 DEF TakingInv, TakingTypes, Taking!TypeOK, Taking!Fresh
<1>6. UNCHANGED <<timed, late, saved, screen, attempt, answers, submitting, submitted, left,
                  watch, autosave, count, shown, doubt>>
  BY DEF Taking!ServeStart, Taking!page, Taking!history
<1>7. reply = "ok" => a \in Taking!Attempts /\ status'[a] # "none"
  BY <1>4
<1>8. calls' = (calls \ {c}) \cup {[c EXCEPT !.reply = reply, !.attempt = a]}
  BY <1>4
<1>9. count' \in [choices : Nat, calls : 0 .. MaxCalls, renewals : Nat, lost : Nat]
  BY <1>6 DEF TakingInv, TakingTypes
<1> QED
  BY <1>2, <1>5, <1>6, <1>7, <1>8, <1>9, AnsweredKeeps

\* A submission is answered: the attempt is scored, or it was over.
LEMMA ServeSubmitKeeps ==
  ASSUME TakingInv, Taking!TakingAssumption, NEW c \in calls, Taking!ServeSubmit(c)
  PROVE  TakingInv'
<1>1. c \in CallSet /\ calls \subseteq CallSet
  BY DEF TakingInv, TakingTypes, Taking!TypeOK, CallSet
<1>2. ~IsSave(c) /\ c.kind = "submit" /\ c.attempt \in Taking!Attempts
  BY DEF Taking!ServeSubmit, Taking!Waiting, IsSave, TakingInv, Numbered, SoundCall
<1>3. PICK reply \in {"ok", "error"} :
        /\ calls' = (calls \ {c}) \cup {[c EXCEPT !.reply = reply, !.attempt = c.attempt]}
        /\ \/ status' = status
           \/ /\ status[c.attempt] = "in_progress"
              /\ status' = [status EXCEPT ![c.attempt] = "scored"]
  <2>1. \A r : [c EXCEPT !.reply = r] = [c EXCEPT !.reply = r, !.attempt = c.attempt]
    BY <1>1 DEF CallSet
  <2> QED
    BY <2>1 DEF Taking!ServeSubmit, Taking!Answer
<1>5. status' \in [Taking!Attempts -> {"none", "in_progress", "scored"}]
      /\ \A b \in Taking!Attempts : /\ status[b] # "none" => status'[b] # "none"
                                    /\ status'[b] = "in_progress" => status[b] = "in_progress"
  BY <1>2, <1>3 DEF TakingInv, TakingTypes, Taking!TypeOK
<1>6. UNCHANGED <<timed, late, saved, screen, attempt, answers, submitting, submitted, left,
                  watch, autosave, count, shown, doubt>>
  BY DEF Taking!ServeSubmit, Taking!page, Taking!history
<1>7. c.attempt \in 0 .. Allowed
      /\ count' \in [choices : Nat, calls : 0 .. MaxCalls, renewals : Nat, lost : Nat]
  BY <1>1, <1>6 DEF CallSet, TakingInv, TakingTypes
<1> QED
  BY <1>2, <1>3, <1>5, <1>6, <1>7, AnsweredKeeps

\* Steps that change no answers: the saves are the same.
LEMMA AnswersStay ==
  ASSUME TakingInv, TakingTypes', Numbered',
         screen' \in {"question", "review"} => attempt # 0,
         \A d \in calls : IsSave(d) => d \in calls',
         \A d \in calls' : IsSave(d) => d \in calls,
         UNCHANGED <<status, saved, attempt, answers, autosave, shown, doubt>>
  PROVE  TakingInv'
<1>1. OnAttempt' /\ Waits' /\ Taking!StoredWasShown'
  BY DEF TakingInv, OnAttempt, Waits, ShownFor, Carries, Taking!StoredWasShown
<1>2. LastSaveCarries'
  BY LastSaveStays DEF TakingInv
<1> QED
  BY <1>1, <1>2 DEF TakingInv

\* An attempt expires, or the page goes from one screen to another.
LEMMA ScreensKeep ==
  ASSUME TakingInv, Taking!TakingAssumption,
         \/ \E a \in Taking!Attempts : Taking!Expires(a)
         \/ Taking!TokenRenewed
         \/ Taking!Move
  PROVE  TakingInv'
<1>1. UNCHANGED <<timed, status, saved, attempt, answers, submitting, submitted, left, autosave,
                  calls, shown, doubt>>
      /\ late' \in [Taking!Attempts -> BOOLEAN]
  BY DEF TakingInv, TakingTypes, Taking!TypeOK, Taking!Expires, Taking!TokenRenewed, Taking!Move,
         Taking!page, Taking!server, Taking!history
<1>2. /\ screen' \in {"loading", "start", "question", "review", "result"}
      /\ screen' \in {"question", "review"} => screen \in {"question", "review"}
      /\ watch' \in [attempt : 0 .. Allowed, busy : BOOLEAN]
  BY <1>1 DEF TakingInv, TakingTypes, Taking!TypeOK, Taking!Expires, Taking!TokenRenewed,
         Taking!Move, Taking!Review, Taking!BackToQuestions, Taking!GoTo, Taking!Watching,
         Taking!page
<1>3. count' \in [choices : Nat, calls : 0 .. MaxCalls, renewals : Nat, lost : Nat]
      /\ count'.calls = count.calls
  BY DEF TakingInv, TakingTypes, Taking!Expires, Taking!TokenRenewed, Taking!Move
<1>4. TakingTypes'
  BY <1>1, <1>2, <1>3 DEF TakingInv, TakingTypes, Taking!TypeOK
<1>5. Numbered'
  BY <1>1, <1>3 DEF TakingInv, Numbered, SoundCall, IsSave, ShownFor
<1> QED
  BY <1>1, <1>2, <1>4, <1>5, AnswersStay DEF TakingInv, OnAttempt

\* A test is asked for.
LEMMA StartAttemptKeeps ==
  ASSUME TakingInv, Taking!TakingAssumption, Taking!StartAttempt
  PROVE  TakingInv'
<1>1. /\ UNCHANGED <<timed, status, late, saved, attempt, answers, submitting, submitted, left,
                     autosave, shown, doubt>>
      /\ screen' = "loading" /\ watch' \in [attempt : 0 .. Allowed, busy : BOOLEAN]
  BY DEF TakingInv, TakingTypes, Taking!TypeOK, Taking!StartAttempt, Taking!GoTo,
         Taking!Watching, Taking!server, Taking!history
<1>2. /\ Taking!Send("start", 0, Taking!NoAnswers) /\ 0 \in 0 .. Allowed
      /\ Taking!NoAnswers \in Taking!Answers
  BY TakingBounds DEF Taking!StartAttempt
<1>3. /\ Numbered'
      /\ count' \in [choices : Nat, calls : 0 .. MaxCalls, renewals : Nat, lost : Nat]
      /\ calls' \subseteq CallSet
      /\ \E c \in calls' : c.kind = "start" /\ calls' = calls \cup {c}
  BY <1>1, <1>2, RequestSentKeeps DEF CallSet
<1>4. TakingTypes'
  BY <1>1, <1>3 DEF TakingInv, TakingTypes, Taking!TypeOK, CallSet
<1>5. /\ \A d \in calls : IsSave(d) => d \in calls'
      /\ \A d \in calls' : IsSave(d) => d \in calls
  BY <1>3 DEF IsSave
<1> QED
  BY <1>1, <1>3, <1>4, <1>5, AnswersStay

\* A submission, by a click or by the countdown, with what its closure has seen.
LEMMA SubmitKeeps ==
  ASSUME TakingInv, Taking!TakingAssumption, Taking!ClickSubmit \/ Taking!TimeUp
  PROVE  TakingInv'
<1>1. /\ UNCHANGED <<timed, status, late, saved, screen, attempt, answers, watch, autosave,
                     shown, doubt>>
      /\ left' \in {"none", "some", "zero"} /\ submitted' \in BOOLEAN
  BY DEF TakingInv, TakingTypes, Taking!TypeOK, Taking!ClickSubmit, Taking!TimeUp, Taking!server
<1>2. \/ UNCHANGED <<submitting, calls, count>>
      \/ \E a \in Taking!Attempts :
           Taking!Send("submit", a, Taking!NoAnswers) /\ submitting' = TRUE
  BY DEF Taking!ClickSubmit, Taking!TimeUp, Taking!SubmitTest, TakingInv, TakingTypes,
         Taking!TypeOK, Taking!Attempts
<1>3. CASE UNCHANGED <<submitting, calls, count>>
  <2>1. TakingTypes' /\ Numbered'
    BY <1>1, <1>3 DEF TakingInv, TakingTypes, Taking!TypeOK, Numbered, SoundCall, IsSave, ShownFor
  <2> QED
    BY <1>1, <1>3, <2>1, AnswersStay DEF TakingInv, OnAttempt
<1>4. ASSUME NEW a \in Taking!Attempts, Taking!Send("submit", a, Taking!NoAnswers),
             submitting' = TRUE
      PROVE  TakingInv'
  <2>1. a \in 0 .. Allowed /\ Taking!NoAnswers \in Taking!Answers
    BY TakingBounds DEF Taking!Attempts
  <2>2. /\ Numbered'
        /\ count' \in [choices : Nat, calls : 0 .. MaxCalls, renewals : Nat, lost : Nat]
        /\ calls' \subseteq CallSet
        /\ \E c \in calls' : c.kind = "submit" /\ calls' = calls \cup {c}
    BY <1>1, <1>4, <2>1, RequestSentKeeps DEF CallSet
  <2>3. TakingTypes'
    BY <1>1, <1>4, <2>2 DEF TakingInv, TakingTypes, Taking!TypeOK, CallSet
  <2>4. /\ \A d \in calls : IsSave(d) => d \in calls'
        /\ \A d \in calls' : IsSave(d) => d \in calls
    BY <2>2 DEF IsSave
  <2> QED
    BY <1>1, <2>2, <2>3, <2>4, AnswersStay DEF TakingInv, OnAttempt
<1> QED
  BY <1>2, <1>3, <1>4

\* The result of a submission.
LEMMA SubmittedKeeps ==
  ASSUME TakingInv, Taking!TakingAssumption, NEW c \in calls, Taking!Submitted(c)
  PROVE  TakingInv'
<1>1. /\ UNCHANGED <<timed, status, late, saved, attempt, answers, submitted, left, autosave,
                     count, shown, doubt>>
      /\ submitting' = FALSE /\ calls' = calls \ {c} /\ ~IsSave(c)
      /\ screen' \in {"result", screen}
  BY DEF Taking!Submitted, Taking!server, Taking!history, IsSave
<1>2. watch' \in [attempt : 0 .. Allowed, busy : BOOLEAN]
  BY <1>1 DEF Taking!Submitted, Taking!Watching, TakingInv, TakingTypes, Taking!TypeOK
<1>3. calls' \subseteq CallSet /\ Numbered'
  BY <1>1, CallTaken DEF TakingInv, Numbered
<1>4. TakingTypes'
  BY <1>1, <1>2, <1>3 DEF TakingInv, TakingTypes, Taking!TypeOK, CallSet
<1> QED
  BY <1>1, <1>3, <1>4, AnswersStay DEF TakingInv, OnAttempt

\* An attempt is taken up: nothing is answered on the page yet.
LEMMA AttemptStartedKeeps ==
  ASSUME TakingInv, Taking!TakingAssumption, NEW c \in calls, Taking!AttemptStarted(c)
  PROVE  TakingInv'
<1>1. /\ UNCHANGED <<timed, status, late, saved, submitting, submitted, autosave, count, shown,
                     doubt>>
      /\ calls' = calls \ {c} /\ ~IsSave(c)
  BY DEF Taking!AttemptStarted, Taking!server, Taking!history, IsSave
<1>2. calls' \subseteq CallSet /\ Numbered'
  BY <1>1, CallTaken DEF TakingInv, Numbered
<1>3. CASE c.reply = "ok"
  <2>1. /\ attempt' = c.attempt /\ answers' = Taking!NoAnswers /\ screen' = "question"
        /\ left' \in {"none", "some", "zero"}
    BY <1>3 DEF Taking!AttemptStarted, TakingInv, TakingTypes, Taking!TypeOK
  <2>2. /\ c.attempt \in Taking!Attempts /\ status[c.attempt] # "none"
        /\ c.attempt \in 0 .. Allowed /\ c.attempt # 0
    BY <1>3 DEF Taking!AttemptStarted, TakingInv, Numbered, SoundCall, TakingTypes,
                Taking!TypeOK, Taking!Attempts
  <2>3. watch' \in [attempt : 0 .. Allowed, busy : BOOLEAN]
    BY <1>1, <2>1, <2>2 DEF Taking!AttemptStarted, Taking!Watching, TakingInv, TakingTypes,
                            Taking!TypeOK
  <2>4. DOMAIN answers' = {} /\ answers' \in Taking!Answers
    BY <2>1, TakingBounds
  <2>5. TakingTypes'
    BY <1>1, <1>2, <2>1, <2>2, <2>3, <2>4 DEF TakingInv, TakingTypes, Taking!TypeOK, CallSet
  <2>6. OnAttempt'
    BY <1>1, <2>1, <2>2, <2>4 DEF OnAttempt, ShownFor
  <2>7. Waits'
    BY <1>1, <2>4 DEF TakingInv, Waits, ShownFor, Carries
  <2>8. LastSaveCarries'
    BY <2>4 DEF LastSaveCarries
  <2>9. Taking!StoredWasShown'
    BY <1>1 DEF TakingInv, Taking!StoredWasShown
  <2> QED
    BY <1>2, <2>5, <2>6, <2>7, <2>8, <2>9 DEF TakingInv
<1>4. CASE c.reply # "ok"
  <2>1. UNCHANGED <<attempt, answers, left>> /\ screen' = "start"
    BY <1>4 DEF Taking!AttemptStarted
  <2>2. watch' \in [attempt : 0 .. Allowed, busy : BOOLEAN]
    BY <1>1, <2>1 DEF Taking!AttemptStarted, Taking!Watching, TakingInv, TakingTypes,
                      Taking!TypeOK
  <2>3. TakingTypes'
    BY <1>1, <1>2, <2>1, <2>2 DEF TakingInv, TakingTypes, Taking!TypeOK, CallSet
  <2> QED
    BY <1>1, <1>2, <2>1, <2>3, AnswersStay
<1> QED
  BY <1>3, <1>4

\* A save is lost, or it is served: a later one is under way, or it was the last.
LEMMA SaveOver ==
  ASSUME TakingInv, NEW c \in calls, IsSave(c), calls' = calls \ {c},
         UNCHANGED <<status, attempt, answers, autosave>>,
         c.id > doubt.last => doubt'.last = c.id /\ (doubt'.open \/ (Carries(c.attempt, c.answers) => StoredCarries')),
         c.id <= doubt.last => doubt'.last = doubt.last /\ (doubt'.open \/ (doubt' = doubt /\ saved' = saved))
  PROVE  LastSaveCarries'
<1> SUFFICES ASSUME autosave = Taking!NoSave, DOMAIN answers # {}
             PROVE  LastSaveCarries'
  BY DEF LastSaveCarries, Taking!NoSave, Taking!NoAnswers
<1>1. \A a, ans : Carries(a, ans) <=> Carries(a, ans)'
  BY DEF Carries
<1>2. \A d \in calls : d.id \in Nat /\ (d # c => d.id # c.id)
  BY DEF TakingInv, TakingTypes, Taking!TypeOK, Numbered
<1>3. doubt.last \in Nat
  BY DEF TakingInv, TakingTypes
<1>4. ASSUME NEW l \in calls, IsSave(l), l.id > doubt.last, Carries(l.attempt, l.answers),
             \A d \in calls : IsSave(d) => d.id <= l.id
      PROVE  LastSaveCarries'
  <2>1. CASE l = c
    <3>1. /\ doubt'.last = c.id /\ (doubt'.open \/ StoredCarries')
          /\ \A d \in calls' : IsSave(d) => d.id < doubt'.last
      BY <1>2, <1>4, <2>1
    <3> QED
      BY <3>1 DEF LastSaveCarries, IsSave
  <2>2. CASE l # c
    <3>1. l \in calls' /\ l.id > doubt'.last
      BY <1>2, <1>3, <1>4, <2>2
    <3> QED
      BY <1>1, <1>4, <3>1 DEF LastSaveCarries, IsSave
  <2> QED
    BY <2>1, <2>2
<1>5. ASSUME \A d \in calls : IsSave(d) => d.id < doubt.last, doubt.open \/ StoredCarries
      PROVE  LastSaveCarries'
  <2>1. doubt'.last = doubt.last
    BY <1>2, <1>3, <1>5
  <2>2. doubt'.open \/ StoredCarries'
    <3>1. doubt'.open \/ (doubt' = doubt /\ saved' = saved)
      BY <1>2, <1>3, <1>5
    <3> QED
      BY <1>5, <3>1 DEF StoredCarries, Carries
  <2> QED
    BY <1>5, <2>1, <2>2 DEF LastSaveCarries, IsSave
<1> QED
  BY <1>4, <1>5 DEF TakingInv, LastSaveCarries

\* A request is lost.
LEMMA CallLostKeeps ==
  ASSUME TakingInv, Taking!TakingAssumption, NEW c \in calls, Taking!Lose(c)
  PROVE  TakingInv'
<1>1. /\ UNCHANGED <<timed, status, late, saved, screen, attempt, answers, submitting, submitted,
                     left, watch, autosave, shown>>
      /\ count' \in [choices : Nat, calls : 0 .. MaxCalls, renewals : Nat, lost : Nat]
      /\ count'.calls = count.calls
  BY DEF Taking!Lose, Taking!server, Taking!page, TakingInv, TakingTypes
<1>2. c \in CallSet /\ c.id <= count.calls
  BY DEF TakingInv, TakingTypes, Taking!TypeOK, CallSet, Numbered, SoundCall
<1>3. CASE IsSave(c)
  <2>1. /\ calls' = calls \ {c}
        /\ doubt' = IF c.id > doubt.last THEN [last |-> c.id, open |-> TRUE] ELSE doubt
    BY <1>3 DEF Taking!Lose, IsSave
  <2>2. doubt' \in [last : 0 .. MaxCalls, open : BOOLEAN] /\ doubt'.last <= count.calls
    BY <1>2, <2>1 DEF CallSet, TakingInv, TakingTypes, Numbered
  <2>3. calls' \subseteq CallSet /\ Numbered'
    BY <1>1, <2>1, <2>2, CallTaken
  <2>4. TakingTypes'
    BY <1>1, <2>2, <2>3 DEF TakingInv, TakingTypes, Taking!TypeOK, CallSet
  <2>5. LastSaveCarries'
    <3>1. doubt.last \in Nat /\ c.id \in Nat
      BY <1>2 DEF CallSet, TakingInv, TakingTypes
    <3>2. c.id > doubt.last => doubt'.last = c.id /\ doubt'.open
      BY <2>1
    <3>3. c.id <= doubt.last => doubt' = doubt
      BY <2>1, <3>1
    <3> QED
      BY <1>1, <1>3, <2>1, <3>2, <3>3, SaveOver
  <2>6. OnAttempt' /\ Waits' /\ Taking!StoredWasShown'
    BY <1>1 DEF TakingInv, OnAttempt, Waits, ShownFor, Carries, Taking!StoredWasShown
  <2> QED
    BY <2>3, <2>4, <2>5, <2>6 DEF TakingInv
<1>4. CASE ~IsSave(c)
  <2>1. Taking!Answer(c, "error") /\ doubt' = doubt
    BY <1>4 DEF Taking!Lose, IsSave
  <2>2. calls' = (calls \ {c}) \cup {[c EXCEPT !.reply = "error", !.attempt = c.attempt]}
    <3>1. [c EXCEPT !.reply = "error"] = [c EXCEPT !.reply = "error", !.attempt = c.attempt]
      BY <1>2 DEF CallSet
    <3> QED
      BY <2>1, <3>1 DEF Taking!Answer
  <2>3. c.attempt \in 0 .. Allowed /\ (c.kind = "submit" => c.attempt \in Taking!Attempts)
    BY <1>2 DEF CallSet, TakingInv, Numbered, SoundCall
  <2>4. status' \in [Taking!Attempts -> {"none", "in_progress", "scored"}]
    BY <1>1 DEF TakingInv, TakingTypes, Taking!TypeOK
  <2> QED
    BY <1>1, <1>4, <2>1, <2>2, <2>3, <2>4, AnsweredKeeps
<1> QED
  BY <1>3, <1>4

\* A save is served: what it carries is stored, next to what was there.
LEMMA ServeSaveKeeps ==
  ASSUME TakingInv, Taking!TakingAssumption, NEW c \in calls, Taking!ServeSave(c)
  PROVE  TakingInv'
<1>1. /\ UNCHANGED <<timed, status, late, screen, attempt, answers, submitting, submitted,
                     left, watch, autosave, count, shown>>
      /\ calls' = calls \ {c} /\ IsSave(c)
      /\ doubt' = IF c.id > doubt.last THEN [last |-> c.id, open |-> FALSE]
                  ELSE [doubt EXCEPT !.open = TRUE]
  BY DEF Taking!ServeSave, Taking!Waiting, Taking!page, IsSave
<1>2. /\ c \in CallSet /\ c.id <= count.calls
      /\ ShownFor(c.attempt, c.answers) /\ c.attempt \in Taking!Attempts
  BY <1>1 DEF TakingInv, TakingTypes, Taking!TypeOK, CallSet, Numbered, SoundCall, ShownFor
<1>3. doubt.last \in Nat /\ c.id \in Nat /\ doubt \in [last : 0 .. MaxCalls, open : BOOLEAN]
  BY <1>2 DEF CallSet, TakingInv, TakingTypes
<1>4. doubt' \in [last : 0 .. MaxCalls, open : BOOLEAN] /\ doubt'.last <= count.calls
  <2>1. c.id \in 0 .. MaxCalls /\ doubt.last <= count.calls
    BY <1>2 DEF CallSet, TakingInv, Numbered
  <2>2. CASE c.id > doubt.last
    BY <1>1, <1>2, <2>1, <2>2
  <2>3. CASE ~(c.id > doubt.last)
    BY <1>1, <1>3, <2>1, <2>3
  <2> QED
    BY <2>2, <2>3
<1>5. calls' \subseteq CallSet /\ Numbered'
  BY <1>1, <1>4, CallTaken
<1> DEFINE old == saved[c.attempt]
           both == [q \in DOMAIN old \cup DOMAIN c.answers |->
                      IF q \in DOMAIN c.answers THEN c.answers[q] ELSE old[q]]
<1>6. old \in Taking!Answers /\ c.answers \in Taking!Answers
  BY <1>2 DEF CallSet, TakingInv, TakingTypes, Taking!TypeOK
<1>7. both \in Taking!Answers /\ DOMAIN both = DOMAIN old \cup DOMAIN c.answers
  <2>1. DOMAIN old \subseteq Questions /\ \A q \in DOMAIN old : old[q] \in SUBSET Options
    BY <1>6, AnswersAre
  <2>2. /\ DOMAIN c.answers \subseteq Questions
        /\ \A q \in DOMAIN c.answers : c.answers[q] \in SUBSET Options
    BY <1>6, AnswersAre
  <2>3. /\ DOMAIN both = DOMAIN old \cup DOMAIN c.answers
        /\ both \in [DOMAIN old \cup DOMAIN c.answers -> SUBSET Options]
    BY <2>1, <2>2
  <2> HIDE DEF both
  <2> QED
    BY <2>1, <2>2, <2>3, AnswersAre
<1>8. /\ \A q \in DOMAIN c.answers : q \in DOMAIN both /\ both[q] = c.answers[q]
      /\ \A q \in DOMAIN both : q \notin DOMAIN c.answers => q \in DOMAIN old /\ both[q] = old[q]
  OBVIOUS
<1> HIDE DEF both
<1>9. \/ status[c.attempt] # "in_progress" /\ saved' = saved
      \/ saved' = [saved EXCEPT ![c.attempt] = both]
  BY DEF Taking!ServeSave, both
<1>10. TakingTypes'
  <2>1. saved' \in [Taking!Attempts -> Taking!Answers]
    BY <1>2, <1>7, <1>9 DEF TakingInv, TakingTypes, Taking!TypeOK
  <2> QED
    BY <1>1, <1>4, <1>5, <2>1 DEF TakingInv, TakingTypes, Taking!TypeOK, CallSet
<1>11. OnAttempt' /\ Waits'
  BY <1>1 DEF TakingInv, OnAttempt, Waits, ShownFor, Carries
<1>12. Taking!StoredWasShown'
  <2>1. \A q \in DOMAIN both : <<q, both[q]>> \in shown[c.attempt]
    BY <1>2, <1>8 DEF TakingInv, Taking!StoredWasShown, ShownFor
  <2>2. \A a \in Taking!Attempts : saved'[a] = saved[a] \/ (a = c.attempt /\ saved'[a] = both)
    BY <1>2, <1>9 DEF TakingInv, TakingTypes, Taking!TypeOK
  <2> QED
    BY <1>1, <2>1, <2>2 DEF TakingInv, Taking!StoredWasShown
<1>13. LastSaveCarries'
  <2>1. c.id > doubt.last => /\ doubt'.last = c.id
                             /\ Carries(c.attempt, c.answers) => StoredCarries'
    <3>1. SUFFICES ASSUME Carries(c.attempt, c.answers), attempt # 0,
                          status[attempt] = "in_progress", DOMAIN answers # {}
                   PROVE  \A q \in DOMAIN answers : q \in DOMAIN saved'[attempt]
                                                   /\ saved'[attempt][q] = answers[q]
      BY <1>1 DEF StoredCarries, Carries
    <3>2. attempt = c.attempt /\ saved'[c.attempt] = both
      BY <1>2, <1>9, <3>1 DEF Carries, TakingInv, TakingTypes, Taking!TypeOK
    <3> QED
      BY <1>8, <3>1, <3>2 DEF Carries
  <2>2. c.id <= doubt.last => doubt'.last = doubt.last /\ doubt'.open
    BY <1>1, <1>3
  <2> QED
    BY <1>1, <2>1, <2>2, SaveOver
<1> QED
  BY <1>5, <1>10, <1>11, <1>12, <1>13 DEF TakingInv

\* The debounce is over: what waited is sent, as the last save.
LEMMA AutosaveFiresKeeps ==
  ASSUME TakingInv, Taking!TakingAssumption, Taking!AutosaveFires
  PROVE  TakingInv'
<1>1. /\ UNCHANGED <<timed, status, late, saved, screen, attempt, answers, submitting, submitted,
                     left, watch, shown, doubt>>
      /\ autosave' = Taking!NoSave
      /\ Taking!Send("save", autosave.attempt, autosave.answers)
  BY DEF Taking!AutosaveFires, Taking!server, Taking!page, Taking!history
<1>2. /\ ShownFor(autosave.attempt, autosave.answers)
      /\ Carries(autosave.attempt, autosave.answers)
      /\ autosave.attempt \in 0 .. Allowed /\ autosave.answers \in Taking!Answers
  BY DEF Taking!AutosaveFires, TakingInv, Waits, TakingTypes, Taking!TypeOK
<1>3. /\ Numbered'
      /\ count' \in [choices : Nat, calls : 0 .. MaxCalls, renewals : Nat, lost : Nat]
      /\ calls' \subseteq CallSet
      /\ \E c \in calls' : /\ c.kind = "save" /\ c.attempt = autosave.attempt
                           /\ c.answers = autosave.answers /\ calls' = calls \cup {c}
                           /\ c.id = count.calls + 1
  BY <1>1, <1>2, RequestSentKeeps DEF CallSet
<1>4. Taking!NoSave \in [attempt : 0 .. Allowed, answers : Taking!Answers]
  BY TakingBounds DEF Taking!NoSave
<1>5. TakingTypes'
  BY <1>1, <1>3, <1>4 DEF TakingInv, TakingTypes, Taking!TypeOK, CallSet
<1>6. OnAttempt' /\ Waits' /\ Taking!StoredWasShown'
  BY <1>1 DEF TakingInv, OnAttempt, Waits, ShownFor, Taking!StoredWasShown, Taking!NoSave,
              Taking!NoAnswers
<1>7. LastSaveCarries'
  <2>1. PICK c \in calls' : /\ c.kind = "save" /\ c.attempt = autosave.attempt
                            /\ c.answers = autosave.answers /\ calls' = calls \cup {c}
                            /\ c.id = count.calls + 1
    BY <1>3
  <2>2. /\ doubt.last <= count.calls /\ doubt.last \in Nat /\ count.calls \in Nat
        /\ \A d \in calls : d.id <= count.calls /\ d.id \in Nat
    BY DEF TakingInv, TakingTypes, Taking!TypeOK, Numbered, SoundCall
  <2>3. c.id > doubt'.last /\ \A d \in calls' : d.id <= c.id
    BY <1>1, <2>1, <2>2
  <2>4. Carries(c.attempt, c.answers)'
    BY <1>1, <1>2, <2>1 DEF Carries
  <2> QED
    BY <2>1, <2>3, <2>4 DEF LastSaveCarries, IsSave
<1> QED
  BY <1>3, <1>5, <1>6, <1>7 DEF TakingInv

\* An option is clicked: the page shows it, and all its answers wait for the debounce.
LEMMA SelectAnswerKeeps ==
  ASSUME TakingInv, Taking!TakingAssumption, NEW q \in Questions, NEW o \in Options,
         Taking!SelectAnswer(q, o)
  PROVE  TakingInv'
<1>1. /\ UNCHANGED <<timed, status, late, saved, screen, attempt, submitting, submitted, left,
                     watch, calls, doubt>>
      /\ answers' = Taking!Selected(q, o)
      /\ autosave' = [attempt |-> attempt, answers |-> answers']
      /\ shown' = [shown EXCEPT ![attempt] = @ \cup {<<q, answers'[q]>>}]
      /\ screen = "question"
  BY DEF Taking!SelectAnswer, Taking!Autosave, Taking!server
<1>2. count' \in [choices : Nat, calls : 0 .. MaxCalls, renewals : Nat, lost : Nat]
      /\ count'.calls = count.calls
  BY DEF Taking!SelectAnswer, TakingInv, TakingTypes
<1>3. /\ attempt # 0 /\ attempt \in Taking!Attempts /\ attempt \in 0 .. Allowed
      /\ status[attempt] # "none" /\ ShownFor(attempt, answers)
  BY <1>1 DEF TakingInv, OnAttempt, ShownFor, TakingTypes, Taking!TypeOK
<1>4. /\ answers' \in Taking!Answers /\ DOMAIN answers' = DOMAIN answers \cup {q}
      /\ \A p \in DOMAIN answers : p # q => answers'[p] = answers[p]
      /\ answers'[q] \in SUBSET Options
  <2>1. DOMAIN answers \subseteq Questions /\ \A p \in DOMAIN answers : answers[p] \in SUBSET Options
    BY AnswersAre DEF TakingInv, TakingTypes, Taking!TypeOK
  <2>2. PICK s \in SUBSET Options :
          answers' = [p \in DOMAIN answers \cup {q} |-> IF p = q THEN s ELSE answers[p]]
    <3> DEFINE old == IF q \in DOMAIN answers THEN answers[q] ELSE {}
               then == IF q \notin Multi THEN {o}
                       ELSE IF o \in old THEN old \ {o} ELSE old \cup {o}
    <3>1. old \in SUBSET Options
      BY <2>1
    <3>2. then \in SUBSET Options
      BY <3>1
    <3>3. answers' = [p \in DOMAIN answers \cup {q} |-> IF p = q THEN then ELSE answers[p]]
      BY <1>1 DEF Taking!Selected
    <3> HIDE DEF old, then
    <3> QED
      BY <3>2, <3>3
  <2>3. /\ DOMAIN answers' = DOMAIN answers \cup {q}
        /\ answers' \in [DOMAIN answers \cup {q} -> SUBSET Options]
    BY <2>1, <2>2
  <2> QED
    BY <2>1, <2>2, <2>3, AnswersAre
<1>5. /\ shown' \in [Taking!Attempts -> SUBSET (Questions \X SUBSET Options)]
      /\ \A a \in Taking!Attempts : shown[a] \subseteq shown'[a]
      /\ <<q, answers'[q]>> \in shown'[attempt]
  BY <1>1, <1>3, <1>4 DEF TakingInv, TakingTypes
<1>6. TakingTypes'
  BY <1>1, <1>2, <1>3, <1>4, <1>5 DEF TakingInv, TakingTypes, Taking!TypeOK
<1>7. Numbered'
  BY <1>1, <1>2, <1>5 DEF TakingInv, Numbered, SoundCall, IsSave, ShownFor
<1>8. ShownFor(attempt, answers)'
  BY <1>1, <1>3, <1>4, <1>5 DEF ShownFor
<1>9. OnAttempt' /\ Waits'
  BY <1>1, <1>3, <1>8 DEF OnAttempt, Waits, Carries
<1>10. LastSaveCarries'
  BY <1>1, <1>3 DEF LastSaveCarries, Taking!NoSave
<1>11. Taking!StoredWasShown'
  BY <1>1, <1>5 DEF TakingInv, Taking!StoredWasShown
<1> QED
  BY <1>6, <1>7, <1>9, <1>10, <1>11 DEF TakingInv

\* Every step keeps the inductive invariant.
LEMMA TakingStep ==
  ASSUME TakingInv, Taking!TakingAssumption, [Taking!Next]_Taking!takingVars
  PROVE  TakingInv'
<1>1. CASE Taking!Next
  BY <1>1, TakingStartServed, ServeSaveKeeps, ServeSubmitKeeps, CallLostKeeps, AttemptStartedKeeps,
     SubmittedKeeps, ScreensKeep, StartAttemptKeeps, AutosaveFiresKeeps, SubmitKeeps,
     SelectAnswerKeeps DEF Taking!Next
<1>2. CASE UNCHANGED Taking!takingVars
  <2>1. UNCHANGED <<timed, status, late, saved, screen, attempt, answers, submitting, submitted,
                    left, watch, autosave, calls, count, shown, doubt>>
    BY <1>2 DEF Taking!takingVars, Taking!server, Taking!page, Taking!history
  <2>2. TakingTypes' /\ Numbered'
    BY <2>1 DEF TakingInv, TakingTypes, Taking!TypeOK, Numbered, SoundCall, IsSave, ShownFor
  <2> QED
    BY <2>1, <2>2, AnswersStay DEF TakingInv, OnAttempt
<1> QED
  BY <1>1, <1>2

\* The inductive invariant: what waits for the debounce carries all the page shows, and so
\* does the save that was sent last, or what it left in the rows unless it was lost or
\* overtaken; requests carry answers that were shown for their attempt.
THEOREM TakingAlwaysCoherent ==
  ASSUME Taking!TakingAssumption PROVE Taking!Spec => []TakingInv
<1>1. Taking!Init => TakingInv
  BY TakingStart
<1>2. TakingInv /\ [Taking!Next]_Taking!takingVars => TakingInv'
  BY TakingStep
<1> QED
  BY <1>1, <1>2, PTL DEF Taking!Spec

\* Every variable keeps to its domain, and what is stored for an attempt is what the page
\* showed for that attempt at some time, whatever is started, resumed and saved late.
THEOREM StoredWasAlwaysShown ==
  ASSUME Taking!TakingAssumption PROVE Taking!Spec => [](Taking!TypeOK /\ Taking!StoredWasShown)
<1>1. TakingInv => Taking!TypeOK /\ Taking!StoredWasShown
  BY DEF TakingInv, TakingTypes
<1> QED
  BY <1>1, TakingAlwaysCoherent, PTL

\* While an attempt can be submitted every answer the page shows is stored, unless a save is
\* on its way, or the last one was lost or overtaken: autosave replaces the save that waited.
THEOREM AnswersAreAlwaysStored ==
  ASSUME Taking!TakingAssumption PROVE Taking!Spec => []Taking!AnswersAreStored
<1>1. TakingInv => Taking!AnswersAreStored
  <2> SUFFICES ASSUME TakingInv, attempt # 0, status[attempt] = "in_progress",
                      ~Taking!Unsaved, ~doubt.open, NEW q \in DOMAIN answers
               PROVE  q \in DOMAIN saved[attempt] /\ saved[attempt][q] = answers[q]
    BY DEF Taking!AnswersAreStored
  <2>1. autosave = Taking!NoSave /\ \A c \in calls : ~IsSave(c)
    BY DEF Taking!Unsaved, IsSave
  <2>2. StoredCarries
    BY <2>1 DEF TakingInv, LastSaveCarries
  <2> QED
    BY <2>2 DEF StoredCarries, Carries
<1> QED
  BY <1>1, TakingAlwaysCoherent, PTL

-----------------------------------------------------------------------------
(* The deliveries of tests, for any employees, any first deliveries, dialogs,        *)
(* handlers, attempts, failures and lost answers: what the page does to groups of    *)
(* deliveries.  MaxLost, a constant of TestTaking, bounds the losses here.           *)

CONSTANTS Employees, InitialRows, MaxRows, MaxGestures, MaxTurns, MaxHandlers
VARIABLES rows, assigned, wish, view, statuses, fetching, loading, sheet, edit, saving, extend,
          retake, handlers, tally, behind, crossed, failed

\* The page on which tests are assigned.
Page == INSTANCE DeliveriesPage WITH doubt <- behind

\* Deliveries, entries of the list, results, the form of the edit sheet, and wishes.
Participants == Employees \cup {0}
DeliveryRow ==
  [user : Participants, allowed : Nat \ {0}, open : BOOLEAN, extra : Nat, used : Nat,
   run : Page!Runs]
Entry   == [user : Participants, allowed : Nat \ {0}, open : BOOLEAN]
Outcome == [run : Page!Runs \cup {"unknown"}, count : Nat]
Form    == [ids : SUBSET Nat, allowed : Nat, open : BOOLEAN,
            touched : SUBSET {"open", "allowed"}]
Wished  == [allowed : Nat, open : BOOLEAN, extra : Nat]
Ops     == {"load", "reload", "status", "create", "edit", "stop", "extend", "retake"}

\* A handler changes deliveries; it belongs to a button that it disables.
Alters(h)  == h.op \in {"edit", "stop", "retake"}
Busy(h, k) == h.op = k \/ h.from = k

\* The deliveries, or employees, that the loop has not got to.
Remaining(h) ==
  {h.todo[k] : k \in {j \in DOMAIN h.todo : h.answer = "ok" => j > 1}}

\* What is known of a handler whatever it is about.
Plain(h) ==
  /\ h = [id |-> h.id, op |-> h.op, todo |-> h.todo, arg |-> h.arg, from |-> h.from,
          answer |-> h.answer, view |-> h.view, mixed |-> h.mixed, got |-> h.got]
  /\ h.op \in Ops /\ h.todo \in Seq(Nat) /\ h.todo # << >> /\ h.arg \in Form
  /\ h.answer \in {"none", "ok", "error"} /\ h.mixed \in BOOLEAN
  /\ h.from \in {"none", "create", "edit", "stop", "retake"}
  /\ ~Page!Lists(h) => h.from = "none"
  /\ h.got \in Seq(Outcome)
  /\ h.op \in {"extend", "retake"} => Len(h.todo) = 1
  /\ h.op = "edit" => h.arg.allowed # 0

\* What it does concerns deliveries that are there, and employees, each once; the list that
\* it brings is what is there, unless it was read before a write.
Handling(h) ==
  /\ Plain(h)
  /\ h.op \in {"status", "edit", "stop", "extend", "retake"} =>
       \A k \in DOMAIN h.todo : h.todo[k] \in DOMAIN rows
  /\ h.op = "create" => /\ h.arg.ids \subseteq Employees
                        /\ \A k \in DOMAIN h.todo : h.todo[k] \in {0} \cup h.arg.ids
                        /\ \A j, k \in DOMAIN h.todo : h.todo[j] = h.todo[k] => j = k
  /\ Page!Lists(h) /\ h.answer = "ok" =>
       /\ h.view \in [DOMAIN h.view -> Entry] /\ DOMAIN h.view \subseteq DOMAIN rows
       /\ ~h.mixed => h.view = Page!Listed

Handled == \A h \in handlers : Handling(h)

\* The domains of the variables.  A form is about deliveries that are there.
PageTypes ==
  /\ rows \in Seq(DeliveryRow) /\ Len(rows) <= MaxRows
  /\ view \in [DOMAIN view -> Entry] /\ DOMAIN view \subseteq DOMAIN rows
  /\ assigned \in [Employees -> Nat] /\ wish \in [Page!Ids -> Wished]
  /\ statuses \in [Page!Ids -> Outcome] /\ fetching \subseteq Page!Ids
  /\ loading \in BOOLEAN /\ saving \in BOOLEAN
  /\ sheet \in [open : BOOLEAN, creating : BOOLEAN, users : SUBSET Employees]
  /\ edit \in Form
  /\ edit # Page!NoEdit => edit.allowed # 0 /\ edit.ids # {} /\ edit.ids \subseteq DOMAIN rows
  /\ extend \in [target : {0} \cup DOMAIN rows, loading : BOOLEAN, result : Nat]
  /\ retake \in [target : {0} \cup DOMAIN rows, loading : BOOLEAN]
  /\ tally \in [gestures : Nat, turns : Nat, lost : Nat]
  /\ behind \in BOOLEAN /\ crossed \in BOOLEAN /\ failed \in BOOLEAN

\* One sheet or dialog is open at a time.
OneDialog ==
  /\ sheet.open => edit = Page!NoEdit /\ extend.target = 0 /\ retake.target = 0
  /\ edit # Page!NoEdit => extend.target = 0 /\ retake.target = 0
  /\ extend.target # 0 => retake.target = 0

\* A button is disabled while the handler behind it, or the list that it loads at last, is
\* under way, and there is one of them; the loading screen has a list to wait for.
Buttons ==
  /\ \A k \in {"create", "edit", "retake", "extend"} :
       \A g, h \in handlers : Busy(g, k) /\ Busy(h, k) => g = h
  /\ sheet.creating <=> \E h \in handlers : Busy(h, "create")
  /\ saving <=> \E h \in handlers : Busy(h, "edit")
  /\ retake.loading <=> \E h \in handlers : Busy(h, "retake")
  /\ extend.loading <=> \E h \in handlers : Busy(h, "extend")
  /\ loading => \E h \in handlers : h.op = "load"

\* The list is that of the server, or a list will follow, or the page is in doubt.
InTouch ==
  behind \/ view = Page!Listed
         \/ \E h \in handlers : Page!Lists(h) \/ Alters(h) \/ h.op = "create"

\* Deliveries that are not there have got no wish; and more time is granted once per wish.
Extras ==
  /\ \A i \in Page!Ids \ DOMAIN rows : wish[i] = Page!Limits(Page!New(0))
  /\ \A i \in DOMAIN rows : rows[i].extra <= wish[i].extra
  /\ \A h \in handlers : h.op = "extend" /\ h.answer = "none" =>
       rows[h.todo[1]].extra < wish[h.todo[1]].extra

\* A delivery is as was asked for last, or a handler will get to it.
AsAsked ==
  \A i \in DOMAIN rows :
    /\ \/ rows[i].allowed = wish[i].allowed
       \/ \E h \in handlers : h.op \in {"edit", "retake"} /\ i \in Remaining(h)
    /\ \/ (rows[i].open <=> wish[i].open)
       \/ \E h \in handlers : h.op \in {"edit", "stop"} /\ i \in Remaining(h)

\* What a handler does is what was asked for.
Obeys(h) ==
  \A k \in DOMAIN h.todo :
    /\ h.op = "edit" => /\ wish[h.todo[k]].allowed = h.arg.allowed
                        /\ (wish[h.todo[k]].open <=> h.arg.open)
    /\ h.op = "stop" => ~wish[h.todo[k]].open
    /\ h.op = "retake" /\ h.answer = "none" =>
         rows[h.todo[k]].allowed + 1 = wish[h.todo[k]].allowed

\* The form that is open has a handler, or nobody writes, and what is not touched in it is
\* what the deliveries have.
FormIsTrue ==
  edit # Page!NoEdit =>
    \/ \E h \in handlers : h.op = "edit"
    \/ /\ \A h \in handlers : ~Page!Writes(h)
       /\ \A i \in edit.ids : /\ "allowed" \notin edit.touched => edit.allowed = rows[i].allowed
                              /\ "open" \notin edit.touched => (edit.open <=> rows[i].open)

\* Unless handlers crossed, one at a time changes deliveries.
Altered ==
  ~crossed => /\ \A g, h \in handlers : Alters(g) /\ Alters(h) => g = h
              /\ AsAsked
              /\ \A h \in handlers : Obeys(h)
              /\ FormIsTrue

\* The deliveries of an employee are those that were assigned, and that of the sheet that is
\* being done, if its loop has got there.
Of(u) == {i \in DOMAIN rows : rows[i].user = u}
Given(u) == assigned[u] + IF u \in InitialRows THEN 1 ELSE 0
Counted ==
  ~failed => \A u \in Employees :
    /\ (\A h \in handlers : h.op # "create") => Cardinality(Of(u)) = Given(u)
    /\ \A h \in handlers : h.op = "create" /\ h.answer # "error" =>
         Cardinality(Of(u)) = Given(u) + IF u \in h.arg.ids \ Remaining(h) THEN 1 ELSE 0

\* What every state of the page of deliveries satisfies.
PageInv ==
  PageTypes /\ Handled /\ OneDialog /\ Buttons /\ InTouch /\ Extras /\ Altered /\ Counted

-----------------------------------------------------------------------------
\* A finite set in any order, each element once.
LEMMA OrderIs ==
  ASSUME NEW S, IsFiniteSet(S), NEW s \in Page!SetToSeqs(S)
  PROVE  /\ s \in Seq(S) /\ Len(s) = Cardinality(S) /\ Cardinality(S) \in Nat
         /\ DOMAIN s = 1 .. Len(s)
         /\ \A j, k \in DOMAIN s : s[j] = s[k] => j = k
         /\ \A x \in S : \E k \in DOMAIN s : s[k] = x
         /\ S # {} => s # << >>
<1> DEFINE n == Cardinality(S)
           D == 1 .. n
<1>1. n \in Nat
  BY FS_CardinalityType
<1>2. \A T : Page!Cardinality(T) = Cardinality(T)
  BY DEF Page!Cardinality, Cardinality
<1>3. s \in [D -> S] /\ \A j, k \in D : j # k => s[j] # s[k]
  BY <1>2 DEF Page!SetToSeqs
<1>4. s \in Injection(D, S)
  BY <1>3 DEF Injection, IsInjective
<1>5. Cardinality(D) = n
  BY <1>1, FS_Interval
<1>6. s \in Surjection(D, S)
  BY <1>4, <1>5, FS_Injection
<1>7. \A x \in S : \E k \in D : s[k] = x
  BY <1>6 DEF Surjection
<1>8. s \in Seq(S) /\ Len(s) = n /\ DOMAIN s = D
  BY <1>1, <1>3
<1>9. S # {} => s # << >>
  BY <1>7, <1>8, <1>1
<1> QED
  BY <1>1, <1>3, <1>7, <1>8, <1>9

\* A set of natural numbers with a bound has a greatest element.
LEMMA LeastBound ==
  ASSUME NEW B \in SUBSET Nat, B # {}
  PROVE  \E m \in B : \A k \in B : m <= k
<1>1. PICK m \in B : \A k \in B : ~(<<k, m>> \in OpToRel(<, Nat))
  BY NatLessThanWellFounded, WFMin
<1>2. \A k \in B : ~(k < m)
  BY <1>1 DEF OpToRel
<1> QED
  BY <1>2

LEMMA GreatestElement ==
  ASSUME NEW n \in Nat, NEW g \in SUBSET (0 .. n), g # {}
  PROVE  Page!Max(g) \in g
<1> DEFINE B == {m \in Nat : \A x \in g : x <= m}
<1>1. n \in B /\ B \in SUBSET Nat
  OBVIOUS
<1>2. PICK m \in B : \A k \in B : m <= k
  <2> HIDE DEF B
  <2> QED
    BY <1>1, LeastBound
<1>3. m \in Nat /\ \A x \in g : x \in Nat /\ x <= m
  BY <1>2
<1>4. m \in g
  <2>1. SUFFICES ASSUME m \notin g PROVE FALSE
    OBVIOUS
  <2>2. PICK y \in g : TRUE
    OBVIOUS
  <2>3. y \in Nat /\ y <= m /\ y # m
    BY <1>3, <2>1, <2>2
  <2>4. m - 1 \in Nat
    BY <1>3, <2>3
  <2>5. \A x \in g : x <= m - 1
    BY <1>3, <2>1
  <2>6. m - 1 \in B
    BY <2>4, <2>5
  <2>7. m <= m - 1
    BY <1>2, <2>6
  <2> QED
    BY <1>3, <2>7
<1>5. \A x \in g : m >= x
  BY <1>3
<1> QED
  BY <1>4, <1>5 DEF Page!Max

\* What is assumed of the constants.
LEMMA PageConstants ==
  ASSUME Page!DeliveriesAssumption
  PROVE  /\ MaxRows \in Nat /\ 0 \notin Employees /\ Employees \subseteq Nat
         /\ Participants \subseteq Nat /\ InitialRows \subseteq Employees
         /\ IsFiniteSet(InitialRows) /\ Cardinality(InitialRows) \in Nat
         /\ Cardinality(InitialRows) <= MaxRows
<1>1. /\ MaxRows \in Nat /\ Employees \subseteq Nat \ {0} /\ InitialRows \subseteq Employees
  BY DEF Page!DeliveriesAssumption
<1>2. IsFiniteSet(Employees) /\ Cardinality(InitialRows) <= MaxRows
  BY DEF Page!DeliveriesAssumption, Page!IsFiniteSet, IsFiniteSet, Page!Cardinality, Cardinality
<1>3. IsFiniteSet(InitialRows) /\ Cardinality(InitialRows) \in Nat
  BY <1>1, <1>2, FS_Subset, FS_CardinalityType
<1> QED
  BY <1>1, <1>2, <1>3 DEF Participants

LEMMA PageStart ==
  ASSUME Page!DeliveriesAssumption, Page!Init PROVE PageInv
<1>0. /\ MaxRows \in Nat /\ Employees \subseteq Nat /\ Participants = Employees \cup {0}
      /\ InitialRows \subseteq Employees /\ Cardinality(InitialRows) <= MaxRows
  BY PageConstants DEF Participants
<1>1. PICK us \in Page!SetToSeqs(InitialRows) : rows = [i \in DOMAIN us |-> Page!New(us[i])]
  BY DEF Page!Init
<1>2. /\ us \in Seq(InitialRows) /\ Len(us) = Cardinality(InitialRows)
      /\ Cardinality(InitialRows) \in Nat /\ DOMAIN us = 1 .. Len(us)
      /\ \A j, k \in DOMAIN us : us[j] = us[k] => j = k
      /\ \A x \in InitialRows : \E k \in DOMAIN us : us[k] = x
  <2>1. IsFiniteSet(InitialRows)
    BY PageConstants
  <2> QED
    BY <2>1, OrderIs
<1>3. PICK h : /\ handlers = {h}
               /\ h = [id |-> 1, op |-> "load", todo |-> <<0>>, arg |-> Page!NoEdit,
                       from |-> "none", answer |-> "none", view |-> << >>, mixed |-> FALSE,
                       got |-> << >>]
  BY DEF Page!Init
<1>4. /\ DOMAIN rows = 1 .. Len(us)
      /\ \A i \in DOMAIN rows : us[i] \in InitialRows /\ rows[i] = Page!New(us[i])
  BY <1>1, <1>2
<1>5. \A i \in DOMAIN rows : rows[i] \in DeliveryRow
  <2>1. ASSUME NEW u \in Employees PROVE Page!New(u) \in DeliveryRow
    BY <1>0, <2>1 DEF DeliveryRow, Page!New, Page!Runs
  <2> QED
    BY <1>0, <1>4, <2>1
<1>6. rows \in Seq(DeliveryRow) /\ Len(rows) = Len(us) /\ DOMAIN rows \subseteq Page!Ids
  <2>1. rows = [i \in 1 .. Len(us) |-> Page!New(us[i])] /\ Len(us) \in Nat
    BY <1>1, <1>2
  <2>2. rows \in Seq(DeliveryRow) /\ Len(rows) = Len(us)
    BY <1>5, <2>1
  <2> QED
    BY <1>0, <1>2, <2>1, <2>2 DEF Page!Ids
<1>7. PageTypes
  <2>1. Page!NoEdit \in Form /\ Page!Unknown \in Outcome
    BY DEF Page!NoEdit, Page!Untouched, Form, Page!Unknown, Outcome
  <2>2. Page!Limits(Page!New(0)) \in Wished
    BY DEF Page!Limits, Page!New, Wished
  <2>3. DOMAIN view = {} /\ view \in [DOMAIN view -> Entry]
    BY DEF Page!Init
  <2> QED
    BY <1>0, <1>2, <1>6, <2>1, <2>2, <2>3 DEF Page!Init, PageTypes
<1>8. Handled
  <2>1. Plain(h)
    BY <1>3 DEF Plain, Ops, Form, Page!NoEdit, Page!Untouched, Page!Lists
  <2> QED
    BY <1>3, <2>1, h.op = "load" /\ h.answer = "none" DEF Handled, Handling
<1>9. OneDialog /\ Buttons /\ InTouch
  BY <1>3 DEF Page!Init, OneDialog, Buttons, InTouch, Busy, Page!Lists
<1>10. Extras /\ Altered
  <2>1. \A i \in Page!Ids : wish[i] = [allowed |-> 1, open |-> TRUE, extra |-> 0]
    BY DEF Page!Init, Page!Limits, Page!New
  <2>2. \A i \in DOMAIN rows : rows[i].allowed = 1 /\ rows[i].open = TRUE /\ rows[i].extra = 0
    BY <1>4 DEF Page!New
  <2>3. Extras
    BY <1>3, <1>6, <2>1, <2>2 DEF Extras, Page!Limits, Page!New
  <2>4. AsAsked
    <3>1. ASSUME NEW i \in DOMAIN rows
          PROVE  rows[i].allowed = wish[i].allowed /\ rows[i].open = wish[i].open
      <4>1. wish[i] = [allowed |-> 1, open |-> TRUE, extra |-> 0]
        BY <1>6, <2>1
      <4>2. wish[i].allowed = 1 /\ wish[i].open = TRUE
        BY <4>1
      <4>3. rows[i].allowed = 1 /\ rows[i].open = TRUE
        BY <2>2
      <4> QED
        BY <4>2, <4>3, Zenon
    <3> QED
      BY <3>1 DEF AsAsked
  <2>5. \A g \in handlers : Obeys(g)
    BY <1>3 DEF Obeys
  <2>6. FormIsTrue
    BY DEF Page!Init, FormIsTrue
  <2> QED
    BY <1>3, <2>3, <2>4, <2>5, <2>6 DEF Altered
<1>11. Counted
  <2>1. ASSUME NEW u \in Employees PROVE Cardinality(Of(u)) = Given(u)
    <3>1. Given(u) = IF u \in InitialRows THEN 1 ELSE 0
      BY DEF Page!Init, Given
    <3>2. CASE u \in InitialRows
      <4>1. PICK k \in DOMAIN us : us[k] = u
        BY <1>2, <3>2
      <4>2. Of(u) = {k}
        BY <1>2, <1>4, <4>1 DEF Of, Page!New
      <4> QED
        BY <3>1, <3>2, <4>2, FS_Singleton
    <3>3. CASE u \notin InitialRows
      <4>1. Of(u) = {}
        BY <1>4, <3>3 DEF Of, Page!New
      <4> QED
        BY <3>1, <3>3, <4>1, FS_EmptySet
    <3> QED
      BY <3>2, <3>3
  <2> QED
    BY <1>3, <2>1 DEF Counted
<1> QED
  BY <1>7, <1>8, <1>9, <1>10, <1>11 DEF PageInv

\* The deliveries, one by one.
LEMMA RowsAre ==
  ASSUME PageTypes, MaxRows \in Nat
  PROVE  /\ DOMAIN rows = 1 .. Len(rows) /\ Len(rows) \in Nat
         /\ \A i \in DOMAIN rows :
              /\ i \in Page!Ids /\ i \in Nat /\ i # 0 /\ rows[i] \in DeliveryRow
              /\ rows[i].allowed \in Nat /\ rows[i].extra \in Nat /\ rows[i].open \in BOOLEAN
<1>1. rows \in Seq(DeliveryRow) /\ Len(rows) <= MaxRows
  BY DEF PageTypes
<1>2. DOMAIN rows = 1 .. Len(rows) /\ Len(rows) \in Nat
  BY <1>1
<1>3. \A i \in DOMAIN rows : rows[i] \in DeliveryRow
  BY <1>1
<1>4. \A i \in DOMAIN rows : i \in Page!Ids /\ i \in Nat /\ i # 0
  BY <1>1, <1>2 DEF Page!Ids
<1> QED
  BY <1>2, <1>3, <1>4 DEF DeliveryRow

-----------------------------------------------------------------------------
\* What goes on while no handler moves, no delivery changes and no button is clicked that
\* starts one.
LEMMA Undisturbed ==
  ASSUME PageInv,
         UNCHANGED <<rows, assigned, wish, view, handlers, loading, saving, behind, failed>>,
         sheet'.creating = sheet.creating, retake'.loading = retake.loading,
         extend'.loading = extend.loading
  PROVE  Handled' /\ Buttons' /\ InTouch' /\ Extras' /\ Counted'
<1>1. Handled'
  BY DEF PageInv, Handled, Handling, Page!Listed
<1>2. Buttons'
  BY DEF PageInv, Buttons
<1>3. InTouch'
  BY DEF PageInv, InTouch, Page!Listed
<1>4. Extras'
  BY DEF PageInv, Extras
<1>5. Counted'
  <2>1. \A u : Of(u)' = Of(u) /\ Given(u)' = Given(u)
    BY DEF Of, Given
  <2> QED
    BY <2>1 DEF PageInv, Counted
<1> QED
  BY <1>1, <1>2, <1>3, <1>4, <1>5

\* Unless handlers have crossed, deliveries and handlers that stay leave what was asked for.
LEMMA StillAltered ==
  ASSUME PageInv, UNCHANGED <<rows, wish, handlers>>, ~crossed' => ~crossed,
         ~crossed' => FormIsTrue'
  PROVE  Altered'
<1>1. SUFFICES ASSUME ~crossed' PROVE Altered'
  BY DEF Altered
<1>2. Altered /\ FormIsTrue'
  BY <1>1 DEF PageInv
<1>3. AsAsked'
  BY <1>1, <1>2 DEF Altered, AsAsked
<1>4. \A h \in handlers' : Obeys(h)'
  BY <1>1, <1>2 DEF Altered, Obeys
<1> QED
  BY <1>1, <1>2, <1>3, <1>4 DEF Altered

\* A group of deliveries of the list.
LEMMA GroupIs ==
  ASSUME PageTypes, MaxRows \in Nat, NEW g \in Page!Groups
  PROVE  /\ g # {} /\ g \subseteq DOMAIN view /\ g \subseteq DOMAIN rows /\ g \subseteq Page!Ids
         /\ g \subseteq Nat /\ IsFiniteSet(g) /\ Page!Rep(g) \in g
         /\ \A i, j \in g : view[i].allowed = view[j].allowed
<1>1. PICK k \in DOMAIN view : g = {j \in DOMAIN view : view[j].allowed = view[k].allowed}
  BY DEF Page!Groups, Page!Group
<1>2. DOMAIN view \subseteq DOMAIN rows /\ DOMAIN rows \subseteq Page!Ids
  BY DEF PageTypes, Page!Ids
<1>3. g # {} /\ g \subseteq DOMAIN view /\ \A i, j \in g : view[i].allowed = view[j].allowed
  BY <1>1
<1>4. g \subseteq 0 .. MaxRows /\ g \subseteq 1 .. MaxRows
  BY <1>2, <1>3 DEF Page!Ids
<1>5. IsFiniteSet(g)
  <2>1. IsFiniteSet(1 .. MaxRows)
    BY FS_Interval
  <2> QED
    BY <1>4, <2>1, FS_Subset
<1>6. Page!Rep(g) \in g
  BY <1>3, <1>4, GreatestElement DEF Page!Rep
<1> QED
  BY <1>2, <1>3, <1>4, <1>5, <1>6

-----------------------------------------------------------------------------
(* The sheets and dialogs.                                                           *)
Tallies == [gestures : Nat, turns : Nat, lost : Nat]

LEMMA GestureCounts ==
  ASSUME PageTypes, Page!Gesture PROVE tally' \in Tallies
BY DEF PageTypes, Page!Gesture, Tallies

LEMMA OpenSheetKeeps ==
  ASSUME PageInv, Page!OpenSheet \/ Page!CloseSheet \/ \E u \in Employees : Page!Pick(u)
  PROVE  PageInv'
<1> DEFINE
      Only ==
        /\ UNCHANGED <<rows, assigned, wish, view, statuses, fetching, loading, edit, saving,
                       extend, retake, handlers, behind, crossed, failed>>
        /\ sheet' \in [open : BOOLEAN, creating : BOOLEAN, users : SUBSET Employees]
        /\ sheet'.creating = sheet.creating
        /\ sheet'.open => sheet.open \/ Page!Free
        /\ tally' \in Tallies
<1>1. Only
  <2>1. CASE Page!OpenSheet
    BY <2>1, GestureCounts DEF PageInv, PageTypes, Page!OpenSheet
  <2>2. CASE Page!CloseSheet
    BY <2>2 DEF PageInv, PageTypes, Page!CloseSheet, Tallies
  <2>3. ASSUME NEW u \in Employees, Page!Pick(u) PROVE Only
    BY <2>3 DEF PageInv, PageTypes, Page!Pick, Tallies
  <2> QED
    BY <2>1, <2>2, <2>3
<1>2. PageTypes'
  BY <1>1 DEF PageInv, PageTypes, Tallies
<1>3. OneDialog'
  BY <1>1 DEF PageInv, OneDialog, Page!Free
<1>4. FormIsTrue => FormIsTrue'
  BY <1>1 DEF FormIsTrue
<1>5. Altered'
  BY <1>1, <1>4, StillAltered DEF PageInv, Altered
<1>6. Handled' /\ Buttons' /\ InTouch' /\ Extras' /\ Counted'
  BY <1>1, Undisturbed
<1> QED
  BY <1>2, <1>3, <1>5, <1>6 DEF PageInv

LEMMA OpenEditKeeps ==
  ASSUME PageInv, MaxRows \in Nat, NEW g \in Page!Groups, Page!OpenEdit(g) PROVE PageInv'
<1>1. /\ UNCHANGED <<rows, assigned, wish, view, statuses, fetching, loading, sheet, saving,
                     extend, retake, handlers, behind, failed>>
      /\ edit' = [ids |-> g, allowed |-> view[Page!Rep(g)].allowed,
                  open |-> view[Page!Rep(g)].open, touched |-> {}]
      /\ Page!Free
      /\ tally' \in Tallies
  BY GestureCounts DEF PageInv, Page!OpenEdit, Page!Untouched
<1>2. /\ crossed' \in BOOLEAN
      /\ ~crossed' => /\ ~crossed /\ ~behind
                      /\ \A h \in handlers : ~Page!Writes(h) /\ ~Page!Lists(h)
                      /\ \A i \in g : view[i].open = view[Page!Rep(g)].open
  BY DEF PageInv, PageTypes, Page!OpenEdit, Page!Beside
<1>3. /\ g # {} /\ g \subseteq DOMAIN view /\ g \subseteq DOMAIN rows /\ g \subseteq Nat
      /\ Page!Rep(g) \in g /\ \A i, j \in g : view[i].allowed = view[j].allowed
  BY GroupIs DEF PageInv
<1>4. view[Page!Rep(g)] \in Entry
  BY <1>3 DEF PageInv, PageTypes
<1>5. edit' \in Form /\ edit'.allowed # 0 /\ edit'.ids # {} /\ edit'.ids \subseteq DOMAIN rows
  BY <1>1, <1>3, <1>4 DEF Form, Entry
<1>6. PageTypes'
  BY <1>1, <1>2, <1>5 DEF PageInv, PageTypes, Tallies
<1>7. OneDialog'
  BY <1>1 DEF OneDialog, Page!Free
<1>8. ASSUME ~crossed' PROVE FormIsTrue'
  <2>1. view = Page!Listed
    BY <1>2, <1>8 DEF PageInv, InTouch, Page!Writes, Alters
  <2>2. ASSUME NEW i \in g
        PROVE  edit'.allowed = rows[i].allowed /\ (edit'.open <=> rows[i].open)
    <3>1. view[i].allowed = rows[i].allowed /\ (view[i].open <=> rows[i].open)
      BY <1>3, <2>1 DEF Page!Listed
    <3>2. edit'.allowed = view[i].allowed
      BY <1>1, <1>3
    <3>3. edit'.open = view[Page!Rep(g)].open /\ view[i].open = view[Page!Rep(g)].open
      BY <1>1, <1>2, <1>8
    <3> QED
      BY <3>1, <3>2, <3>3
  <2>3. edit'.ids = g
    BY <1>1
  <2> QED
    BY <1>1, <1>2, <1>8, <2>2, <2>3 DEF FormIsTrue
<1>9. Altered'
  BY <1>1, <1>2, <1>8, StillAltered
<1>10. Handled' /\ Buttons' /\ InTouch' /\ Extras' /\ Counted'
  BY <1>1, Undisturbed
<1> QED
  BY <1>6, <1>7, <1>9, <1>10 DEF PageInv

LEMMA EditFormKeeps ==
  ASSUME PageInv, NEW field \in {"open", "allowed"}, Page!EditForm(field) PROVE PageInv'
<1>1. /\ UNCHANGED <<rows, assigned, wish, view, statuses, fetching, loading, sheet, saving,
                     extend, retake, handlers, tally, behind, crossed, failed>>
      /\ edit # Page!NoEdit /\ edit \in Form /\ edit.allowed # 0
      /\ edit.ids \subseteq DOMAIN rows
  BY DEF PageInv, PageTypes, Page!EditForm
<1>2. /\ edit' \in Form /\ edit'.allowed # 0 /\ edit'.ids = edit.ids
      /\ edit.touched \subseteq edit'.touched
      /\ "allowed" \notin edit'.touched => edit'.allowed = edit.allowed
      /\ "open" \notin edit'.touched => (edit'.open <=> edit.open)
  <2>1. CASE field = "open"
    BY <1>1, <2>1 DEF Page!EditForm, Form
  <2>2. CASE field = "allowed"
    <3>1. edit' = [edit EXCEPT !.allowed = 3, !.touched = @ \cup {"allowed"}]
      BY <2>2 DEF Page!EditForm
    <3>2. edit.touched \cup {"allowed"} \in SUBSET {"open", "allowed"}
      BY <1>1 DEF Form
    <3>3. edit' = [ids |-> edit.ids, allowed |-> 3, open |-> edit.open,
                   touched |-> edit.touched \cup {"allowed"}]
      BY <1>1, <3>1 DEF Form
    <3>4. /\ edit.ids \in SUBSET Nat /\ edit.open \in BOOLEAN
      BY <1>1 DEF Form
    <3>5. edit' \in Form
      BY <3>2, <3>3, <3>4 DEF Form
    <3> QED
      BY <3>3, <3>5
  <2> QED
    BY <2>1, <2>2
<1>3. PageTypes'
  BY <1>1, <1>2 DEF PageInv, PageTypes
<1>4. OneDialog'
  BY <1>1 DEF PageInv, OneDialog
<1>5. ~crossed' => FormIsTrue'
  <2>1. FormIsTrue => FormIsTrue'
    BY <1>1, <1>2 DEF FormIsTrue
  <2> QED
    BY <1>1, <2>1 DEF PageInv, Altered
<1>6. Altered'
  BY <1>1, <1>5, StillAltered
<1>7. Handled' /\ Buttons' /\ InTouch' /\ Extras' /\ Counted'
  BY <1>1, Undisturbed
<1> QED
  BY <1>3, <1>4, <1>6, <1>7 DEF PageInv

LEMMA CancelEditKeeps ==
  ASSUME PageInv, Page!CancelEdit PROVE PageInv'
<1>1. /\ UNCHANGED <<rows, assigned, wish, view, statuses, fetching, loading, sheet, saving,
                     extend, retake, handlers, tally, behind, crossed, failed>>
      /\ edit' = Page!NoEdit
  BY DEF Page!CancelEdit
<1>2. PageTypes'
  BY <1>1 DEF PageInv, PageTypes, Page!NoEdit, Page!Untouched, Form
<1>3. OneDialog'
  BY <1>1 DEF PageInv, OneDialog, Page!NoEdit, Page!Untouched
<1>4. FormIsTrue'
  BY <1>1 DEF FormIsTrue, Page!NoEdit, Page!Untouched
<1>5. Altered'
  BY <1>1, <1>4, StillAltered
<1>6. Handled' /\ Buttons' /\ InTouch' /\ Extras' /\ Counted'
  BY <1>1, Undisturbed
<1> QED
  BY <1>2, <1>3, <1>5, <1>6 DEF PageInv

LEMMA DialogKeeps ==
  ASSUME PageInv, \/ \E i \in Page!Ids : Page!OpenExtend(i) \/ Page!OpenRetake(i)
                  \/ Page!CloseExtend \/ Page!CancelRetake
  PROVE  PageInv'
<1> DEFINE
      Only ==
        /\ UNCHANGED <<rows, assigned, wish, view, statuses, fetching, loading, sheet, edit,
                       saving, handlers, behind, crossed, failed>>
        /\ extend' \in [target : {0} \cup DOMAIN rows, loading : BOOLEAN, result : Nat]
        /\ retake' \in [target : {0} \cup DOMAIN rows, loading : BOOLEAN]
        /\ extend'.loading = extend.loading /\ retake'.loading = retake.loading
        /\ \/ Page!Free /\ (extend' = extend \/ retake' = retake)
           \/ /\ extend'.target # 0 => extend.target # 0
              /\ retake'.target # 0 => retake.target # 0
        /\ tally' \in Tallies
<1>1. Only
  <2> USE GestureCounts DEF PageInv, PageTypes, Tallies
  <2>1. ASSUME NEW i \in Page!Ids, Page!OpenExtend(i) PROVE Only
    BY <2>1 DEF Page!OpenExtend
  <2>2. ASSUME NEW i \in Page!Ids, Page!OpenRetake(i) PROVE Only
    BY <2>2 DEF Page!OpenRetake
  <2>3. CASE Page!CloseExtend
    BY <2>3 DEF Page!CloseExtend
  <2>4. CASE Page!CancelRetake
    BY <2>4 DEF Page!CancelRetake
  <2> QED
    BY <2>1, <2>2, <2>3, <2>4
<1>2. PageTypes'
  BY <1>1 DEF PageInv, PageTypes, Tallies
<1>3. OneDialog'
  BY <1>1 DEF PageInv, OneDialog, Page!Free
<1>4. FormIsTrue => FormIsTrue'
  BY <1>1 DEF FormIsTrue
<1>5. Altered'
  BY <1>1, <1>4, StillAltered DEF PageInv, Altered
<1>6. Handled' /\ Buttons' /\ InTouch' /\ Extras' /\ Counted'
  BY <1>1, Undisturbed
<1> QED
  BY <1>2, <1>3, <1>5, <1>6 DEF PageInv

-----------------------------------------------------------------------------
(* Handlers that start.                                                              *)
LEMMA StartIs ==
  ASSUME NEW what \in Ops, NEW todo \in Seq(Nat), todo # << >>, NEW arg \in Form,
         what \in {"extend", "retake"} => Len(todo) = 1, what = "edit" => arg.allowed # 0
  PROVE  \E u : /\ u = Page!Handler(what, todo, arg)
                /\ Plain(u) /\ u.op = what /\ u.todo = todo /\ u.arg = arg
                /\ u.from = "none" /\ u.answer = "none" /\ u.got = << >>
                /\ Remaining(u) = {todo[k] : k \in DOMAIN todo}
<1>1. PICK u : u = Page!Handler(what, todo, arg)
  OBVIOUS
<1>2. u = [id |-> u.id, op |-> what, todo |-> todo, arg |-> arg, from |-> "none",
           answer |-> "none", view |-> << >>, mixed |-> FALSE, got |-> << >>]
  BY <1>1 DEF Page!Handler
<1>3. Plain(u)
  <2>1. /\ u.op = what /\ u.todo = todo /\ u.arg = arg /\ u.from = "none" /\ u.answer = "none"
        /\ u.view = << >> /\ u.mixed = FALSE /\ u.got = << >>
    BY <1>2
  <2>2. << >> \in Seq(Outcome)
    OBVIOUS
  <2> QED
    BY <1>2, <2>1, <2>2 DEF Plain
<1>4. Remaining(u) = {todo[k] : k \in DOMAIN todo}
  BY <1>2 DEF Remaining
<1> QED
  BY <1>1, <1>2, <1>3, <1>4

\* A button is taken by the handler that it starts.
LEMMA ButtonTaken ==
  ASSUME Buttons, NEW u, handlers' = handlers \cup {u}, u.from = "none",
         u.op = "create" => ~sheet.creating, sheet'.creating <=> sheet.creating \/ u.op = "create",
         u.op = "edit" => ~saving, saving' <=> saving \/ u.op = "edit",
         u.op = "retake" => ~retake.loading,
         retake'.loading <=> retake.loading \/ u.op = "retake",
         u.op = "extend" => ~extend.loading,
         extend'.loading <=> extend.loading \/ u.op = "extend",
         loading' => loading \/ u.op = "load"
  PROVE  Buttons'
<1>1. \A k \in {"create", "edit", "retake", "extend"} : Busy(u, k) <=> u.op = k
  BY DEF Busy
<1>2. \A k \in {"create", "edit", "retake", "extend"} :
        \A g, h \in handlers' : Busy(g, k) /\ Busy(h, k) => g = h
  BY <1>1 DEF Buttons
<1> QED
  BY <1>1, <1>2 DEF Buttons, Busy

\* What is known of the handlers under way stays, and holds of the new one.
LEMMA HandlerAdded ==
  ASSUME PageInv, NEW u, Handling(u), handlers' = handlers \cup {u},
         UNCHANGED <<rows, assigned, view, behind, failed>>,
         u.op = "create" => /\ u.arg.ids \subseteq Remaining(u)
                            /\ \A h \in handlers : h.op # "create"
  PROVE  Handled' /\ InTouch' /\ Counted'
<1>1. Handled'
  BY DEF PageInv, Handled, Handling, Page!Listed
<1>2. InTouch'
  BY DEF PageInv, InTouch, Page!Listed
<1>3. Counted'
  <2>1. \A x : Of(x)' = Of(x) /\ Given(x)' = Given(x)
    BY DEF Of, Given
  <2>2. SUFFICES ASSUME ~failed, NEW x \in Employees
                 PROVE  /\ (\A h \in handlers' : h.op # "create") => Cardinality(Of(x)) = Given(x)
                        /\ \A h \in handlers' : h.op = "create" /\ h.answer # "error" =>
                             Cardinality(Of(x)) =
                               Given(x) + IF x \in h.arg.ids \ Remaining(h) THEN 1 ELSE 0
    BY <2>1 DEF Counted
  <2>3. /\ (\A h \in handlers : h.op # "create") => Cardinality(Of(x)) = Given(x)
        /\ \A h \in handlers : h.op = "create" /\ h.answer # "error" =>
             Cardinality(Of(x)) = Given(x) + IF x \in h.arg.ids \ Remaining(h) THEN 1 ELSE 0
    BY <2>2 DEF PageInv, Counted
  <2>4. Given(x) \in Nat
    BY <2>2 DEF PageInv, PageTypes, Given
  <2> QED
    BY <2>3, <2>4
<1> QED
  BY <1>1, <1>2, <1>3

\* One that changes nothing that was asked for, or none while a form is open.
LEMMA AsideAdded ==
  ASSUME PageInv, NEW u, handlers' = handlers \cup {u}, UNCHANGED <<rows, edit, crossed>>,
         ~Alters(u), edit # Page!NoEdit => ~Page!Writes(u),
         \A i \in DOMAIN rows : /\ wish'[i].allowed = wish[i].allowed
                               /\ wish'[i].open = wish[i].open
  PROVE  Altered'
<1>1. SUFFICES ASSUME ~crossed' PROVE Altered'
  BY DEF Altered
<1>2. Altered /\ Handled
  BY DEF PageInv
<1>3. AsAsked'
  BY <1>1, <1>2 DEF Altered, AsAsked
<1>4. ASSUME NEW h \in handlers' PROVE Obeys(h)'
  <2>1. CASE h = u
    BY <2>1 DEF Obeys, Alters
  <2>2. CASE h \in handlers
    <3>1. Alters(h) => \A k \in DOMAIN h.todo : h.todo[k] \in DOMAIN rows
      BY <1>2, <2>2 DEF Handled, Handling, Alters
    <3>2. Obeys(h)
      BY <1>1, <1>2, <2>2 DEF Altered
    <3> QED
      BY <3>1, <3>2 DEF Obeys, Alters
  <2> QED
    BY <1>4, <2>1, <2>2
<1>5. FormIsTrue'
  BY <1>1, <1>2 DEF Altered, FormIsTrue
<1> QED
  BY <1>1, <1>2, <1>3, <1>4, <1>5 DEF Altered

\* One that changes what is asked for, with nobody beside it.
LEMMA ChangeAdded ==
  ASSUME PageInv, NEW u, handlers' = handlers \cup {u}, UNCHANGED rows,
         ~crossed' => /\ ~crossed /\ \A h \in handlers : ~Page!Writes(h)
                      /\ Obeys(u)'
                      /\ \A i \in DOMAIN rows :
                           /\ \/ wish'[i].allowed = wish[i].allowed
                              \/ u.op \in {"edit", "retake"} /\ i \in Remaining(u)
                           /\ \/ wish'[i].open = wish[i].open
                              \/ u.op \in {"edit", "stop"} /\ i \in Remaining(u),
         edit' = Page!NoEdit \/ u.op = "edit"
  PROVE  Altered'
<1>1. SUFFICES ASSUME ~crossed' PROVE Altered'
  BY DEF Altered
<1>2. Altered /\ ~crossed /\ \A h \in handlers : ~Alters(h)
  BY <1>1 DEF PageInv, Page!Writes, Alters
<1>3. AsAsked'
  BY <1>1, <1>2 DEF Altered, AsAsked, Alters
<1>4. \A h \in handlers' : Obeys(h)'
  BY <1>1, <1>2 DEF Obeys, Alters
<1>5. FormIsTrue'
  BY DEF FormIsTrue
<1> QED
  BY <1>1, <1>2, <1>3, <1>4, <1>5 DEF Altered

LEMMA RenewKeeps ==
  ASSUME PageInv, Page!Renew PROVE PageInv'
<1>1. /\ UNCHANGED <<rows, assigned, wish, view, statuses, fetching, sheet, edit, saving, extend,
                     retake, behind, crossed, failed>>
      /\ loading' = TRUE /\ tally' \in Tallies
      /\ handlers' = handlers \cup {Page!Handler("load", <<0>>, Page!NoEdit)}
  BY GestureCounts DEF PageInv, Page!Renew
<1>2. PICK u : /\ handlers' = handlers \cup {u}
               /\ Plain(u) /\ u.op = "load" /\ u.from = "none" /\ u.answer = "none"
  <2>1. "load" \in Ops /\ <<0>> \in Seq(Nat) /\ <<0>> # << >> /\ Page!NoEdit \in Form
    BY DEF Ops, Page!NoEdit, Page!Untouched, Form
  <2> QED
    BY <1>1, <2>1, StartIs
<1>3. Handling(u)
  BY <1>2 DEF Handling
<1>4. PageTypes'
  BY <1>1 DEF PageInv, PageTypes, Tallies
<1>5. OneDialog'
  BY <1>1 DEF PageInv, OneDialog
<1>6. Buttons'
  BY <1>1, <1>2, ButtonTaken DEF PageInv
<1>7. Handled' /\ InTouch' /\ Counted'
  BY <1>1, <1>2, <1>3, HandlerAdded
<1>8. Extras'
  BY <1>1, <1>2 DEF PageInv, Extras
<1>9. Altered'
  <2>1. ~Alters(u) /\ ~Page!Writes(u)
    BY <1>2 DEF Alters, Page!Writes
  <2> QED
    BY <1>1, <1>2, <2>1, AsideAdded
<1> QED
  BY <1>4, <1>5, <1>6, <1>7, <1>8, <1>9 DEF PageInv

LEMMA ClickCreateKeeps ==
  ASSUME Page!DeliveriesAssumption, PageInv, Page!ClickCreate PROVE PageInv'
<1>1. /\ UNCHANGED <<rows, assigned, wish, view, statuses, fetching, loading, edit, saving,
                     extend, retake, tally, behind, crossed, failed>>
      /\ sheet.open /\ ~sheet.creating /\ sheet' = [sheet EXCEPT !.creating = TRUE]
      /\ sheet.users \in SUBSET Employees
  BY DEF PageInv, PageTypes, Page!ClickCreate
<1>2. PICK todo \in IF sheet.users = {} THEN {<<0>>} ELSE Page!SetToSeqs(sheet.users) :
         handlers' = handlers \cup
           {Page!Handler("create", todo, Page!Untouched(sheet.users, 0, FALSE))}
  BY DEF Page!ClickCreate, Page!Start
<1>4. /\ todo \in Seq(Nat) /\ todo # << >>
      /\ \A k \in DOMAIN todo : todo[k] \in {0} \cup sheet.users
      /\ \A j, k \in DOMAIN todo : todo[j] = todo[k] => j = k
      /\ sheet.users \subseteq {todo[k] : k \in DOMAIN todo}
  <2>1. CASE sheet.users = {}
    <3>1. todo = <<0>>
      BY <1>2, <2>1
    <3> QED
      BY <2>1, <3>1
  <2>2. CASE sheet.users # {}
    <3>1. IsFiniteSet(sheet.users) /\ Employees \subseteq Nat
      <4>1. IsFiniteSet(Employees)
        BY DEF Page!DeliveriesAssumption, Page!IsFiniteSet, IsFiniteSet
      <4> QED
        BY <1>1, <4>1, FS_Subset, PageConstants
    <3>2. /\ todo \in Seq(sheet.users) /\ todo # << >>
          /\ \A j, k \in DOMAIN todo : todo[j] = todo[k] => j = k
          /\ \A x \in sheet.users : \E k \in DOMAIN todo : todo[k] = x
      BY <1>2, <2>2, <3>1, OrderIs
    <3>3. \A k \in DOMAIN todo : todo[k] \in sheet.users
      BY <3>2
    <3>4. todo \in Seq(Nat)
      BY <1>1, <3>1, <3>2
    <3> QED
      BY <1>1, <3>2, <3>3, <3>4
  <2> QED
    BY <2>1, <2>2
<1>5. PICK u : /\ handlers' = handlers \cup {u}
               /\ Plain(u) /\ u.op = "create" /\ u.from = "none" /\ u.answer = "none"
               /\ u.todo = todo /\ u.arg.ids = sheet.users
               /\ Remaining(u) = {todo[k] : k \in DOMAIN todo}
  <2> DEFINE form == Page!Untouched(sheet.users, 0, FALSE)
  <2>1. form \in Form /\ form.ids = sheet.users
    BY <1>1, PageConstants DEF Form, Page!Untouched
  <2>2. handlers' = handlers \cup {Page!Handler("create", todo, form)}
    BY <1>2
  <2>3. "create" \in Ops
    BY DEF Ops
  <2> HIDE DEF form
  <2>4. PICK u : /\ u = Page!Handler("create", todo, form)
                 /\ Plain(u) /\ u.op = "create" /\ u.todo = todo /\ u.arg = form
                 /\ u.from = "none" /\ u.answer = "none"
                 /\ Remaining(u) = {todo[k] : k \in DOMAIN todo}
    BY <1>4, <2>1, <2>3, StartIs
  <2> QED
    BY <2>1, <2>2, <2>4
<1>6. Handling(u)
  BY <1>1, <1>4, <1>5 DEF Handling, Page!Lists
<1>7. PageTypes'
  BY <1>1 DEF PageInv, PageTypes
<1>8. OneDialog'
  BY <1>1 DEF PageInv, PageTypes, OneDialog
<1>9. Buttons'
  BY <1>1, <1>5, ButtonTaken DEF PageInv, PageTypes
<1>10. Handled' /\ InTouch' /\ Counted'
  <2>1. \A h \in handlers : h.op # "create"
    BY <1>1 DEF PageInv, Buttons, Busy
  <2> QED
    BY <1>1, <1>4, <1>5, <1>6, <2>1, HandlerAdded
<1>11. Extras'
  BY <1>1, <1>5 DEF PageInv, Extras
<1>12. Altered'
  <2>1. ~Alters(u) /\ edit = Page!NoEdit
    BY <1>1, <1>5 DEF PageInv, OneDialog, Alters
  <2> QED
    BY <1>1, <1>5, <2>1, AsideAdded
<1> QED
  BY <1>7, <1>8, <1>9, <1>10, <1>11, <1>12 DEF PageInv

LEMMA ClickExtendKeeps ==
  ASSUME MaxRows \in Nat, PageInv, Page!ClickExtend PROVE PageInv'
<1>1. /\ UNCHANGED <<rows, assigned, view, statuses, fetching, loading, sheet, edit, saving,
                     retake, tally, behind, crossed, failed>>
      /\ extend.target # 0 /\ ~extend.loading /\ extend' = [extend EXCEPT !.loading = TRUE]
      /\ wish' = [wish EXCEPT ![extend.target].extra = @ + 1]
      /\ handlers' = handlers \cup {Page!Handler("extend", <<extend.target>>, Page!NoEdit)}
  BY DEF Page!ClickExtend, Page!Start
<1>2. PICK i \in DOMAIN rows : i = extend.target /\ i \in Page!Ids /\ i \in Nat
  <2>1. extend.target \in {0} \cup DOMAIN rows
    BY DEF PageInv, PageTypes
  <2> QED
    BY <1>1, <2>1, RowsAre DEF PageInv
<1>3. PICK u : /\ handlers' = handlers \cup {u} /\ Plain(u) /\ u.op = "extend"
               /\ u.from = "none" /\ u.answer = "none" /\ u.todo = <<i>>
  <2> DEFINE todo == <<i>>
  <2>1. /\ "extend" \in Ops /\ Page!NoEdit \in Form
        /\ todo \in Seq(Nat) /\ todo # << >> /\ Len(todo) = 1
    BY <1>2 DEF Ops, Page!NoEdit, Page!Untouched, Form
  <2>2. handlers' = handlers \cup {Page!Handler("extend", todo, Page!NoEdit)}
    BY <1>1, <1>2
  <2>3. todo = <<i>>
    OBVIOUS
  <2> HIDE DEF todo
  <2>4. PICK u : /\ u = Page!Handler("extend", todo, Page!NoEdit) /\ Plain(u)
                 /\ u.op = "extend" /\ u.todo = todo /\ u.from = "none" /\ u.answer = "none"
    BY <2>1, StartIs
  <2> QED
    BY <2>2, <2>3, <2>4
<1>4. Handling(u)
  BY <1>2, <1>3 DEF Handling, Page!Lists
<1>5. wish \in [Page!Ids -> Wished]
  BY DEF PageInv, PageTypes
<1>6. /\ wish' \in [Page!Ids -> Wished]
      /\ \A k \in Page!Ids : k # i => wish'[k] = wish[k]
      /\ wish'[i].allowed = wish[i].allowed /\ wish'[i].open = wish[i].open
      /\ wish'[i].extra = wish[i].extra + 1 /\ wish[i].extra \in Nat
  BY <1>1, <1>2, <1>5 DEF Wished
<1>7. PageTypes'
  BY <1>1, <1>6 DEF PageInv, PageTypes
<1>8. OneDialog'
  BY <1>1 DEF PageInv, PageTypes, OneDialog
<1>9. Buttons'
  BY <1>1, <1>3, ButtonTaken DEF PageInv, PageTypes
<1>10. Handled' /\ InTouch' /\ Counted'
  BY <1>1, <1>3, <1>4, HandlerAdded
<1>11. Extras'
  <2>1. \A k \in DOMAIN rows : k \in Page!Ids /\ rows[k].extra \in Nat
    BY RowsAre DEF PageInv
  <2>2. \A h \in handlers : h.op # "extend"
    BY <1>1 DEF PageInv, Buttons, Busy
  <2>3. Extras
    BY DEF PageInv
  <2>4. \A k \in Page!Ids \ DOMAIN rows' : wish'[k] = Page!Limits(Page!New(0))
    BY <1>1, <1>2, <1>6, <2>3 DEF Extras
  <2>5. \A k \in DOMAIN rows' : rows'[k].extra <= wish'[k].extra
    BY <1>1, <1>2, <1>6, <2>1, <2>3 DEF Extras
  <2>6. rows[i].extra < wish'[i].extra
    BY <1>1, <1>2, <1>6, <2>1, <2>3 DEF Extras
  <2> QED
    BY <1>1, <1>3, <2>2, <2>4, <2>5, <2>6 DEF Extras
<1>12. Altered'
  <2>1. ~Alters(u) /\ edit = Page!NoEdit
    BY <1>1, <1>3 DEF PageInv, OneDialog, Alters
  <2>2. \A k \in DOMAIN rows : /\ wish'[k].allowed = wish[k].allowed
                               /\ wish'[k].open = wish[k].open
    BY <1>6, RowsAre DEF PageInv
  <2> QED
    BY <1>1, <1>3, <2>1, <2>2, AsideAdded
<1> QED
  BY <1>7, <1>8, <1>9, <1>10, <1>11, <1>12 DEF PageInv

\* Handlers of a loop over the deliveries of a group, the newest first.
LEMMA LoopIs ==
  ASSUME PageInv, MaxRows \in Nat, NEW g, g \subseteq DOMAIN rows, g # {},
         NEW todo \in Page!NewestFirst(g)
  PROVE  /\ todo \in Seq(Nat) /\ todo # << >>
         /\ \A k \in DOMAIN todo : todo[k] \in g
         /\ g = {todo[k] : k \in DOMAIN todo}
<1>1. g \subseteq 1 .. MaxRows /\ g \subseteq Nat
  BY RowsAre DEF PageInv, Page!Ids
<1>2. IsFiniteSet(g)
  <2>1. IsFiniteSet(1 .. MaxRows)
    BY FS_Interval
  <2> QED
    BY <1>1, <2>1, FS_Subset
<1>3. todo \in Page!SetToSeqs(g)
  BY DEF Page!NewestFirst
<1>4. todo \in Seq(g) /\ todo # << >> /\ \A x \in g : \E k \in DOMAIN todo : todo[k] = x
  BY <1>2, <1>3, OrderIs
<1> QED
  BY <1>1, <1>4

LEMMA SaveEditKeeps ==
  ASSUME MaxRows \in Nat, PageInv, Page!SaveEdit PROVE PageInv'
<1> DEFINE
      a == edit.allowed
      o == edit.open
<1>1. /\ UNCHANGED <<rows, assigned, view, statuses, fetching, loading, sheet, edit, extend,
                     retake, tally, behind, failed>>
      /\ edit # Page!NoEdit /\ ~saving /\ saving' = TRUE
      /\ crossed' = (crossed \/ \E h \in handlers : Page!Writes(h))
  BY DEF Page!SaveEdit, Page!Beside
<1>2. /\ edit \in Form /\ edit.allowed # 0 /\ edit.ids # {} /\ edit.ids \subseteq DOMAIN rows
  BY <1>1 DEF PageInv, PageTypes
<1>3. PICK todo \in Page!NewestFirst(edit.ids) :
         handlers' = handlers \cup {Page!Handler("edit", todo, edit)}
  BY DEF Page!SaveEdit, Page!Start
<1>4. /\ todo \in Seq(Nat) /\ todo # << >> /\ \A k \in DOMAIN todo : todo[k] \in edit.ids
      /\ edit.ids = {todo[k] : k \in DOMAIN todo}
  BY <1>2, <1>3, LoopIs
<1>5. PICK u : /\ handlers' = handlers \cup {u} /\ Plain(u) /\ u.op = "edit"
               /\ u.from = "none" /\ u.answer = "none" /\ u.todo = todo /\ u.arg = edit
               /\ Remaining(u) = edit.ids
  <2>1. /\ "edit" \in Ops /\ todo \in Seq(Nat) /\ todo # << >>
        /\ edit \in Form /\ edit.allowed # 0
    BY <1>2, <1>4 DEF Ops
  <2>2. PICK u : /\ u = Page!Handler("edit", todo, edit) /\ Plain(u) /\ u.op = "edit"
                 /\ u.from = "none" /\ u.answer = "none" /\ u.todo = todo /\ u.arg = edit
                 /\ Remaining(u) = {todo[k] : k \in DOMAIN todo}
    BY <2>1, StartIs
  <2> QED
    BY <1>3, <1>4, <2>2
<1>6. Handling(u)
  BY <1>2, <1>4, <1>5 DEF Handling, Page!Lists
<1>7. wish \in [Page!Ids -> Wished]
  BY DEF PageInv, PageTypes
<1>8. \A i \in Page!Ids :
        wish'[i] = IF i \notin edit.ids THEN wish[i] ELSE [wish[i] EXCEPT
                     !.allowed = IF "allowed" \in edit.touched THEN edit.allowed ELSE @,
                     !.open = IF "open" \in edit.touched THEN edit.open ELSE @]
  BY DEF Page!SaveEdit
<1>9. ASSUME NEW i \in Page!Ids
      PROVE  /\ wish'[i] \in Wished /\ wish'[i].extra = wish[i].extra
             /\ i \notin edit.ids => wish'[i] = wish[i]
             /\ i \in edit.ids =>
                  /\ wish'[i].allowed = IF "allowed" \in edit.touched THEN edit.allowed
                                                                   ELSE wish[i].allowed
                  /\ wish'[i].open = IF "open" \in edit.touched THEN edit.open ELSE wish[i].open
  <2>1. PICK w \in Wished : w = wish[i]
    BY <1>7
  <2>2. CASE i \notin edit.ids
    BY <1>8, <2>1, <2>2
  <2>3. CASE i \in edit.ids
    <3> DEFINE al == IF "allowed" \in edit.touched THEN edit.allowed ELSE w.allowed
               still == IF "open" \in edit.touched THEN edit.open ELSE w.open
    <3>1. wish'[i] = [w EXCEPT !.allowed = al, !.open = still]
      BY <1>8, <2>1, <2>3
    <3>2. al \in Nat /\ still \in BOOLEAN /\ w.extra \in Nat
      BY <1>2 DEF Form, Wished
    <3>3. wish'[i] = [allowed |-> al, open |-> still, extra |-> w.extra]
      BY <3>1 DEF Wished
    <3> QED
      BY <2>1, <2>3, <3>2, <3>3 DEF Wished
  <2> QED
    BY <2>2, <2>3
<1>10. PageTypes'
  <2>1. wish' = [i \in Page!Ids |-> wish'[i]]
    BY DEF Page!SaveEdit
  <2>2. wish' \in [Page!Ids -> Wished]
    BY <1>9, <2>1
  <2>3. crossed' \in BOOLEAN
    BY <1>1
  <2> QED
    BY <1>1, <2>2, <2>3 DEF PageInv, PageTypes
<1>11. OneDialog'
  BY <1>1 DEF PageInv, OneDialog
<1>12. Buttons'
  BY <1>1, <1>5, ButtonTaken DEF PageInv
<1>13. Handled' /\ InTouch' /\ Counted'
  BY <1>1, <1>5, <1>6, HandlerAdded
<1>14. Extras'
  <2>1. \A k \in DOMAIN rows : k \in Page!Ids
    BY RowsAre DEF PageInv
  <2>2. Extras
    BY DEF PageInv
  <2>3. \A k \in Page!Ids \ DOMAIN rows' : wish'[k] = Page!Limits(Page!New(0))
    BY <1>1, <1>2, <1>9, <2>2 DEF Extras
  <2>4. \A k \in DOMAIN rows' : rows'[k].extra <= wish'[k].extra
    BY <1>1, <1>9, <2>1, <2>2 DEF Extras
  <2>5. ASSUME NEW h \in handlers', h.op = "extend", h.answer = "none"
        PROVE  rows'[h.todo[1]].extra < wish'[h.todo[1]].extra
    <3>1. h \in handlers
      BY <1>5, <2>5
    <3>2. h.todo[1] \in DOMAIN rows
      BY <2>5, <3>1 DEF PageInv, Handled, Handling, Plain
    <3> QED
      BY <1>1, <1>9, <2>1, <2>2, <2>5, <3>1, <3>2 DEF Extras
  <2> QED
    BY <2>3, <2>4, <2>5 DEF Extras
<1>15. Altered'
  <2>1. ASSUME ~crossed'
        PROVE  /\ ~crossed /\ \A h \in handlers : ~Page!Writes(h)
               /\ Obeys(u)'
               /\ \A i \in DOMAIN rows :
                    /\ wish'[i].allowed = wish[i].allowed \/ i \in Remaining(u)
                    /\ wish'[i].open = wish[i].open \/ i \in Remaining(u)
    <3>1. ~crossed /\ \A h \in handlers : ~Page!Writes(h)
      BY <1>1, <2>1
    <3>2. \A i \in DOMAIN rows : /\ i \in Page!Ids /\ rows[i].allowed = wish[i].allowed
                                 /\ (rows[i].open <=> wish[i].open)
      BY <3>1, RowsAre DEF PageInv, Altered, AsAsked, Page!Writes
    <3>3. \A i \in edit.ids : /\ "allowed" \notin edit.touched => edit.allowed = rows[i].allowed
                              /\ "open" \notin edit.touched => (edit.open <=> rows[i].open)
      BY <1>1, <3>1 DEF PageInv, Altered, FormIsTrue, Page!Writes
    <3>4. ASSUME NEW i \in edit.ids
          PROVE  wish'[i].allowed = edit.allowed /\ (wish'[i].open <=> edit.open)
      <4>1. i \in DOMAIN rows /\ i \in Page!Ids
        BY <1>2, <3>2
      <4>2. wish'[i].allowed = edit.allowed
        BY <1>9, <3>2, <3>3, <4>1
      <4>3. wish'[i].open <=> edit.open
        <5>1. CASE "open" \in edit.touched
          BY <1>9, <4>1, <5>1
        <5>2. CASE "open" \notin edit.touched
          <6>1. wish'[i].open = wish[i].open
            BY <1>9, <4>1, <5>2
          <6> QED
            BY <3>2, <3>3, <4>1, <5>2, <6>1
        <5> QED
          BY <5>1, <5>2
      <4> QED
        BY <4>2, <4>3
    <3>5. Obeys(u)'
      BY <1>4, <1>5, <3>4 DEF Obeys
    <3>6. \A i \in DOMAIN rows : i \in Remaining(u) \/ wish'[i] = wish[i]
      BY <1>5, <1>9, <3>2
    <3> QED
      BY <3>1, <3>5, <3>6
  <2> QED
    BY <1>1, <1>5, <2>1, ChangeAdded
<1> QED
  BY <1>10, <1>11, <1>12, <1>13, <1>14, <1>15 DEF PageInv

LEMMA StopKeeps ==
  ASSUME MaxRows \in Nat, PageInv, NEW g \in Page!Groups, Page!Stop(g) PROVE PageInv'
<1>1. /\ UNCHANGED <<rows, assigned, view, statuses, fetching, loading, sheet, edit, saving,
                     extend, retake, behind, failed>>
      /\ Page!Free /\ tally' \in Tallies
      /\ crossed' = (crossed \/ \E h \in handlers : Page!Writes(h))
  BY GestureCounts DEF PageInv, Page!Stop, Page!Beside, Page!pageVars
<1>2. g # {} /\ g \subseteq DOMAIN rows
  BY GroupIs DEF PageInv
<1>3. PICK todo \in Page!NewestFirst(g) :
         handlers' = handlers \cup {Page!Handler("stop", todo, Page!NoEdit)}
  BY DEF Page!Stop, Page!Start
<1>4. /\ todo \in Seq(Nat) /\ todo # << >> /\ \A k \in DOMAIN todo : todo[k] \in g
      /\ g = {todo[k] : k \in DOMAIN todo}
  BY <1>2, <1>3, LoopIs
<1>5. PICK u : /\ handlers' = handlers \cup {u} /\ Plain(u) /\ u.op = "stop"
               /\ u.from = "none" /\ u.answer = "none" /\ u.todo = todo
               /\ Remaining(u) = g
  <2>1. "stop" \in Ops /\ todo \in Seq(Nat) /\ todo # << >> /\ Page!NoEdit \in Form
    BY <1>4 DEF Ops, Page!NoEdit, Page!Untouched, Form
  <2>2. PICK u : /\ u = Page!Handler("stop", todo, Page!NoEdit) /\ Plain(u) /\ u.op = "stop"
                 /\ u.from = "none" /\ u.answer = "none" /\ u.todo = todo
                 /\ Remaining(u) = {todo[k] : k \in DOMAIN todo}
    BY <2>1, StartIs
  <2> QED
    BY <1>3, <1>4, <2>2
<1>6. Handling(u)
  BY <1>2, <1>4, <1>5 DEF Handling, Page!Lists
<1>7. wish \in [Page!Ids -> Wished]
  BY DEF PageInv, PageTypes
<1>8. \A i \in Page!Ids :
        wish'[i] = IF i \in g THEN [wish[i] EXCEPT !.open = FALSE] ELSE wish[i]
  BY DEF Page!Stop
<1>9. ASSUME NEW i \in Page!Ids
      PROVE  /\ wish'[i] \in Wished /\ wish'[i].extra = wish[i].extra
             /\ wish'[i].allowed = wish[i].allowed
             /\ i \notin g => wish'[i] = wish[i]
             /\ i \in g => wish'[i].open = FALSE
  <2>1. PICK w \in Wished : w = wish[i]
    BY <1>7
  <2> QED
    BY <1>8, <2>1 DEF Wished
<1>10. PageTypes'
  <2>1. wish' = [i \in Page!Ids |-> wish'[i]]
    BY DEF Page!Stop
  <2>2. wish' \in [Page!Ids -> Wished]
    BY <1>9, <2>1
  <2>3. crossed' \in BOOLEAN
    BY <1>1
  <2> QED
    BY <1>1, <2>2, <2>3 DEF PageInv, PageTypes, Tallies
<1>11. OneDialog'
  BY <1>1 DEF PageInv, OneDialog
<1>12. Buttons'
  BY <1>1, <1>5, ButtonTaken DEF PageInv
<1>13. Handled' /\ InTouch' /\ Counted'
  BY <1>1, <1>5, <1>6, HandlerAdded
<1>14. Extras'
  <2>1. \A k \in DOMAIN rows : k \in Page!Ids
    BY RowsAre DEF PageInv
  <2>2. Extras
    BY DEF PageInv
  <2>3. \A k \in Page!Ids \ DOMAIN rows' : wish'[k] = Page!Limits(Page!New(0))
    BY <1>1, <1>2, <1>9, <2>2 DEF Extras
  <2>4. \A k \in DOMAIN rows' : rows'[k].extra <= wish'[k].extra
    BY <1>1, <1>9, <2>1, <2>2 DEF Extras
  <2>5. ASSUME NEW h \in handlers', h.op = "extend", h.answer = "none"
        PROVE  rows'[h.todo[1]].extra < wish'[h.todo[1]].extra
    <3>1. h \in handlers
      BY <1>5, <2>5
    <3>2. h.todo[1] \in DOMAIN rows
      BY <2>5, <3>1 DEF PageInv, Handled, Handling, Plain
    <3> QED
      BY <1>1, <1>9, <2>1, <2>2, <2>5, <3>1, <3>2 DEF Extras
  <2> QED
    BY <2>3, <2>4, <2>5 DEF Extras
<1>15. Altered'
  <2>1. ASSUME ~crossed'
        PROVE  /\ ~crossed /\ \A h \in handlers : ~Page!Writes(h)
               /\ Obeys(u)'
               /\ \A i \in DOMAIN rows :
                    /\ wish'[i].allowed = wish[i].allowed
                    /\ wish'[i].open = wish[i].open \/ i \in Remaining(u)
    <3>1. ~crossed /\ \A h \in handlers : ~Page!Writes(h)
      BY <1>1, <2>1
    <3>2. \A i \in DOMAIN rows : i \in Page!Ids
      BY RowsAre DEF PageInv
    <3>3. \A i \in g : wish'[i].open = FALSE
      BY <1>2, <1>9, <3>2
    <3>4. Obeys(u)'
      BY <1>4, <1>5, <3>3 DEF Obeys
    <3>5. \A i \in DOMAIN rows : /\ wish'[i].allowed = wish[i].allowed
                                 /\ i \in Remaining(u) \/ wish'[i] = wish[i]
      BY <1>5, <1>9, <3>2
    <3> QED
      BY <3>1, <3>4, <3>5
  <2>2. edit' = Page!NoEdit
    BY <1>1 DEF Page!Free
  <2> QED
    BY <1>1, <1>5, <2>1, <2>2, ChangeAdded
<1> QED
  BY <1>10, <1>11, <1>12, <1>13, <1>14, <1>15 DEF PageInv

LEMMA ClickRetakeKeeps ==
  ASSUME MaxRows \in Nat, PageInv, Page!ClickRetake PROVE PageInv'
<1>1. /\ UNCHANGED <<rows, assigned, view, statuses, fetching, loading, sheet, edit, saving,
                     extend, tally, behind, failed>>
      /\ retake.target # 0 /\ ~retake.loading /\ retake' = [retake EXCEPT !.loading = TRUE]
      /\ wish' = [wish EXCEPT ![retake.target].allowed = @ + 1]
      /\ crossed' = (crossed \/ \E h \in handlers : Page!Writes(h))
      /\ handlers' = handlers \cup {Page!Handler("retake", <<retake.target>>, Page!NoEdit)}
  BY DEF Page!ClickRetake, Page!Start, Page!Beside
<1>2. PICK i \in DOMAIN rows : i = retake.target /\ i \in Page!Ids /\ i \in Nat
  <2>1. retake.target \in {0} \cup DOMAIN rows
    BY DEF PageInv, PageTypes
  <2> QED
    BY <1>1, <2>1, RowsAre DEF PageInv
<1>3. PICK u : /\ handlers' = handlers \cup {u} /\ Plain(u) /\ u.op = "retake"
               /\ u.from = "none" /\ u.answer = "none" /\ u.todo = <<i>>
               /\ Remaining(u) = {i}
  <2> DEFINE todo == <<i>>
  <2>1. /\ "retake" \in Ops /\ Page!NoEdit \in Form
        /\ todo \in Seq(Nat) /\ todo # << >> /\ Len(todo) = 1
    BY <1>2 DEF Ops, Page!NoEdit, Page!Untouched, Form
  <2>2. handlers' = handlers \cup {Page!Handler("retake", todo, Page!NoEdit)}
    BY <1>1, <1>2
  <2>3. todo = <<i>> /\ {todo[k] : k \in DOMAIN todo} = {i}
    OBVIOUS
  <2> HIDE DEF todo
  <2>4. PICK u : /\ u = Page!Handler("retake", todo, Page!NoEdit) /\ Plain(u)
                 /\ u.op = "retake" /\ u.todo = todo /\ u.from = "none" /\ u.answer = "none"
                 /\ Remaining(u) = {todo[k] : k \in DOMAIN todo}
    BY <2>1, StartIs
  <2> QED
    BY <2>2, <2>3, <2>4
<1>4. Handling(u)
  BY <1>2, <1>3 DEF Handling, Page!Lists
<1>5. wish \in [Page!Ids -> Wished]
  BY DEF PageInv, PageTypes
<1>6. /\ wish' \in [Page!Ids -> Wished]
      /\ \A k \in Page!Ids : k # i => wish'[k] = wish[k]
      /\ wish'[i].extra = wish[i].extra /\ wish'[i].open = wish[i].open
      /\ wish'[i].allowed = wish[i].allowed + 1 /\ wish[i].allowed \in Nat
  BY <1>1, <1>2, <1>5 DEF Wished
<1>7. PageTypes'
  <2>1. crossed' \in BOOLEAN
    BY <1>1
  <2> QED
    BY <1>1, <1>6, <2>1 DEF PageInv, PageTypes
<1>8. OneDialog'
  BY <1>1 DEF PageInv, PageTypes, OneDialog
<1>9. Buttons'
  BY <1>1, <1>3, ButtonTaken DEF PageInv, PageTypes
<1>10. Handled' /\ InTouch' /\ Counted'
  BY <1>1, <1>3, <1>4, HandlerAdded
<1>11. Extras'
  <2>1. \A k \in DOMAIN rows : k \in Page!Ids
    BY RowsAre DEF PageInv
  <2>2. Extras
    BY DEF PageInv
  <2>3. \A k \in Page!Ids : wish'[k].extra = wish[k].extra
    BY <1>6
  <2>4. \A k \in Page!Ids \ DOMAIN rows' : wish'[k] = Page!Limits(Page!New(0))
    BY <1>1, <1>2, <1>6, <2>2 DEF Extras
  <2>5. \A k \in DOMAIN rows' : rows'[k].extra <= wish'[k].extra
    BY <1>1, <2>1, <2>2, <2>3 DEF Extras
  <2>6. ASSUME NEW h \in handlers', h.op = "extend", h.answer = "none"
        PROVE  rows'[h.todo[1]].extra < wish'[h.todo[1]].extra
    <3>1. h \in handlers
      BY <1>3, <2>6
    <3>2. h.todo[1] \in DOMAIN rows
      BY <2>6, <3>1 DEF PageInv, Handled, Handling, Plain
    <3> QED
      BY <1>1, <2>1, <2>2, <2>3, <2>6, <3>1, <3>2 DEF Extras
  <2> QED
    BY <2>4, <2>5, <2>6 DEF Extras
<1>12. Altered'
  <2>1. ASSUME ~crossed'
        PROVE  /\ ~crossed /\ \A h \in handlers : ~Page!Writes(h)
               /\ Obeys(u)'
               /\ \A k \in DOMAIN rows :
                    /\ wish'[k].allowed = wish[k].allowed \/ k \in Remaining(u)
                    /\ wish'[k].open = wish[k].open
    <3>1. ~crossed /\ \A h \in handlers : ~Page!Writes(h)
      BY <1>1, <2>1
    <3>2. rows[i].allowed = wish[i].allowed
      BY <3>1 DEF PageInv, Altered, AsAsked, Page!Writes
    <3>3. Obeys(u)'
      BY <1>1, <1>3, <1>6, <3>2 DEF Obeys
    <3>4. \A k \in DOMAIN rows : k \in Page!Ids
      BY RowsAre DEF PageInv
    <3> QED
      BY <1>3, <1>6, <3>1, <3>3, <3>4
  <2>2. edit' = Page!NoEdit
    BY <1>1 DEF PageInv, OneDialog
  <2> QED
    BY <1>1, <1>3, <2>1, <2>2, ChangeAdded
<1> QED
  BY <1>7, <1>8, <1>9, <1>10, <1>11, <1>12 DEF PageInv

-----------------------------------------------------------------------------
(* Lists and results.                                                                *)

\* What was asked for depends on the handlers that write.
LEMMA WritersStay ==
  ASSUME PageInv, UNCHANGED <<rows, assigned, wish, edit, crossed, failed>>,
         \A q : Page!Writes(q) => (q \in handlers <=> q \in handlers'),
         \A q \in handlers' : q.todo \in Seq(Nat) /\ q.op \in Ops
  PROVE  Extras' /\ Altered' /\ Counted'
<1>1. Extras'
  BY DEF PageInv, Extras, Page!Writes
<1>2. Altered'
  <2>1. SUFFICES ASSUME ~crossed' PROVE Altered'
    BY DEF Altered
  <2>2. Altered /\ ~crossed
    BY <2>1 DEF PageInv
  <2>3. \A g, h \in handlers' : Alters(g) /\ Alters(h) => g = h
    BY <2>2 DEF Altered, Alters, Page!Writes
  <2>4. AsAsked'
    BY <2>2 DEF Altered, AsAsked, Page!Writes
  <2>5. ASSUME NEW q \in handlers' PROVE Obeys(q)'
    <3>1. CASE Page!Writes(q)
      BY <2>2, <2>5, <3>1 DEF Altered, Obeys
    <3>2. CASE ~Page!Writes(q)
      BY <3>2 DEF Obeys, Page!Writes
    <3> QED
      BY <3>1, <3>2
  <2>6. FormIsTrue'
    BY <2>2 DEF Altered, FormIsTrue, Page!Writes
  <2> QED
    BY <2>1, <2>3, <2>4, <2>5, <2>6 DEF Altered
<1>3. Counted'
  <2>1. \A x : Of(x)' = Of(x) /\ Given(x)' = Given(x)
    BY DEF Of, Given
  <2>2. SUFFICES ASSUME ~failed, NEW x \in Employees
                 PROVE  /\ (\A h \in handlers' : h.op # "create") => Cardinality(Of(x)) = Given(x)
                        /\ \A h \in handlers' : h.op = "create" /\ h.answer # "error" =>
                             Cardinality(Of(x)) =
                               Given(x) + IF x \in h.arg.ids \ Remaining(h) THEN 1 ELSE 0
    BY <2>1 DEF Counted
  <2>3. /\ (\A h \in handlers : h.op # "create") => Cardinality(Of(x)) = Given(x)
        /\ \A h \in handlers : h.op = "create" /\ h.answer # "error" =>
             Cardinality(Of(x)) = Given(x) + IF x \in h.arg.ids \ Remaining(h) THEN 1 ELSE 0
    BY <2>2 DEF PageInv, Counted
  <2> QED
    BY <2>3 DEF Page!Writes
<1> QED
  BY <1>1, <1>2, <1>3

\* The requests for results, that come and go.
LEMMA ResultsAside ==
  ASSUME PageInv, UNCHANGED <<rows, assigned, wish, view, loading, sheet, edit, saving, extend,
                              retake, behind, crossed, failed>>,
         \A q \in handlers : q \in handlers' \/ q.op = "status",
         \A q \in handlers' : q \in handlers \/ (q.op = "status" /\ Handling(q))
  PROVE  /\ Handled' /\ Buttons' /\ InTouch' /\ Extras' /\ Altered' /\ Counted' /\ OneDialog'
<1>1. Handled'
  BY DEF PageInv, Handled, Handling, Page!Listed
<1>2. \A q \in handlers \cup handlers' : q.op = "status" => q.from = "none"
  BY DEF PageInv, Handled, Handling, Plain, Page!Lists
<1>3. Buttons'
  <2>1. \A k \in {"create", "edit", "retake", "extend"} : \A q :
          Busy(q, k) => (q \in handlers <=> q \in handlers')
    BY <1>2 DEF Busy
  <2>2. \A q : q.op = "load" => (q \in handlers <=> q \in handlers')
    OBVIOUS
  <2>3. Buttons
    BY DEF PageInv
  <2> QED
    BY <2>1, <2>2, <2>3 DEF Buttons
<1>4. InTouch'
  BY DEF PageInv, InTouch, Page!Lists, Alters, Page!Listed
<1>5. Extras' /\ Altered' /\ Counted'
  <2>1. \A q : Page!Writes(q) => (q \in handlers <=> q \in handlers')
    BY DEF Page!Writes
  <2>2. \A q \in handlers' : q.todo \in Seq(Nat) /\ q.op \in Ops
    BY <1>1 DEF Handled, Handling, Plain
  <2> QED
    BY <2>1, <2>2, WritersStay
<1>6. OneDialog'
  BY DEF PageInv, OneDialog
<1> QED
  BY <1>1, <1>3, <1>4, <1>5, <1>6

\* The results of deliveries of the list are asked for, all at once.
LEMMA FetchIs ==
  ASSUME PageInv, MaxRows \in Nat, NEW ids, ids \subseteq DOMAIN rows,
         NEW set, Page!Fetch(ids, set)
  PROVE  /\ fetching' \subseteq Page!Ids /\ set \subseteq handlers'
         /\ \A q \in handlers' :
              q \in set \/ (Handling(q) /\ q.op = "status" /\ q.from = "none")
<1> DEFINE new == {i \in ids : statuses[i] = Page!Unknown /\ i \notin fetching}
<1>1. /\ fetching' = fetching \cup new
      /\ IF new = {} THEN handlers' = set
         ELSE \E todo \in Page!SetToSeqs(new) :
                handlers' = set \cup {Page!Handler("status", todo, Page!NoEdit)}
  BY DEF Page!Fetch
<1>2. new \subseteq DOMAIN rows /\ new \subseteq Page!Ids /\ new \subseteq Nat
  BY RowsAre DEF PageInv
<1>3. fetching' \subseteq Page!Ids
  BY <1>1, <1>2 DEF PageInv, PageTypes
<1> HIDE DEF new
<1>4. CASE new = {}
  <2>1. handlers' = set
    BY <1>1, <1>4
  <2> QED
    BY <1>3, <2>1
<1>5. CASE new # {}
  <2>1. PICK todo \in Page!SetToSeqs(new) :
           handlers' = set \cup {Page!Handler("status", todo, Page!NoEdit)}
    BY <1>1, <1>5
  <2>2. IsFiniteSet(new)
    <3>1. IsFiniteSet(1 .. MaxRows)
      BY FS_Interval
    <3> QED
      BY <1>2, <3>1, FS_Subset DEF Page!Ids
  <2>3. todo \in Seq(new) /\ todo # << >>
    BY <1>5, <2>1, <2>2, OrderIs
  <2>4. /\ "status" \in Ops /\ todo \in Seq(Nat) /\ todo # << >> /\ Page!NoEdit \in Form
        /\ \A k \in DOMAIN todo : todo[k] \in DOMAIN rows
    BY <1>2, <2>3 DEF Ops, Page!NoEdit, Page!Untouched, Form
  <2>5. PICK u : /\ u = Page!Handler("status", todo, Page!NoEdit) /\ Plain(u)
                 /\ u.op = "status" /\ u.todo = todo /\ u.from = "none" /\ u.got = << >>
    BY <2>4, StartIs
  <2>6. Handling(u)
    BY <2>4, <2>5 DEF Handling, Page!Lists
  <2> QED
    BY <1>3, <2>1, <2>5, <2>6
<1> QED
  BY <1>4, <1>5

LEMMA ExpandKeeps ==
  ASSUME PageInv, MaxRows \in Nat, NEW g \in Page!Groups, Page!Expand(g) PROVE PageInv'
<1>1. /\ UNCHANGED <<rows, assigned, wish, view, statuses, loading, sheet, edit, saving, extend,
                     retake, behind, crossed, failed>>
      /\ tally' = [tally EXCEPT !.turns = @ + 1]
      /\ Page!Fetch(g, handlers)
  BY DEF Page!Expand
<1>2. g \subseteq DOMAIN rows
  BY GroupIs DEF PageInv
<1>3. /\ fetching' \subseteq Page!Ids /\ handlers \subseteq handlers'
      /\ \A q \in handlers' :
           q \in handlers \/ (Handling(q) /\ q.op = "status" /\ q.from = "none")
  BY <1>1, <1>2, FetchIs
<1>4. PageTypes'
  BY <1>1, <1>3 DEF PageInv, PageTypes
<1> QED
  BY <1>1, <1>3, <1>4, ResultsAside DEF PageInv

LEMMA ServeStatusKeeps ==
  ASSUME PageInv, NEW h \in handlers, Page!ServeStatus(h) PROVE PageInv'
<1>1. /\ UNCHANGED <<rows, assigned, wish, view, statuses, fetching, loading, sheet, edit,
                     saving, extend, retake, behind, crossed, failed>>
      /\ h.op = "status" /\ Len(h.got) < Len(h.todo)
  BY DEF Page!ServeStatus, Page!pageVars
<1>2. Handling(h) /\ Plain(h)
  BY DEF PageInv, Handled, Handling
<1>3. tally' \in Tallies
  BY DEF PageInv, PageTypes, Page!ServeStatus, Tallies
<1>4. PICK r \in Outcome : handlers' = (handlers \ {h}) \cup {[h EXCEPT !.got = Append(@, r)]}
  <2> DEFINE i == h.todo[Len(h.got) + 1]
  <2>1. Page!AttemptStatus(rows[i]) \in Outcome /\ Page!Unknown \in Outcome
    <3>1. h.todo \in Seq(Nat) /\ h.got \in Seq(Outcome)
      BY <1>2 DEF Plain
    <3>2. Len(h.got) + 1 \in DOMAIN h.todo
      BY <1>1, <3>1
    <3>3. i \in DOMAIN rows
      BY <1>1, <1>2, <3>2 DEF Handling
    <3>4. rows[i] \in DeliveryRow
      BY <3>3 DEF PageInv, PageTypes
    <3> QED
      BY <3>4 DEF DeliveryRow, Outcome, Page!AttemptStatus, Page!Unknown, Page!Runs
  <2> QED
    BY <2>1 DEF Page!ServeStatus, Page!Others
<1>5. PICK u : u = [h EXCEPT !.got = Append(@, r)]
  OBVIOUS
<1>6. u.op = "status" /\ Handling(u)
  <2>1. /\ u = [id |-> h.id, op |-> h.op, todo |-> h.todo, arg |-> h.arg, from |-> h.from,
                answer |-> h.answer, view |-> h.view, mixed |-> h.mixed,
                got |-> Append(h.got, r)]
    BY <1>2, <1>5 DEF Plain
  <2>2. Append(h.got, r) \in Seq(Outcome)
    BY <1>2 DEF Plain
  <2>3. Plain(u)
    BY <1>2, <2>1, <2>2 DEF Plain, Page!Lists
  <2> QED
    BY <1>1, <1>2, <2>1, <2>3 DEF Handling, Page!Lists
<1>7. PageTypes'
  BY <1>1, <1>3 DEF PageInv, PageTypes, Tallies
<1>8. /\ \A q \in handlers : q \in handlers' \/ q.op = "status"
      /\ \A q \in handlers' : q \in handlers \/ (q.op = "status" /\ Handling(q))
  BY <1>1, <1>4, <1>5, <1>6
<1> QED
  BY <1>1, <1>7, <1>8, ResultsAside DEF PageInv

LEMMA StatusesAnsweredKeeps ==
  ASSUME PageInv, NEW h \in handlers, Page!StatusesAnswered(h) PROVE PageInv'
<1> DEFINE known == {k \in DOMAIN h.got : h.got[k] # Page!Unknown}
<1>1. /\ UNCHANGED <<rows, assigned, wish, view, loading, sheet, edit, saving, extend, retake,
                     tally, behind, crossed, failed>>
      /\ h.op = "status" /\ handlers' = handlers \ {h}
      /\ fetching' = fetching \ {h.todo[k] : k \in known}
      /\ statuses' = [i \in Page!Ids |-> IF \E k \in known : h.todo[k] = i
                       THEN h.got[CHOOSE k \in known : h.todo[k] = i] ELSE statuses[i]]
  BY DEF Page!StatusesAnswered, Page!Others
<1>2. h.got \in Seq(Outcome)
  BY DEF PageInv, Handled, Handling, Plain
<1>3. ASSUME NEW i \in Page!Ids PROVE statuses'[i] \in Outcome
  <2>1. CASE \E k \in known : h.todo[k] = i
    <3> DEFINE c == CHOOSE k \in known : h.todo[k] = i
    <3>1. c \in DOMAIN h.got
      BY <2>1
    <3>2. statuses'[i] = h.got[c]
      BY <1>1, <2>1
    <3> HIDE DEF c
    <3> QED
      BY <1>2, <3>1, <3>2
  <2>2. CASE ~\E k \in known : h.todo[k] = i
    <3>1. statuses'[i] = statuses[i]
      BY <1>1, <2>2
    <3> QED
      BY <3>1 DEF PageInv, PageTypes
  <2> QED
    BY <2>1, <2>2
<1>4. statuses' \in [Page!Ids -> Outcome] /\ fetching' \subseteq Page!Ids
  BY <1>1, <1>3 DEF PageInv, PageTypes
<1>5. PageTypes'
  <2>1. UNCHANGED <<rows, assigned, wish, view, loading, sheet, edit, saving, extend, retake,
                    tally, behind, crossed, failed>>
    BY <1>1
  <2> QED
    BY <1>4, <2>1 DEF PageInv, PageTypes
<1>6. /\ \A q \in handlers : q \in handlers' \/ q.op = "status"
      /\ \A q \in handlers' : q \in handlers \/ (q.op = "status" /\ Handling(q))
  BY <1>1
<1> QED
  BY <1>1, <1>5, <1>6, ResultsAside DEF PageInv

LEMMA ListAnsweredKeeps ==
  ASSUME PageInv, MaxRows \in Nat, NEW h \in handlers, h.answer # "none", Page!ListAnswered(h)
  PROVE  PageInv'
<1>1. /\ UNCHANGED <<rows, assigned, wish, statuses, edit, extend, tally, crossed, failed>>
      /\ Page!Lists(h)
      /\ loading' = (loading /\ h.op # "load")
      /\ sheet' = [sheet EXCEPT !.creating = @ /\ h.from # "create"]
      /\ saving' = (saving /\ h.from # "edit")
      /\ retake' = [retake EXCEPT !.loading = @ /\ h.from # "retake"]
      /\ behind' = (h.answer # "ok" \/ h.mixed)
  BY DEF Page!ListAnswered
<1>2. IF h.answer = "ok" THEN view' = h.view /\ Page!Fetch(Page!Singles(h.view), handlers \ {h})
      ELSE UNCHANGED <<view, fetching>> /\ handlers' = handlers \ {h}
  BY DEF Page!ListAnswered, Page!Others
<1>3. Handling(h) /\ Plain(h)
  BY DEF PageInv, Handled, Handling
<1>4. /\ view' \in [DOMAIN view' -> Entry] /\ DOMAIN view' \subseteq DOMAIN rows
      /\ behind' \/ view' = Page!Listed
  <2>1. CASE h.answer = "ok"
    BY <1>1, <1>2, <1>3, <2>1 DEF Handling
  <2>2. CASE h.answer # "ok"
    BY <1>1, <1>2, <2>2 DEF PageInv, PageTypes
  <2> QED
    BY <2>1, <2>2
<1>5. /\ fetching' \subseteq Page!Ids /\ handlers \ {h} \subseteq handlers'
      /\ \A q \in handlers' :
           \/ q \in handlers \ {h}
           \/ Handling(q) /\ q.op = "status" /\ q.from = "none"
  <2>1. CASE h.answer = "ok"
    <3>1. Page!Singles(h.view) \subseteq DOMAIN rows
      BY <1>1, <1>3, <2>1 DEF Handling, Page!Singles
    <3> QED
      BY <1>2, <2>1, <3>1, FetchIs
  <2>2. CASE h.answer # "ok"
    <3>1. fetching' \subseteq Page!Ids /\ handlers' = handlers \ {h}
      BY <1>2, <2>2 DEF PageInv, PageTypes
    <3> QED
      BY <3>1
  <2> QED
    BY <2>1, <2>2
<1>6. PageTypes'
  <2>1. /\ loading' \in BOOLEAN /\ saving' \in BOOLEAN /\ behind' \in BOOLEAN
        /\ sheet' \in [open : BOOLEAN, creating : BOOLEAN, users : SUBSET Employees]
        /\ retake' \in [target : {0} \cup DOMAIN rows, loading : BOOLEAN]
    BY <1>1, <1>3 DEF PageInv, PageTypes, Plain
  <2> QED
    BY <1>1, <1>4, <1>5, <2>1 DEF PageInv, PageTypes
<1>7. Handled'
  BY <1>1, <1>5 DEF PageInv, Handled, Handling, Page!Listed
<1>8. OneDialog'
  BY <1>1 DEF PageInv, PageTypes, OneDialog
<1>9. Buttons'
  <2>1. /\ sheet'.creating = (sheet.creating /\ h.from # "create")
        /\ retake'.loading = (retake.loading /\ h.from # "retake")
    BY <1>1 DEF PageInv, PageTypes
  <2>2. Buttons
    BY DEF PageInv
  <2>3. \A k \in {"create", "edit", "retake", "extend"} :
          /\ \A q \in handlers' : Busy(q, k) => q \in handlers \ {h}
          /\ Busy(h, k) <=> h.from = k
    BY <1>1, <1>5 DEF Busy, Page!Lists
  <2>4. h.from # "extend"
    BY <1>3 DEF Plain
  <2>5. \A k \in {"create", "edit", "retake", "extend"} :
          /\ (\E q \in handlers' : Busy(q, k)) <=> (\E q \in handlers : Busy(q, k)) /\ h.from # k
          /\ \A p, q \in handlers' : Busy(p, k) /\ Busy(q, k) => p = q
    BY <1>5, <2>2, <2>3 DEF Buttons
  <2>6. loading' => \E q \in handlers' : q.op = "load"
    BY <1>1, <1>5, <2>2 DEF Buttons
  <2> QED
    BY <1>1, <2>1, <2>2, <2>4, <2>5, <2>6 DEF Buttons
<1>10. InTouch'
  BY <1>1, <1>4 DEF InTouch, Page!Listed
<1>11. Extras' /\ Altered' /\ Counted'
  <2>1. \A q : Page!Writes(q) => (q \in handlers <=> q \in handlers')
    BY <1>1, <1>5 DEF Page!Writes, Page!Lists
  <2>2. \A q \in handlers' : q.todo \in Seq(Nat) /\ q.op \in Ops
    BY <1>7 DEF Handled, Handling, Plain
  <2> QED
    BY <1>1, <2>1, <2>2, WritersStay
<1> QED
  BY <1>6, <1>7, <1>8, <1>9, <1>10, <1>11 DEF PageInv

-----------------------------------------------------------------------------
(* The server.                                                                       *)

\* Handlers that go on, each where it was: the buttons stay theirs.
LEMMA ButtonsCarried ==
  ASSUME Buttons, NEW F, handlers' = {F[g] : g \in handlers},
         \A g \in handlers : /\ \A k \in {"create", "edit", "retake", "extend"} :
                                  Busy(F[g], k) <=> Busy(g, k)
                             /\ g.op = "load" => F[g].op = "load",
         UNCHANGED saving, sheet'.creating = sheet.creating,
         retake'.loading = retake.loading, extend'.loading = extend.loading,
         loading' => loading \/ \E q \in handlers' : q.op = "load"
  PROVE  Buttons'
<1>1. \A k \in {"create", "edit", "retake", "extend"} :
        /\ \A p, q \in handlers' : Busy(p, k) /\ Busy(q, k) => p = q
        /\ (\E q \in handlers' : Busy(q, k)) <=> \E q \in handlers : Busy(q, k)
  BY DEF Buttons
<1>2. loading' => \E q \in handlers' : q.op = "load"
  BY DEF Buttons
<1> QED
  BY <1>1, <1>2 DEF Buttons

\* A delivery is changed in its place.
LEMMA PlaceKept ==
  ASSUME rows \in Seq(DeliveryRow), NEW t, DOMAIN t = DOMAIN rows,
         t = [k \in DOMAIN rows |-> t[k]], \A k \in DOMAIN rows : t[k] \in DeliveryRow
  PROVE  t \in Seq(DeliveryRow) /\ Len(t) = Len(rows)
<1>1. PICK n \in Nat : n = Len(rows) /\ DOMAIN rows = 1 .. n
  OBVIOUS
<1>2. t = [k \in 1 .. n |-> t[k]] /\ \A k \in 1 .. n : t[k] \in DeliveryRow
  BY <1>1
<1> QED
  BY <1>1, <1>2

\* What the request that a handler waits for does.
LEMMA WrittenIs ==
  ASSUME PageTypes, MaxRows \in Nat, 0 \notin Employees, NEW h, Handling(h),
         h.op = "create" => Len(rows) < MaxRows, rows' = Page!Written(h)
  PROVE  /\ rows' \in Seq(DeliveryRow) /\ Len(rows') <= MaxRows
         /\ DOMAIN rows \subseteq DOMAIN rows'
         /\ h.op # "create" => DOMAIN rows' = DOMAIN rows
         /\ \A i \in DOMAIN rows :
              /\ rows'[i].user = rows[i].user
              /\ \/ Alters(h) /\ i = h.todo[1]
                 \/ rows'[i].allowed = rows[i].allowed /\ rows'[i].open = rows[i].open
              /\ \/ rows'[i].extra = rows[i].extra
                 \/ h.op = "extend" /\ i = h.todo[1] /\ rows'[i].extra = rows[i].extra + 1
         /\ Alters(h) \/ h.op = "extend" => h.todo[1] \in DOMAIN rows
         /\ h.op = "edit" => /\ rows'[h.todo[1]].allowed = h.arg.allowed
                             /\ rows'[h.todo[1]].open = h.arg.open
         /\ h.op = "stop" => /\ rows'[h.todo[1]].allowed = rows[h.todo[1]].allowed
                             /\ rows'[h.todo[1]].open = FALSE
         /\ h.op = "retake" => /\ rows'[h.todo[1]].allowed = rows[h.todo[1]].allowed + 1
                               /\ rows'[h.todo[1]].open = rows[h.todo[1]].open
         /\ h.op = "create" => rows' = Append(rows, Page!New(h.todo[1]))
         /\ Page!Lists(h) => rows' = rows
<1> DEFINE i == h.todo[1]
<1>1. /\ Plain(h) /\ h.todo \in Seq(Nat) /\ h.todo # << >> /\ Head(h.todo) = i
      /\ 1 \in DOMAIN h.todo
  BY DEF Handling, Plain
<1>2. rows \in Seq(DeliveryRow) /\ Len(rows) <= MaxRows /\ DOMAIN rows = 1 .. Len(rows)
  BY RowsAre DEF PageTypes
<1>3. h.op \in {"edit", "stop", "extend", "retake"} => i \in DOMAIN rows
  BY <1>1 DEF Handling
<1> HIDE DEF i
<1>4. ASSUME h.op \in {"edit", "stop", "extend", "retake"}
      PROVE  rows[i] \in DeliveryRow
  BY <1>2, <1>3, <1>4
<1>5. CASE h.op = "create"
  <2>1. rows' = Append(rows, Page!New(i))
    BY <1>1, <1>5 DEF Page!Written
  <2>2. Page!New(i) \in DeliveryRow
    BY <1>1, <1>5 DEF i, Handling, Page!New, DeliveryRow, Participants, Page!Runs
  <2>3. /\ rows' \in Seq(DeliveryRow) /\ Len(rows') = Len(rows) + 1
        /\ \A k \in DOMAIN rows : k \in DOMAIN rows' /\ rows'[k] = rows[k]
    BY <1>2, <2>1, <2>2
  <2>4. Len(rows') <= MaxRows
    BY <1>2, <1>5, <2>3
  <2> QED
    BY <1>5, <2>1, <2>3, <2>4 DEF i, Alters, Page!Lists
<1>6. CASE h.op = "edit"
  <2>1. rows' = [rows EXCEPT ![i].allowed = h.arg.allowed, ![i].open = h.arg.open]
    BY <1>1, <1>6 DEF Page!Written
  <2>2. h.arg.allowed \in Nat \ {0} /\ h.arg.open \in BOOLEAN
    BY <1>1, <1>6 DEF Plain, Form
  <2>3. rows'[i] = [user |-> rows[i].user, allowed |-> h.arg.allowed, open |-> h.arg.open,
                    extra |-> rows[i].extra, used |-> rows[i].used, run |-> rows[i].run]
    BY <1>2, <1>3, <1>4, <1>6, <2>1 DEF DeliveryRow
  <2>4. rows'[i] \in DeliveryRow
    BY <1>4, <1>6, <2>2, <2>3 DEF DeliveryRow
  <2>5. /\ DOMAIN rows' = DOMAIN rows /\ \A k \in DOMAIN rows : k # i => rows'[k] = rows[k]
    BY <1>2, <2>1
  <2>6. rows' \in Seq(DeliveryRow) /\ Len(rows') = Len(rows)
    <3>1. rows' = [k \in DOMAIN rows |-> rows'[k]]
      <4>1. DOMAIN rows' = DOMAIN rows
        BY <2>5
      <4>2. rows' = [k \in DOMAIN rows' |-> rows'[k]]
        BY <1>2, <2>1
      <4> QED
        BY <4>1, <4>2
    <3>2. ASSUME NEW k \in DOMAIN rows PROVE rows'[k] \in DeliveryRow
      <4>1. rows[k] \in DeliveryRow
        BY <1>2
      <4> QED
        BY <2>4, <2>5, <4>1
    <3> QED
      BY <1>2, <2>5, <3>1, <3>2, PlaceKept
  <2> QED
    BY <1>2, <1>3, <1>6, <2>3, <2>5, <2>6 DEF i, Alters, Page!Lists
<1>7. CASE h.op = "stop"
  <2>1. rows' = [rows EXCEPT ![i].open = FALSE]
    BY <1>1, <1>7 DEF Page!Written
  <2>2. rows'[i] \in DeliveryRow
    BY <1>2, <1>3, <1>4, <1>7, <2>1 DEF DeliveryRow
  <2>3. /\ DOMAIN rows' = DOMAIN rows /\ \A k \in DOMAIN rows : k # i => rows'[k] = rows[k]
        /\ rows'[i].user = rows[i].user /\ rows'[i].allowed = rows[i].allowed
        /\ rows'[i].open = FALSE /\ rows'[i].extra = rows[i].extra
    BY <1>2, <1>3, <1>4, <1>7, <2>1 DEF DeliveryRow
  <2>4. rows' \in Seq(DeliveryRow) /\ Len(rows') = Len(rows)
    <3>1. rows' = [k \in DOMAIN rows |-> rows'[k]]
      <4>1. DOMAIN rows' = DOMAIN rows
        BY <2>3
      <4>2. rows' = [k \in DOMAIN rows' |-> rows'[k]]
        BY <1>2, <2>1
      <4> QED
        BY <4>1, <4>2
    <3>2. ASSUME NEW k \in DOMAIN rows PROVE rows'[k] \in DeliveryRow
      <4>1. rows[k] \in DeliveryRow
        BY <1>2
      <4> QED
        BY <2>2, <2>3, <4>1
    <3> QED
      BY <1>2, <2>3, <3>1, <3>2, PlaceKept
  <2> QED
    BY <1>2, <1>3, <1>7, <2>3, <2>4 DEF i, Alters, Page!Lists
<1>8. CASE h.op = "retake"
  <2>1. rows' = [rows EXCEPT ![i].allowed = @ + 1]
    BY <1>1, <1>8 DEF Page!Written
  <2>2. rows'[i] \in DeliveryRow
    <3>1. PICK r \in DeliveryRow : r = rows[i]
      BY <1>4, <1>8
    <3>2. rows'[i] = [user |-> r.user, allowed |-> r.allowed + 1, open |-> r.open,
                      extra |-> r.extra, used |-> r.used, run |-> r.run]
      BY <1>2, <1>3, <1>8, <2>1, <3>1 DEF DeliveryRow
    <3> QED
      BY <3>2 DEF DeliveryRow
  <2>3. /\ DOMAIN rows' = DOMAIN rows /\ \A k \in DOMAIN rows : k # i => rows'[k] = rows[k]
        /\ rows'[i].user = rows[i].user /\ rows'[i].allowed = rows[i].allowed + 1
        /\ rows'[i].open = rows[i].open /\ rows'[i].extra = rows[i].extra
    BY <1>2, <1>3, <1>4, <1>8, <2>1 DEF DeliveryRow
  <2>4. rows' \in Seq(DeliveryRow) /\ Len(rows') = Len(rows)
    <3>1. rows' = [k \in DOMAIN rows |-> rows'[k]]
      <4>1. DOMAIN rows' = DOMAIN rows
        BY <2>3
      <4>2. rows' = [k \in DOMAIN rows' |-> rows'[k]]
        BY <1>2, <2>1
      <4> QED
        BY <4>1, <4>2
    <3>2. ASSUME NEW k \in DOMAIN rows PROVE rows'[k] \in DeliveryRow
      <4>1. rows[k] \in DeliveryRow
        BY <1>2
      <4> QED
        BY <2>2, <2>3, <4>1
    <3> QED
      BY <1>2, <2>3, <3>1, <3>2, PlaceKept
  <2> QED
    BY <1>2, <1>3, <1>8, <2>3, <2>4 DEF i, Alters, Page!Lists
<1>9. CASE h.op = "extend" /\ rows[i].run = "in_progress"
  <2>1. rows' = [rows EXCEPT ![i].extra = @ + 1]
    BY <1>1, <1>9 DEF Page!Written
  <2>2. rows'[i] \in DeliveryRow
    <3>1. PICK r \in DeliveryRow : r = rows[i]
      BY <1>4, <1>9
    <3>2. rows'[i] = [user |-> r.user, allowed |-> r.allowed, open |-> r.open,
                      extra |-> r.extra + 1, used |-> r.used, run |-> r.run]
      BY <1>2, <1>3, <1>9, <2>1, <3>1 DEF DeliveryRow
    <3> QED
      BY <3>2 DEF DeliveryRow
  <2>3. /\ DOMAIN rows' = DOMAIN rows /\ \A k \in DOMAIN rows : k # i => rows'[k] = rows[k]
        /\ rows'[i].user = rows[i].user /\ rows'[i].allowed = rows[i].allowed
        /\ rows'[i].open = rows[i].open /\ rows'[i].extra = rows[i].extra + 1
    BY <1>2, <1>3, <1>4, <1>9, <2>1 DEF DeliveryRow
  <2>4. rows' \in Seq(DeliveryRow) /\ Len(rows') = Len(rows)
    <3>1. rows' = [k \in DOMAIN rows |-> rows'[k]]
      <4>1. DOMAIN rows' = DOMAIN rows
        BY <2>3
      <4>2. rows' = [k \in DOMAIN rows' |-> rows'[k]]
        BY <1>2, <2>1
      <4> QED
        BY <4>1, <4>2
    <3>2. ASSUME NEW k \in DOMAIN rows PROVE rows'[k] \in DeliveryRow
      <4>1. rows[k] \in DeliveryRow
        BY <1>2
      <4> QED
        BY <2>2, <2>3, <4>1
    <3> QED
      BY <1>2, <2>3, <3>1, <3>2, PlaceKept
  <2> QED
    BY <1>2, <1>3, <1>9, <2>3, <2>4 DEF i, Alters, Page!Lists
<1>10. CASE \/ h.op = "extend" /\ rows[i].run # "in_progress"
            \/ h.op \in {"load", "reload", "status"}
  <2>1. rows' = rows
    BY <1>1, <1>10 DEF Page!Written
  <2> QED
    BY <1>2, <1>3, <1>10, <2>1 DEF i, Alters
<1> QED
  BY <1>1, <1>5, <1>6, <1>7, <1>8, <1>9, <1>10 DEF Plain, Ops

\* The handler whose request was served, and the others: a list that was read before a write
\* is known to be late.
LEMMA ServedAre ==
  ASSUME PageInv, NEW h \in handlers, Page!Serve(h)
  PROVE  \E F : /\ handlers' = {F[g] : g \in handlers}
                /\ F[h] = [h EXCEPT !.answer = "ok", !.view = Page!Listed']
                /\ \A g \in handlers \ {h} :
                     F[g] = IF Page!Writes(h) /\ Page!Lists(g) /\ g.answer = "ok"
                            THEN [g EXCEPT !.mixed = TRUE] ELSE g
<1> DEFINE s == [h EXCEPT !.answer = "ok", !.view = Page!Listed']
           Marked(g) == IF Page!Writes(h) /\ Page!Lists(g) /\ g.answer = "ok"
                      THEN [g EXCEPT !.mixed = TRUE] ELSE g
           F == [g \in handlers |-> IF g = h THEN s ELSE Marked(g)]
<1>1. /\ Page!Served(h) = (handlers \ {h}) \cup {s}
      /\ handlers' = IF Page!Writes(h) THEN Page!Late(Page!Served(h)) ELSE Page!Served(h)
  BY DEF Page!Serve, Page!Served, Page!Others
<1>2. Page!Lists(s) <=> Page!Lists(h)
  <2>1. s.op = h.op
    BY DEF PageInv, Handled, Handling, Plain
  <2> QED
    BY <2>1 DEF Page!Lists
<1> HIDE DEF s
<1>3. handlers' = {Marked(g) : g \in handlers \ {h}} \cup {s}
  <2>1. CASE Page!Writes(h)
    <3>1. ~Page!Lists(s)
      BY <1>2, <2>1 DEF Page!Writes, Page!Lists
    <3>2. handlers' = {IF Page!Lists(r) /\ r.answer = "ok" THEN [r EXCEPT !.mixed = TRUE] ELSE r :
                         r \in (handlers \ {h}) \cup {s}}
      BY <1>1, <2>1 DEF Page!Late
    <3> QED
      BY <2>1, <3>1, <3>2
  <2>2. CASE ~Page!Writes(h)
    BY <1>1, <2>2
  <2> QED
    BY <2>1, <2>2
<1>4. {F[g] : g \in handlers} = {Marked(g) : g \in handlers \ {h}} \cup {s}
  OBVIOUS
<1> QED
  BY <1>3, <1>4 DEF s

\* What they are then.
LEMMA ServedKeep ==
  ASSUME PageInv, NEW h \in handlers, h.answer = "none", NEW F,
         F[h] = [h EXCEPT !.answer = "ok", !.view = Page!Listed'],
         \A g \in handlers \ {h} :
            F[g] = IF Page!Writes(h) /\ Page!Lists(g) /\ g.answer = "ok"
                   THEN [g EXCEPT !.mixed = TRUE] ELSE g
  PROVE  /\ \A g \in handlers :
              /\ Plain(F[g]) /\ F[g].op = g.op /\ F[g].from = g.from /\ F[g].todo = g.todo
              /\ F[g].arg = g.arg
         /\ F[h].answer = "ok" /\ F[h].view = Page!Listed'
         /\ \A g \in handlers \ {h} :
              /\ F[g].answer = g.answer /\ F[g].view = g.view
              /\ ~F[g].mixed => ~g.mixed
              /\ Page!Writes(h) /\ Page!Lists(g) /\ g.answer = "ok" => F[g].mixed
<1>1. \A g \in handlers : Plain(g)
  BY DEF PageInv, Handled, Handling
<1>2. /\ F[h] = [id |-> h.id, op |-> h.op, todo |-> h.todo, arg |-> h.arg, from |-> h.from,
                 answer |-> "ok", view |-> Page!Listed', mixed |-> h.mixed, got |-> h.got]
  BY <1>1 DEF Plain
<1>3. Plain(F[h])
  BY <1>1, <1>2 DEF Plain, Page!Lists
<1>4. ASSUME NEW g \in handlers \ {h}
      PROVE  /\ Plain(F[g]) /\ F[g].op = g.op /\ F[g].from = g.from /\ F[g].todo = g.todo
             /\ F[g].arg = g.arg /\ F[g].answer = g.answer /\ F[g].view = g.view
             /\ ~F[g].mixed => ~g.mixed
             /\ Page!Writes(h) /\ Page!Lists(g) /\ g.answer = "ok" => F[g].mixed
  <2>1. CASE Page!Writes(h) /\ Page!Lists(g) /\ g.answer = "ok"
    <3>1. F[g] = [id |-> g.id, op |-> g.op, todo |-> g.todo, arg |-> g.arg, from |-> g.from,
                  answer |-> g.answer, view |-> g.view, mixed |-> TRUE, got |-> g.got]
      <4>1. F[g] = [g EXCEPT !.mixed = TRUE]
        BY <2>1
      <4>2. g = [id |-> g.id, op |-> g.op, todo |-> g.todo, arg |-> g.arg, from |-> g.from,
                 answer |-> g.answer, view |-> g.view, mixed |-> g.mixed, got |-> g.got]
        BY <1>1 DEF Plain
      <4> QED
        BY <4>1, <4>2
    <3>2. Plain(F[g])
      <4>1. Plain(g)
        BY <1>1
      <4> QED
        BY <3>1, <4>1 DEF Plain, Page!Lists
    <3> QED
      BY <3>1, <3>2
  <2>2. CASE ~(Page!Writes(h) /\ Page!Lists(g) /\ g.answer = "ok")
    <3>1. F[g] = g
      BY <2>2
    <3> QED
      BY <1>1, <2>2, <3>1
  <2> QED
    BY <2>1, <2>2
<1> QED
  BY <1>2, <1>3, <1>4

LEMMA ServeKeeps ==
  ASSUME Page!DeliveriesAssumption, PageInv, NEW h \in handlers, Page!Serve(h) PROVE PageInv'
<1> DEFINE i == h.todo[1]
<1>0. MaxRows \in Nat /\ 0 \notin Employees /\ Participants \subseteq Nat
  BY PageConstants
<1>1. /\ UNCHANGED <<assigned, wish, view, statuses, fetching, loading, sheet, edit, saving,
                     extend, retake, tally, behind, crossed, failed>>
      /\ h.answer = "none" /\ h.op # "status" /\ rows' = Page!Written(h)
      /\ h.op = "create" => Len(rows) < MaxRows
  BY DEF Page!Serve, Page!pageVars
<1>2. Handling(h) /\ Plain(h) /\ h.todo \in Seq(Nat) /\ 1 \in DOMAIN h.todo
  BY DEF PageInv, Handled, Handling, Plain
<1>3. /\ rows' \in Seq(DeliveryRow) /\ Len(rows') <= MaxRows
      /\ DOMAIN rows \subseteq DOMAIN rows'
      /\ h.op # "create" => DOMAIN rows' = DOMAIN rows
      /\ \A k \in DOMAIN rows :
           /\ rows'[k].user = rows[k].user
           /\ \/ Alters(h) /\ k = i
              \/ rows'[k].allowed = rows[k].allowed /\ rows'[k].open = rows[k].open
           /\ \/ rows'[k].extra = rows[k].extra
              \/ h.op = "extend" /\ k = i /\ rows'[k].extra = rows[k].extra + 1
      /\ Alters(h) \/ h.op = "extend" => i \in DOMAIN rows
      /\ h.op = "edit" => rows'[i].allowed = h.arg.allowed /\ rows'[i].open = h.arg.open
      /\ h.op = "stop" => rows'[i].allowed = rows[i].allowed /\ rows'[i].open = FALSE
      /\ h.op = "retake" => /\ rows'[i].allowed = rows[i].allowed + 1
                            /\ rows'[i].open = rows[i].open
      /\ h.op = "create" => rows' = Append(rows, Page!New(i))
      /\ Page!Lists(h) => rows' = rows
  BY <1>0, <1>1, <1>2, WrittenIs DEF PageInv
<1>4. PICK F : /\ handlers' = {F[g] : g \in handlers}
               /\ F[h] = [h EXCEPT !.answer = "ok", !.view = Page!Listed']
               /\ \A g \in handlers \ {h} :
                    F[g] = IF Page!Writes(h) /\ Page!Lists(g) /\ g.answer = "ok"
                           THEN [g EXCEPT !.mixed = TRUE] ELSE g
  BY ServedAre
<1>5. /\ \A g \in handlers :
           /\ Plain(F[g]) /\ F[g].op = g.op /\ F[g].from = g.from /\ F[g].todo = g.todo
           /\ F[g].arg = g.arg
      /\ F[h].answer = "ok" /\ F[h].view = Page!Listed'
      /\ \A g \in handlers \ {h} :
           /\ F[g].answer = g.answer /\ F[g].view = g.view
           /\ ~F[g].mixed => ~g.mixed
           /\ Page!Writes(h) /\ Page!Lists(g) /\ g.answer = "ok" => F[g].mixed
  BY <1>1, <1>4, ServedKeep
<1>6. PageTypes'
  BY <1>1, <1>3 DEF PageInv, PageTypes
<1>7. Handled'
  <2>1. Page!Listed' \in [DOMAIN rows' -> Entry]
    <3>1. \A k \in DOMAIN rows' : rows'[k] \in DeliveryRow
      BY <1>3
    <3> QED
      BY <3>1 DEF Page!Listed, DeliveryRow, Entry
  <2>2. Handling(F[h])'
    <3>1. /\ Plain(F[h]) /\ F[h].op = h.op /\ F[h].todo = h.todo /\ F[h].arg = h.arg
          /\ F[h].view = Page!Listed'
      BY <1>5
    <3>2. /\ F[h].view \in [DOMAIN F[h].view -> Entry] /\ DOMAIN F[h].view \subseteq DOMAIN rows'
      BY <2>1, <3>1
    <3> QED
      BY <1>2, <1>3, <3>1, <3>2 DEF Handling
  <2>3. ASSUME NEW g \in handlers \ {h} PROVE Handling(F[g])'
    <3>1. /\ Plain(F[g]) /\ F[g].op = g.op /\ F[g].todo = g.todo /\ F[g].arg = g.arg
          /\ F[g].answer = g.answer /\ F[g].view = g.view /\ (~F[g].mixed => ~g.mixed)
      BY <1>5
    <3>2. Handling(g)
      BY DEF PageInv, Handled
    <3>3. CASE Page!Lists(g) /\ g.answer = "ok"
      <4>1. /\ g.view \in [DOMAIN g.view -> Entry] /\ DOMAIN g.view \subseteq DOMAIN rows'
        BY <1>3, <3>2, <3>3 DEF Handling
      <4>2. ~F[g].mixed => g.view = Page!Listed'
        <5>1. ~F[g].mixed => ~Page!Writes(h)
          BY <1>5, <3>3
        <5>2. ~Page!Writes(h) => rows' = rows
          BY <1>1, <1>2, <1>3 DEF Page!Writes, Page!Lists, Plain, Ops
        <5>3. ~g.mixed => g.view = Page!Listed
          BY <3>2, <3>3 DEF Handling
        <5> QED
          BY <3>1, <5>1, <5>2, <5>3 DEF Page!Listed
      <4> QED
        BY <3>1, <3>3, <4>1, <4>2 DEF Handling, Page!Lists
    <3>4. CASE ~(Page!Lists(g) /\ g.answer = "ok")
      BY <1>3, <3>1, <3>2, <3>4 DEF Handling, Page!Lists
    <3> QED
      BY <3>3, <3>4
  <2> QED
    BY <1>4, <2>2, <2>3 DEF Handled
<1>8. OneDialog'
  BY <1>1 DEF PageInv, OneDialog
<1>9. Buttons'
  <2>1. \A g \in handlers : \A k \in {"create", "edit", "retake", "extend"} :
          Busy(F[g], k) <=> Busy(g, k)
    BY <1>5 DEF Busy
  <2> QED
    BY <1>1, <1>4, <1>5, <2>1, ButtonsCarried DEF PageInv
<1>10. InTouch'
  <2>1. ~behind => \/ view = Page!Listed
                   \/ \E g \in handlers : Page!Lists(g) \/ Alters(g) \/ g.op = "create"
    BY DEF PageInv, InTouch
  <2>2. \A g \in handlers : Page!Lists(g) \/ Alters(g) \/ g.op = "create" =>
          Page!Lists(F[g]) \/ Alters(F[g]) \/ F[g].op = "create"
    BY <1>5 DEF Page!Lists, Alters
  <2>3. CASE h.op # "extend"
    <3>1. Page!Lists(h) \/ Alters(h) \/ h.op = "create"
      BY <1>1, <1>2, <2>3 DEF Page!Lists, Alters, Plain, Ops
    <3> QED
      BY <1>4, <2>2, <3>1 DEF InTouch
  <2>4. CASE h.op = "extend"
    <3>1. Page!Listed' = Page!Listed
      BY <1>3, <2>4 DEF Page!Listed, Alters
    <3> QED
      BY <1>1, <1>4, <2>1, <2>2, <3>1 DEF InTouch
  <2> QED
    BY <2>3, <2>4
<1>11. Extras'
  <2>1. \A k \in DOMAIN rows : k \in Page!Ids /\ rows[k].extra \in Nat
    BY <1>0, RowsAre DEF PageInv
  <2>2. Extras
    BY DEF PageInv
  <2>3. \A k \in Page!Ids \ DOMAIN rows' : wish'[k] = Page!Limits(Page!New(0))
    BY <1>1, <1>3, <2>2 DEF Extras
  <2>4. ASSUME NEW k \in DOMAIN rows' PROVE rows'[k].extra <= wish'[k].extra
    <3>1. CASE k \in DOMAIN rows
      <4>1. rows[k].extra <= wish[k].extra
        BY <2>2, <3>1 DEF Extras
      <4>2. h.op = "extend" => rows[i].extra < wish[i].extra
        BY <1>1, <2>2 DEF Extras
      <4>3. wish[k].extra \in Nat
        BY <2>1, <3>1 DEF PageInv, PageTypes, Wished
      <4> QED
        BY <1>1, <1>3, <2>1, <3>1, <4>1, <4>2, <4>3
    <3>2. CASE k \notin DOMAIN rows
      <4>1. rows' = Append(rows, Page!New(i)) /\ rows \in Seq(DeliveryRow)
        BY <1>3, <2>4, <3>2 DEF PageInv, PageTypes
      <4>2. rows'[k] = Page!New(i)
        BY <2>4, <3>2, <4>1
      <4>3. k \in Page!Ids
        BY <1>0, <1>3, <2>4 DEF Page!Ids
      <4>4. wish[k] = Page!Limits(Page!New(0))
        BY <2>2, <3>2, <4>3 DEF Extras
      <4> QED
        BY <1>1, <4>2, <4>4 DEF Page!New, Page!Limits
    <3> QED
      BY <3>1, <3>2
  <2>5. ASSUME NEW q \in handlers', q.op = "extend", q.answer = "none"
        PROVE  rows'[q.todo[1]].extra < wish'[q.todo[1]].extra
    <3>1. PICK g \in handlers : q = F[g]
      BY <1>4
    <3>2. g # h /\ g.op = "extend" /\ g.answer = "none" /\ q.todo = g.todo
      BY <1>5, <2>5, <3>1
    <3>3. h.op # "extend"
      BY <3>2 DEF PageInv, Buttons, Busy
    <3>4. g.todo[1] \in DOMAIN rows
      BY <3>2 DEF PageInv, Handled, Handling, Plain
    <3> QED
      BY <1>1, <1>3, <2>2, <3>2, <3>3, <3>4 DEF Extras
  <2> QED
    BY <2>3, <2>4, <2>5 DEF Extras
<1>12. Remaining(h) = {h.todo[k] : k \in DOMAIN h.todo}
  BY <1>1 DEF Remaining
<1>13. /\ \A g \in handlers \ {h} : Remaining(F[g]) = Remaining(g)
       /\ Remaining(F[h]) = {h.todo[k] : k \in {j \in DOMAIN h.todo : j > 1}}
  BY <1>5 DEF Remaining
<1>14. Altered'
  <2>1. SUFFICES ASSUME ~crossed' PROVE Altered'
    BY DEF Altered
  <2>2. /\ ~crossed /\ AsAsked /\ FormIsTrue /\ \A g \in handlers : Obeys(g)
        /\ \A g, q \in handlers : Alters(g) /\ Alters(q) => g = q
    BY <1>1, <2>1 DEF PageInv, Altered
  <2>3. \A g, q \in handlers' : Alters(g) /\ Alters(q) => g = q
    <3>1. \A g \in handlers : Alters(F[g]) <=> Alters(g)
      BY <1>5 DEF Alters
    <3> QED
      BY <1>4, <2>2, <3>1
  <2>4. ASSUME NEW k \in DOMAIN rows, ~(Alters(h) /\ k = i)
        PROVE  /\ \/ rows'[k].allowed = wish'[k].allowed
                  \/ \E q \in handlers' : q.op \in {"edit", "retake"} /\ k \in Remaining(q)
               /\ \/ (rows'[k].open <=> wish'[k].open)
                  \/ \E q \in handlers' : q.op \in {"edit", "stop"} /\ k \in Remaining(q)
    <3>1. ASSUME NEW g \in handlers, Alters(g), k \in Remaining(g)
          PROVE  F[g] \in handlers' /\ F[g].op = g.op /\ k \in Remaining(F[g])
      <4>1. F[g] \in handlers' /\ F[g].op = g.op
        BY <1>4, <1>5
      <4>2. CASE g = h
        <5>1. PICK j \in DOMAIN h.todo : k = h.todo[j] /\ j # 1
          BY <1>12, <2>4, <3>1, <4>2
        <5>2. j > 1
          BY <1>2, <5>1
        <5> QED
          BY <1>13, <4>1, <4>2, <5>1, <5>2
      <4>3. CASE g # h
        BY <1>13, <3>1, <4>1, <4>3
      <4> QED
        BY <4>2, <4>3
    <3>2. rows'[k].allowed = rows[k].allowed /\ rows'[k].open = rows[k].open
      BY <1>3, <2>4
    <3>3. /\ \/ rows[k].allowed = wish[k].allowed
             \/ \E g \in handlers : g.op \in {"edit", "retake"} /\ k \in Remaining(g)
          /\ \/ (rows[k].open <=> wish[k].open)
             \/ \E g \in handlers : g.op \in {"edit", "stop"} /\ k \in Remaining(g)
      BY <2>2 DEF AsAsked
    <3> QED
      BY <1>1, <3>1, <3>2, <3>3 DEF Alters
  <2>5. ASSUME Alters(h)
        PROVE  /\ \/ rows'[i].allowed = wish'[i].allowed
                  \/ \E q \in handlers' : q.op \in {"edit", "retake"} /\ i \in Remaining(q)
               /\ \/ (rows'[i].open <=> wish'[i].open)
                  \/ \E q \in handlers' : q.op \in {"edit", "stop"} /\ i \in Remaining(q)
    <3>1. /\ h.op = "edit" => wish[i].allowed = h.arg.allowed /\ (wish[i].open <=> h.arg.open)
          /\ h.op = "stop" => ~wish[i].open
          /\ h.op = "retake" => rows[i].allowed + 1 = wish[i].allowed
      BY <1>1, <1>2, <2>2 DEF Obeys
    <3>2. /\ \/ rows[i].allowed = wish[i].allowed \/ h.op \in {"edit", "retake"}
          /\ \/ (rows[i].open <=> wish[i].open) \/ h.op \in {"edit", "stop"}
      <4>1. \A g \in handlers : g.op \in {"edit", "retake", "stop"} => g = h
        BY <2>2, <2>5 DEF Alters
      <4> QED
        BY <1>3, <2>2, <2>5, <4>1 DEF AsAsked
    <3>3. h.op \in {"edit", "stop", "retake"}
      BY <2>5 DEF Alters
    <3> QED
      BY <1>1, <1>3, <3>1, <3>2, <3>3
  <2>6. ASSUME NEW k \in DOMAIN rows', k \notin DOMAIN rows
        PROVE  rows'[k].allowed = wish'[k].allowed /\ (rows'[k].open <=> wish'[k].open)
    <3>1. rows' = Append(rows, Page!New(i)) /\ rows \in Seq(DeliveryRow)
      BY <1>3, <2>6 DEF PageInv, PageTypes
    <3>2. rows'[k] = Page!New(i)
      BY <2>6, <3>1
    <3>3. k \in Page!Ids
      BY <1>0, <1>3, <2>6 DEF Page!Ids
    <3>4. wish[k] = Page!Limits(Page!New(0))
      BY <2>6, <3>3 DEF PageInv, Extras
    <3> QED
      BY <1>1, <3>2, <3>4 DEF Page!New, Page!Limits
  <2>7. AsAsked'
    BY <2>4, <2>5, <2>6 DEF AsAsked
  <2>8. ASSUME NEW q \in handlers' PROVE Obeys(q)'
    <3>1. PICK g \in handlers : q = F[g]
      BY <1>4
    <3>2. /\ q.op = g.op /\ q.todo = g.todo /\ q.arg = g.arg /\ Obeys(g) /\ Handling(g)
          /\ q.answer = "none" => g # h /\ g.answer = "none"
      BY <1>5, <2>2, <3>1 DEF PageInv, Handled
    <3>3. ASSUME q.op = "retake", q.answer = "none", NEW k \in DOMAIN q.todo
          PROVE  rows'[q.todo[k]].allowed = rows[q.todo[k]].allowed
      <4>1. ~Alters(h)
        BY <2>2, <3>2, <3>3 DEF Alters
      <4>2. q.todo[k] \in DOMAIN rows
        BY <3>2, <3>3 DEF Handling
      <4> QED
        BY <1>3, <4>1, <4>2
    <3> QED
      BY <1>1, <3>2, <3>3 DEF Obeys
  <2>9. FormIsTrue'
    <3>1. SUFFICES ASSUME edit # Page!NoEdit PROVE FormIsTrue'
      BY <1>1 DEF FormIsTrue
    <3>2. CASE \E g \in handlers : g.op = "edit"
      BY <1>4, <1>5, <3>2 DEF FormIsTrue
    <3>3. CASE ~\E g \in handlers : g.op = "edit"
      <4>1. \A g \in handlers : ~Page!Writes(g)
        BY <2>2, <3>1, <3>3 DEF FormIsTrue
      <4>2. rows' = rows
        BY <1>1, <1>2, <1>3, <4>1 DEF Page!Writes, Page!Lists, Plain, Ops
      <4>3. \A q \in handlers' : ~Page!Writes(q)
        BY <1>4, <1>5, <4>1 DEF Page!Writes
      <4> QED
        BY <1>1, <2>2, <3>1, <3>3, <4>2, <4>3 DEF FormIsTrue
    <3> QED
      BY <3>2, <3>3
  <2> QED
    BY <2>3, <2>7, <2>8, <2>9 DEF Altered
<1>15. Counted'
  <2>1. SUFFICES ASSUME ~failed, NEW x \in Employees
                 PROVE  /\ (\A q \in handlers' : q.op # "create") =>
                             Cardinality(Of(x)') = Given(x)
                        /\ \A q \in handlers' : q.op = "create" /\ q.answer # "error" =>
                             Cardinality(Of(x)') =
                               Given(x) + IF x \in q.arg.ids \ Remaining(q) THEN 1 ELSE 0
    BY <1>1 DEF Counted, Given
  <2>2. /\ (\A g \in handlers : g.op # "create") => Cardinality(Of(x)) = Given(x)
        /\ \A g \in handlers : g.op = "create" /\ g.answer # "error" =>
             Cardinality(Of(x)) = Given(x) + IF x \in g.arg.ids \ Remaining(g) THEN 1 ELSE 0
    BY <2>1 DEF PageInv, Counted
  <2>3. CASE h.op # "create"
    <3>1. Of(x)' = Of(x)
      BY <1>3, <2>3 DEF Of
    <3>2. \A g \in handlers : g.op = "create" =>
            /\ g # h /\ F[g].answer = g.answer /\ F[g].arg = g.arg
            /\ Remaining(F[g]) = Remaining(g)
      BY <1>5, <1>13, <2>3
    <3> QED
      BY <1>4, <1>5, <2>2, <3>1, <3>2
  <2>4. CASE h.op = "create"
    <3>1. /\ Cardinality(Of(x)) = Given(x) + IF x \in h.arg.ids \ Remaining(h) THEN 1 ELSE 0
          /\ \A q \in handlers' : q.op = "create" => q = F[h]
          /\ F[h] \in handlers' /\ F[h].op = "create" /\ F[h].arg = h.arg
      <4>1. \A g \in handlers : g.op = "create" => g = h
        BY <2>4 DEF PageInv, Buttons, Busy
      <4> QED
        BY <1>1, <1>4, <1>5, <2>2, <2>4, <4>1
    <3>2. /\ i \in Remaining(h) /\ i \notin Remaining(F[h])
          /\ Remaining(F[h]) \subseteq Remaining(h)
          /\ Remaining(h) = Remaining(F[h]) \cup {i}
      <4>1. \A j, k \in DOMAIN h.todo : h.todo[j] = h.todo[k] => j = k
        BY <1>2, <2>4 DEF Handling
      <4>2. \A k \in DOMAIN h.todo : k = 1 \/ k > 1
        BY <1>2
      <4> QED
        BY <1>2, <1>12, <1>13, <4>1, <4>2
    <3>3. i \in {0} \cup h.arg.ids
      BY <1>2, <2>4 DEF Handling
    <3>4. PICK n \in Nat : /\ DOMAIN rows = 1 .. n /\ DOMAIN rows' = 1 .. n + 1
                           /\ rows'[n + 1].user = i /\ \A k \in 1 .. n : rows'[k] = rows[k]
      <4>1. rows' = Append(rows, Page!New(i)) /\ rows \in Seq(DeliveryRow)
        BY <1>3, <2>4 DEF PageInv, PageTypes
      <4>2. Page!New(i).user = i
        BY DEF Page!New
      <4> QED
        BY <4>1, <4>2
    <3>5. CASE x = i
      <4>1. Of(x)' = Of(x) \cup {n + 1} /\ n + 1 \notin Of(x)
        BY <3>4, <3>5 DEF Of
      <4>2. IsFiniteSet(Of(x))
        <5>1. Of(x) \subseteq 1 .. n /\ IsFiniteSet(1 .. n)
          BY <3>4, FS_Interval DEF Of
        <5> QED
          BY <5>1, FS_Subset
      <4>3. Cardinality(Of(x)') = Cardinality(Of(x)) + 1
        BY <4>1, <4>2, FS_AddElement
      <4>4. x \in h.arg.ids
        BY <1>0, <2>1, <3>3, <3>5
      <4>5. Given(x) \in Nat
        BY <2>1 DEF PageInv, PageTypes, Given
      <4> QED
        BY <3>1, <3>2, <3>5, <4>3, <4>4, <4>5
    <3>6. CASE x # i
      <4>1. Of(x)' = Of(x)
        BY <3>4, <3>6 DEF Of
      <4> QED
        BY <3>1, <3>2, <3>6, <4>1
    <3> QED
      BY <3>5, <3>6
  <2> QED
    BY <2>3, <2>4
<1> QED
  BY <1>6, <1>7, <1>8, <1>9, <1>10, <1>11, <1>14, <1>15 DEF PageInv

LEMMA AttemptKeeps ==
  ASSUME MaxRows \in Nat, PageInv, NEW i \in Page!Ids, Page!Attempt(i) PROVE PageInv'
<1>1. /\ UNCHANGED <<assigned, wish, view, statuses, fetching, loading, sheet, edit, saving,
                     extend, retake, handlers, behind, crossed, failed>>
      /\ tally' = [tally EXCEPT !.turns = @ + 1] /\ i \in DOMAIN rows
      /\ rows' = IF rows[i].run = "in_progress" THEN [rows EXCEPT ![i].run = "completed"]
                 ELSE [rows EXCEPT ![i].run = "in_progress", ![i].used = @ + 1]
  BY DEF Page!Attempt, Page!pageVars
<1>2. PICK r \in DeliveryRow : r = rows[i]
  BY <1>1 DEF PageInv, PageTypes
<1>3. PICK s \in DeliveryRow : /\ rows' = [rows EXCEPT ![i] = s]
                               /\ s.user = r.user /\ s.allowed = r.allowed /\ s.open = r.open
                               /\ s.extra = r.extra
  <2>1. CASE rows[i].run = "in_progress"
    <3>1. rows' = [rows EXCEPT ![i] = [r EXCEPT !.run = "completed"]]
      BY <1>1, <1>2, <2>1
    <3>2. [r EXCEPT !.run = "completed"] \in DeliveryRow
      BY DEF DeliveryRow, Page!Runs
    <3> QED
      BY <3>1, <3>2 DEF DeliveryRow
  <2>2. CASE rows[i].run # "in_progress"
    <3> DEFINE s == [user |-> r.user, allowed |-> r.allowed, open |-> r.open, extra |-> r.extra,
                     used |-> r.used + 1, run |-> "in_progress"]
    <3>1. rows' = [rows EXCEPT ![i].run = "in_progress", ![i].used = @ + 1]
      BY <1>1, <2>2
    <3>2. r = [user |-> r.user, allowed |-> r.allowed, open |-> r.open, extra |-> r.extra,
               used |-> r.used, run |-> r.run]
      BY DEF DeliveryRow
    <3>3. rows' = [rows EXCEPT ![i] = s]
      <4>1. DOMAIN rows' = DOMAIN rows /\ \A k \in DOMAIN rows : k # i => rows'[k] = rows[k]
        BY <1>1, <3>1 DEF PageInv, PageTypes
      <4>2. rows'[i] = s
        BY <1>1, <1>2, <3>1, <3>2 DEF PageInv, PageTypes
      <4>3. rows' = [k \in DOMAIN rows |-> rows'[k]]
        BY <3>1, <4>1
      <4> QED
        BY <4>1, <4>2, <4>3
    <3>4. s \in DeliveryRow
      BY DEF DeliveryRow, Page!Runs
    <3> QED
      BY <3>3, <3>4
  <2> QED
    BY <2>1, <2>2
<1>4. rows \in Seq(DeliveryRow)
  BY DEF PageInv, PageTypes
<1>5. rows' \in Seq(DeliveryRow) /\ Len(rows') = Len(rows) /\ DOMAIN rows' = DOMAIN rows
  <2>1. DOMAIN rows' = DOMAIN rows /\ rows' = [k \in DOMAIN rows |-> rows'[k]]
    BY <1>3
  <2>2. \A k \in DOMAIN rows : rows'[k] \in DeliveryRow
    BY <1>1, <1>3, <1>4
  <2> QED
    BY <1>4, <2>1, <2>2, PlaceKept
<1>6. \A k \in DOMAIN rows : /\ rows'[k].user = rows[k].user
                             /\ rows'[k].allowed = rows[k].allowed
                             /\ rows'[k].open = rows[k].open /\ rows'[k].extra = rows[k].extra
  BY <1>1, <1>2, <1>3, <1>4
<1>7. Page!Listed' = Page!Listed
  BY <1>5, <1>6 DEF Page!Listed
<1>8. PageTypes'
  <2>1. tally' \in Tallies /\ Len(rows') <= MaxRows
    BY <1>1, <1>5 DEF PageInv, PageTypes, Tallies
  <2> QED
    BY <1>1, <1>5, <2>1 DEF PageInv, PageTypes, Tallies
<1>9. Handled'
  BY <1>1, <1>5, <1>7 DEF PageInv, Handled, Handling
<1>10. OneDialog' /\ Buttons' /\ InTouch'
  BY <1>1, <1>7 DEF PageInv, OneDialog, Buttons, InTouch
<1>11. Extras'
  <2>1. \A h \in handlers : h.op = "extend" => h.todo[1] \in DOMAIN rows
    BY DEF PageInv, Handled, Handling, Plain
  <2> QED
    BY <1>1, <1>5, <1>6, <2>1 DEF PageInv, Extras
<1>12. Altered'
  <2>1. SUFFICES ASSUME ~crossed' PROVE Altered'
    BY DEF Altered
  <2>2. Altered /\ ~crossed
    BY <1>1, <2>1 DEF PageInv
  <2>3. AsAsked'
    BY <1>1, <1>5, <1>6, <2>2 DEF Altered, AsAsked
  <2>4. ASSUME NEW h \in handlers PROVE Obeys(h)'
    <3>1. h.op = "retake" => \A k \in DOMAIN h.todo : h.todo[k] \in DOMAIN rows
      BY DEF PageInv, Handled, Handling
    <3> QED
      BY <1>1, <1>6, <2>2, <3>1 DEF Altered, Obeys
  <2>5. FormIsTrue'
    <3>1. edit # Page!NoEdit => edit.ids \subseteq DOMAIN rows
      BY DEF PageInv, PageTypes
    <3> QED
      BY <1>1, <1>6, <2>2, <3>1 DEF Altered, FormIsTrue
  <2> QED
    BY <1>1, <2>1, <2>2, <2>3, <2>4, <2>5 DEF Altered
<1>13. Counted'
  <2>1. \A x : Of(x)' = Of(x) /\ Given(x)' = Given(x)
    BY <1>1, <1>5, <1>6 DEF Of, Given
  <2> QED
    BY <1>1, <2>1 DEF PageInv, Counted
<1> QED
  BY <1>8, <1>9, <1>10, <1>11, <1>12, <1>13 DEF PageInv

-----------------------------------------------------------------------------
(* How handlers go on.                                                               *)

\* A handler goes on as another: the button that it has taken stays taken.
LEMMA ButtonsPassed ==
  ASSUME Buttons, NEW h \in handlers, NEW u, handlers' = (handlers \ {h}) \cup {u},
         \A k \in {"create", "edit", "retake", "extend"} : Busy(u, k) <=> Busy(h, k),
         h.op = "load" => u.op = "load",
         sheet'.creating <=> sheet.creating, saving' <=> saving,
         retake'.loading <=> retake.loading, extend'.loading <=> extend.loading,
         loading' => loading \/ u.op = "load"
  PROVE  Buttons'
<1>1. \A k \in {"create", "edit", "retake", "extend"} :
        /\ \A p, q \in handlers' : Busy(p, k) /\ Busy(q, k) => p = q
        /\ (\E q \in handlers' : Busy(q, k)) <=> \E q \in handlers : Busy(q, k)
  BY DEF Buttons
<1>2. loading' => \E q \in handlers' : q.op = "load"
  BY DEF Buttons
<1> QED
  BY <1>1, <1>2 DEF Buttons

\* A handler that ends without a list frees its button.
LEMMA ButtonsFreed ==
  ASSUME Buttons, NEW h \in handlers, Plain(h), ~Page!Lists(h), handlers' = handlers \ {h},
         sheet'.creating <=> sheet.creating /\ h.op # "create",
         saving' <=> saving /\ h.op # "edit",
         retake'.loading <=> retake.loading /\ h.op # "retake",
         extend'.loading <=> extend.loading /\ h.op # "extend",
         loading' <=> loading
  PROVE  Buttons'
<1>1. \A k \in {"create", "edit", "retake", "extend"} : Busy(h, k) <=> h.op = k
  BY DEF Busy, Plain
<1>2. \A k \in {"create", "edit", "retake", "extend"} :
        /\ \A p, q \in handlers' : Busy(p, k) /\ Busy(q, k) => p = q
        /\ (\E q \in handlers' : Busy(q, k)) <=>
             (\E q \in handlers : Busy(q, k)) /\ h.op # k
  BY <1>1 DEF Buttons
<1>3. loading' => \E q \in handlers' : q.op = "load"
  BY DEF Buttons, Page!Lists
<1> QED
  BY <1>2, <1>3 DEF Buttons

\* A handler is told that its request failed, or waits for the next one of its loop.
LEMMA WaitsAgain ==
  ASSUME PageInv, NEW h \in handlers, NEW u,
         handlers' = (handlers \ {h}) \cup {u}, Handling(u),
         u.op = h.op, u.from = h.from, u.arg = h.arg,
         UNCHANGED <<rows, assigned, wish, view, statuses, fetching, loading, sheet, edit,
                     saving, extend, retake, behind, crossed, failed>>,
         tally' \in Tallies, Remaining(h) \subseteq Remaining(u),
         u.answer = "error" \/ (Remaining(u) = Remaining(h) /\ h.answer = "ok"),
         u.answer = "none" => u.op \in {"create", "edit", "stop"},
         \A k \in DOMAIN u.todo : \E j \in DOMAIN h.todo : u.todo[k] = h.todo[j]
  PROVE  PageInv'
<1>1. PageTypes'
  BY DEF PageInv, PageTypes, Tallies
<1>2. Handled'
  BY DEF PageInv, Handled, Handling, Page!Listed
<1>3. OneDialog'
  BY DEF PageInv, OneDialog
<1>4. Buttons'
  <2>1. \A k \in {"create", "edit", "retake", "extend"} : Busy(u, k) <=> Busy(h, k)
    BY DEF Busy
  <2>2. Buttons /\ UNCHANGED <<sheet, saving, retake, extend, loading>>
    BY DEF PageInv
  <2> QED
    BY <2>1, <2>2, ButtonsPassed
<1>5. InTouch'
  BY DEF PageInv, InTouch, Page!Lists, Alters, Page!Listed
<1>6. Extras'
  BY DEF PageInv, Extras
<1>7. Altered'
  <2>1. SUFFICES ASSUME ~crossed' PROVE Altered'
    BY DEF Altered
  <2>2. Altered /\ ~crossed
    BY <2>1 DEF PageInv
  <2>3. \A g, q \in handlers' : Alters(g) /\ Alters(q) => g = q
    BY <2>2 DEF Altered, Alters
  <2>4. AsAsked'
    BY <2>2 DEF Altered, AsAsked
  <2>5. \A q \in handlers' : Obeys(q)'
    <3>1. Obeys(u)'
      BY <2>2 DEF Altered, Obeys
    <3>2. \A q \in handlers : Obeys(q)'
      BY <2>2 DEF Altered, Obeys
    <3> QED
      BY <3>1, <3>2
  <2>6. FormIsTrue'
    BY <2>2 DEF Altered, FormIsTrue, Page!Writes
  <2> QED
    BY <2>3, <2>4, <2>5, <2>6 DEF Altered
<1>8. Counted'
  <2>1. \A x : Of(x)' = Of(x) /\ Given(x)' = Given(x)
    BY DEF Of, Given
  <2>2. SUFFICES ASSUME ~failed, NEW x \in Employees
                 PROVE  /\ (\A q \in handlers' : q.op # "create") => Cardinality(Of(x)) = Given(x)
                        /\ \A q \in handlers' : q.op = "create" /\ q.answer # "error" =>
                             Cardinality(Of(x)) =
                               Given(x) + IF x \in q.arg.ids \ Remaining(q) THEN 1 ELSE 0
    BY <2>1 DEF Counted
  <2>3. /\ (\A q \in handlers : q.op # "create") => Cardinality(Of(x)) = Given(x)
        /\ \A q \in handlers : q.op = "create" /\ q.answer # "error" =>
             Cardinality(Of(x)) = Given(x) + IF x \in q.arg.ids \ Remaining(q) THEN 1 ELSE 0
    BY <2>2 DEF PageInv, Counted
  <2> QED
    BY <2>3
<1> QED
  BY <1>1, <1>2, <1>3, <1>4, <1>5, <1>6, <1>7, <1>8 DEF PageInv

LEMMA LoseKeeps ==
  ASSUME PageInv, NEW h \in handlers, Page!Lose(h) PROVE PageInv'
<1>1. /\ UNCHANGED <<rows, assigned, wish, view, statuses, fetching, loading, sheet, edit,
                     saving, extend, retake, behind, crossed, failed>>
      /\ tally' = [tally EXCEPT !.lost = @ + 1] /\ tally \in Tallies
  BY DEF PageInv, PageTypes, Tallies, Page!Lose, Page!pageVars
<1>2. PICK u : u = [h EXCEPT !.answer = "error"] /\ handlers' = (handlers \ {h}) \cup {u}
  BY DEF Page!Lose, Page!Others
<1>3. Handling(h) /\ Plain(h)
  BY DEF PageInv, Handled, Handling
<1>4. u = [id |-> h.id, op |-> h.op, todo |-> h.todo, arg |-> h.arg, from |-> h.from,
           answer |-> "error", view |-> h.view, mixed |-> h.mixed, got |-> h.got]
  BY <1>2, <1>3 DEF Plain
<1>5. Plain(u)
  BY <1>3, <1>4 DEF Plain, Page!Lists
<1>6. Handling(u)
  BY <1>3, <1>4, <1>5 DEF Handling, Page!Lists
<1>7. Remaining(h) \subseteq Remaining(u)
  BY <1>4 DEF Remaining
<1>8. /\ u.op = h.op /\ u.from = h.from /\ u.arg = h.arg /\ u.answer = "error"
      /\ \A k \in DOMAIN u.todo : \E j \in DOMAIN h.todo : u.todo[k] = h.todo[j]
  BY <1>4
<1>9. tally' \in Tallies
  BY <1>1 DEF Tallies
<1> QED
  BY <1>1, <1>2, <1>6, <1>7, <1>8, <1>9, WaitsAgain

LEMMA NextRequestKeeps ==
  ASSUME PageInv, NEW h \in handlers, Page!NextRequest(h) PROVE PageInv'
<1>1. /\ UNCHANGED <<rows, assigned, wish, view, statuses, fetching, loading, sheet, edit,
                     saving, extend, retake, behind, crossed, failed>>
      /\ tally' \in Tallies
      /\ h.op \in {"create", "edit", "stop"} /\ h.answer = "ok" /\ Len(h.todo) > 1
  BY DEF PageInv, PageTypes, Tallies, Page!NextRequest, Page!pageVars
<1>2. PICK u : /\ u = [h EXCEPT !.todo = Tail(@), !.answer = "none"]
               /\ handlers' = (handlers \ {h}) \cup {u}
  BY DEF Page!NextRequest, Page!Others
<1>3. Handling(h) /\ Plain(h) /\ h.todo \in Seq(Nat)
  BY DEF PageInv, Handled, Handling, Plain
<1>4. u = [id |-> h.id, op |-> h.op, todo |-> Tail(h.todo), arg |-> h.arg, from |-> h.from,
           answer |-> "none", view |-> h.view, mixed |-> h.mixed, got |-> h.got]
  BY <1>2, <1>3 DEF Plain
<1>5. /\ Tail(h.todo) \in Seq(Nat) /\ Tail(h.todo) # << >>
      /\ \A k \in DOMAIN Tail(h.todo) :
           k \in Nat /\ k + 1 \in DOMAIN h.todo /\ Tail(h.todo)[k] = h.todo[k + 1]
  <2>1. PICK n \in Nat : n = Len(h.todo) /\ n > 1 /\ DOMAIN h.todo = 1 .. n
    BY <1>1, <1>3
  <2>2. Tail(h.todo) = [k \in 1 .. n - 1 |-> h.todo[k + 1]]
    BY <1>3, <2>1
  <2>3. \A k \in 1 .. n - 1 : k \in Nat /\ k + 1 \in DOMAIN h.todo /\ h.todo[k + 1] \in Nat
    BY <1>3, <2>1
  <2>4. PICK t : t = [k \in 1 .. n - 1 |-> h.todo[k + 1]]
    OBVIOUS
  <2>5. t \in Seq(Nat) /\ Len(t) = n - 1 /\ DOMAIN t = 1 .. n - 1
    BY <2>1, <2>3, <2>4
  <2>6. t # << >> /\ Tail(h.todo) = t
    BY <2>1, <2>2, <2>4, <2>5
  <2> QED
    BY <2>3, <2>4, <2>5, <2>6
<1>6. Plain(u)
  BY <1>1, <1>3, <1>4, <1>5 DEF Plain, Page!Lists
<1>7. Handling(u)
  <2>1. u.op = h.op /\ u.todo = Tail(h.todo) /\ u.arg = h.arg /\ ~Page!Lists(u)
    BY <1>1, <1>4 DEF Page!Lists
  <2>2. ASSUME h.op = "create"
        PROVE  /\ h.arg.ids \subseteq Employees
               /\ \A k \in DOMAIN u.todo : u.todo[k] \in {0} \cup h.arg.ids
               /\ \A j, k \in DOMAIN u.todo : u.todo[j] = u.todo[k] => j = k
    <3>1. \A j, k \in DOMAIN h.todo : h.todo[j] = h.todo[k] => j = k
      BY <1>3, <2>2 DEF Handling
    <3>2. ASSUME NEW j \in DOMAIN u.todo, NEW k \in DOMAIN u.todo, u.todo[j] = u.todo[k]
          PROVE  j = k
      <4>1. j + 1 = k + 1
        BY <1>5, <2>1, <3>1, <3>2
      <4>2. j \in Nat /\ k \in Nat
        BY <1>5, <2>1, <3>2
      <4> QED
        BY <4>1, <4>2
    <3>3. /\ h.arg.ids \subseteq Employees
          /\ \A k \in DOMAIN h.todo : h.todo[k] \in {0} \cup h.arg.ids
      BY <1>3, <2>2 DEF Handling
    <3>4. \A k \in DOMAIN u.todo : u.todo[k] \in {0} \cup h.arg.ids
      BY <1>5, <2>1, <3>3
    <3> QED
      BY <3>2, <3>3, <3>4
  <2>3. h.op \in {"edit", "stop"} => \A k \in DOMAIN u.todo : u.todo[k] \in DOMAIN rows
    BY <1>3, <1>5, <2>1 DEF Handling
  <2> QED
    BY <1>1, <1>6, <2>1, <2>2, <2>3 DEF Handling
<1>8. Remaining(u) = Remaining(h)
  <2>1. Remaining(u) = {Tail(h.todo)[k] : k \in DOMAIN Tail(h.todo)}
    BY <1>4 DEF Remaining
  <2>2. Remaining(h) = {h.todo[k] : k \in {j \in DOMAIN h.todo : j > 1}}
    BY <1>1 DEF Remaining
  <2>3. ASSUME NEW j \in DOMAIN h.todo, j > 1
        PROVE  j - 1 \in DOMAIN Tail(h.todo) /\ Tail(h.todo)[j - 1] = h.todo[j]
    BY <1>1, <1>3, <2>3
  <2>4. Remaining(u) \subseteq Remaining(h)
    BY <1>5, <2>1, <2>2
  <2>5. Remaining(h) \subseteq Remaining(u)
    BY <2>1, <2>2, <2>3
  <2> QED
    BY <2>4, <2>5
<1>9. /\ u.op = h.op /\ u.from = h.from /\ u.arg = h.arg /\ u.answer = "none"
      /\ \A k \in DOMAIN u.todo : \E j \in DOMAIN h.todo : u.todo[k] = h.todo[j]
  BY <1>4, <1>5
<1> QED
  BY <1>1, <1>2, <1>7, <1>8, <1>9, WaitsAgain

\* The list that a handler loads at last.
LEMMA ReloadIs ==
  ASSUME NEW h, Plain(h), h.op \in {"create", "edit", "stop", "retake"},
         NEW u, u = Page!Reload(h) \/ u = Page!Load(h)
  PROVE  /\ Handling(u) /\ Page!Lists(u) /\ u.from = h.op /\ u.answer = "none"
         /\ u = Page!Load(h) => u.op = "load"
         /\ \A k \in {"create", "edit", "retake", "extend"} : Busy(u, k) <=> Busy(h, k)
<1>1. h = [id |-> h.id, op |-> h.op, todo |-> h.todo, arg |-> h.arg, from |-> h.from,
           answer |-> h.answer, view |-> h.view, mixed |-> h.mixed, got |-> h.got]
  BY DEF Plain
<1>2. Page!Reload(h) = [id |-> h.id, op |-> "reload", todo |-> <<0>>, arg |-> h.arg,
                        from |-> h.op, answer |-> "none", view |-> h.view, mixed |-> h.mixed,
                        got |-> h.got]
  <2>1. Page!Reload(h) = [h EXCEPT !.op = "reload", !.todo = <<0>>, !.answer = "none",
                                   !.from = h.op]
    BY DEF Page!Reload
  <2>2. PICK i, o, t, a, f, n, v, m, g :
           h = [id |-> i, op |-> o, todo |-> t, arg |-> a, from |-> f, answer |-> n,
                view |-> v, mixed |-> m, got |-> g]
    BY <1>1, Zenon
  <2>3. Page!Reload(h) = [id |-> i, op |-> "reload", todo |-> <<0>>, arg |-> a, from |-> o,
                          answer |-> "none", view |-> v, mixed |-> m, got |-> g]
    BY <2>1, <2>2
  <2> QED
    BY <2>2, <2>3
<1>3. Page!Load(h) = [id |-> h.id, op |-> "load", todo |-> <<0>>, arg |-> h.arg,
                      from |-> h.op, answer |-> "none", view |-> h.view, mixed |-> h.mixed,
                      got |-> h.got]
  BY <1>2 DEF Page!Load
<1>4. /\ u.op \in {"load", "reload"} /\ u.todo = <<0>> /\ u.arg = h.arg /\ u.from = h.op
      /\ u.answer = "none" /\ u.mixed = h.mixed /\ u.got = h.got
      /\ u = Page!Load(h) => u.op = "load"
      /\ u = [id |-> u.id, op |-> u.op, todo |-> u.todo, arg |-> u.arg, from |-> u.from,
              answer |-> u.answer, view |-> u.view, mixed |-> u.mixed, got |-> u.got]
  BY <1>2, <1>3
<1>5. Plain(u)
  <2>1. <<0>> \in Seq(Nat) /\ <<0>> # << >> /\ Len(<<0>>) = 1
    OBVIOUS
  <2> QED
    BY <1>4, <2>1 DEF Plain, Ops, Page!Lists
<1>6. Handling(u)
  BY <1>4, <1>5 DEF Handling
<1>7. ~Page!Lists(h) /\ h.from = "none"
  BY DEF Plain, Page!Lists
<1> QED
  BY <1>4, <1>6, <1>7 DEF Busy, Page!Lists

\* A handler ends, perhaps with a list to follow: unless it failed, what was asked for stays.
LEMMA Departs ==
  ASSUME PageInv, NEW h \in handlers, Page!Ends(h),
         h.op \in {"create", "edit", "stop", "extend", "retake"},
         UNCHANGED <<rows, wish>>, handlers \ {h} \subseteq handlers',
         \A q \in handlers' : q \in handlers \ {h} \/ (Handling(q) /\ Page!Lists(q)),
         ~crossed' => /\ ~crossed /\ (h.op \in {"create", "extend"} \/ h.answer = "ok")
                      /\ edit' = Page!NoEdit \/ (edit' = edit /\ h.op # "edit")
  PROVE  Handled' /\ Extras' /\ Altered'
<1>1. Handled'
  BY DEF PageInv, Handled, Handling, Page!Listed
<1>2. Extras'
  BY DEF PageInv, Extras, Page!Lists
<1>3. Altered'
  <2>1. SUFFICES ASSUME ~crossed' PROVE Altered'
    BY DEF Altered
  <2>2. /\ ~crossed /\ AsAsked /\ FormIsTrue /\ \A g \in handlers : Obeys(g)
        /\ \A g, q \in handlers : Alters(g) /\ Alters(q) => g = q
    BY <2>1 DEF PageInv, Altered
  <2>3. \A q \in handlers' : Page!Writes(q) => q \in handlers \ {h}
    BY DEF Page!Writes, Page!Lists
  <2>4. \A g, q \in handlers' : Alters(g) /\ Alters(q) => g = q
    BY <2>2, <2>3 DEF Alters, Page!Writes
  <2>5. Alters(h) => Remaining(h) = {}
    <3>1. SUFFICES ASSUME Alters(h) PROVE Remaining(h) = {}
      OBVIOUS
    <3>2. h.answer = "ok" /\ Len(h.todo) = 1
      BY <2>1, <3>1 DEF Alters, Page!Ends
    <3>3. h.todo \in Seq(Nat)
      BY DEF PageInv, Handled, Handling, Plain
    <3>4. \A j \in DOMAIN h.todo : j = 1
      BY <3>2, <3>3
    <3> QED
      BY <3>2, <3>4 DEF Remaining
  <2>6. AsAsked'
    <3>1. \A g \in handlers : \A k : Alters(g) /\ k \in Remaining(g) => g \in handlers'
      BY <2>5
    <3> QED
      BY <2>2, <3>1 DEF AsAsked, Alters
  <2>7. ASSUME NEW q \in handlers' PROVE Obeys(q)'
    <3>1. CASE Page!Writes(q)
      BY <2>2, <2>3, <3>1 DEF Obeys
    <3>2. CASE ~Page!Writes(q)
      BY <3>2 DEF Obeys, Page!Writes
    <3> QED
      BY <3>1, <3>2
  <2>8. FormIsTrue'
    BY <2>1, <2>2, <2>3 DEF FormIsTrue
  <2> QED
    BY <2>4, <2>6, <2>7, <2>8 DEF Altered
<1> QED
  BY <1>1, <1>2, <1>3

\* The deliveries of each employee stay, when it is no creation that ends.
LEMMA NoneCreated ==
  ASSUME PageInv, NEW h \in handlers, h.op # "create", UNCHANGED <<rows, assigned, failed>>,
         handlers \ {h} \subseteq handlers',
         \A q \in handlers' : q \in handlers \ {h} \/ Page!Lists(q)
  PROVE  Counted'
<1>1. \A x : Of(x)' = Of(x) /\ Given(x)' = Given(x)
  BY DEF Of, Given
<1>2. \A q : q.op = "create" => (q \in handlers <=> q \in handlers')
  BY DEF Page!Lists
<1>3. SUFFICES ASSUME ~failed, NEW x \in Employees
               PROVE  /\ (\A q \in handlers' : q.op # "create") => Cardinality(Of(x)) = Given(x)
                      /\ \A q \in handlers' : q.op = "create" /\ q.answer # "error" =>
                           Cardinality(Of(x)) =
                             Given(x) + IF x \in q.arg.ids \ Remaining(q) THEN 1 ELSE 0
  BY <1>1 DEF Counted
<1>4. /\ (\A q \in handlers : q.op # "create") => Cardinality(Of(x)) = Given(x)
      /\ \A q \in handlers : q.op = "create" /\ q.answer # "error" =>
           Cardinality(Of(x)) = Given(x) + IF x \in q.arg.ids \ Remaining(q) THEN 1 ELSE 0
  BY <1>3 DEF PageInv, Counted
<1> QED
  BY <1>2, <1>4

LEMMA CreateEndsKeeps ==
  ASSUME Page!DeliveriesAssumption, PageInv, NEW h \in handlers, h.op = "create", Page!Ends(h),
         Page!CreateEnds(h)
  PROVE  PageInv'
<1>1. UNCHANGED <<rows, wish, view, statuses, fetching, edit, saving, extend, retake, tally>>
  BY DEF Page!CreateEnds
<1>2. Handling(h) /\ Plain(h) /\ ~Page!Lists(h) /\ h.todo \in Seq(Nat)
  BY DEF PageInv, Handled, Handling, Plain, Page!Lists
<1>3. \A g \in handlers : g.op = "create" => g = h
  BY DEF PageInv, Buttons, Busy
<1>4. sheet \in [open : BOOLEAN, creating : BOOLEAN, users : SUBSET Employees]
  BY DEF PageInv, PageTypes
<1>5. CASE h.answer = "ok"
  <2>1. /\ sheet' = [sheet EXCEPT !.open = FALSE, !.users = {}] /\ loading' = TRUE
        /\ handlers' = (handlers \ {h}) \cup {Page!Load(h)}
        /\ assigned' = [x \in Employees |-> assigned[x] + IF x \in h.arg.ids THEN 1 ELSE 0]
        /\ UNCHANGED <<behind, crossed, failed>>
    BY <1>5 DEF Page!CreateEnds, Page!Others
  <2>2. PICK u : u = Page!Load(h)
    OBVIOUS
  <2>3. /\ Handling(u) /\ Page!Lists(u) /\ u.op = "load"
        /\ \A k \in {"create", "edit", "retake", "extend"} : Busy(u, k) <=> Busy(h, k)
    BY <1>2, <2>2, ReloadIs
  <2>4. handlers' = (handlers \ {h}) \cup {u}
    BY <2>1, <2>2
  <2>5. /\ sheet' \in [open : BOOLEAN, creating : BOOLEAN, users : SUBSET Employees]
        /\ sheet'.open = FALSE /\ sheet'.creating = sheet.creating
    <3>1. sheet' = [open |-> FALSE, creating |-> sheet.creating, users |-> {}]
      BY <1>4, <2>1
    <3> QED
      BY <1>4, <3>1
  <2>6. assigned' \in [Employees -> Nat]
    BY <2>1 DEF PageInv, PageTypes
  <2>7. PageTypes'
    <3>1. UNCHANGED <<behind, crossed, failed>> /\ loading' \in BOOLEAN
      BY <2>1
    <3> QED
      BY <1>1, <2>5, <2>6, <3>1 DEF PageInv, PageTypes
  <2>8. OneDialog'
    BY <1>1, <2>5 DEF PageInv, OneDialog
  <2>9. Buttons'
    BY <1>1, <2>1, <2>3, <2>4, <2>5, ButtonsPassed DEF PageInv
  <2>10. InTouch'
    BY <2>3, <2>4 DEF InTouch
  <2>11. Handled' /\ Extras' /\ Altered'
    BY <1>1, <2>1, <2>3, <2>4, Departs DEF PageInv, Altered, FormIsTrue
  <2>12. Counted'
    <3>1. Remaining(h) = {}
      <4>1. Len(h.todo) = 1
        BY <1>5 DEF Page!Ends
      <4>2. \A j \in DOMAIN h.todo : j = 1
        BY <1>2, <4>1
      <4> QED
        BY <1>5, <4>2 DEF Remaining
    <3>2. \A q \in handlers' : q.op # "create"
      BY <1>3, <2>3, <2>4
    <3>3. ASSUME ~failed, NEW x \in Employees PROVE Cardinality(Of(x)') = Given(x)'
      <4>1. Of(x)' = Of(x)
        BY <1>1 DEF Of
      <4>2. Cardinality(Of(x)) = Given(x) + IF x \in h.arg.ids THEN 1 ELSE 0
        BY <1>5, <3>1, <3>3 DEF PageInv, Counted
      <4>3. assigned[x] \in Nat /\ assigned'[x] = assigned[x] + IF x \in h.arg.ids THEN 1 ELSE 0
        BY <2>1, <3>3 DEF PageInv, PageTypes
      <4> QED
        BY <4>1, <4>2, <4>3 DEF Given
    <3> QED
      BY <2>1, <3>2, <3>3 DEF Counted
  <2> QED
    BY <2>7, <2>8, <2>9, <2>10, <2>11, <2>12 DEF PageInv
<1>6. CASE h.answer # "ok"
  <2>1. /\ sheet' = [sheet EXCEPT !.creating = FALSE] /\ handlers' = handlers \ {h}
        /\ behind' = TRUE /\ crossed' = TRUE /\ failed' = TRUE
        /\ UNCHANGED <<loading, assigned>>
    BY <1>6 DEF Page!CreateEnds, Page!Others
  <2>2. /\ sheet' \in [open : BOOLEAN, creating : BOOLEAN, users : SUBSET Employees]
        /\ sheet'.open = sheet.open /\ sheet'.creating = FALSE
    BY <1>4, <2>1
  <2>3. PageTypes'
    BY <1>1, <2>1, <2>2 DEF PageInv, PageTypes
  <2>4. OneDialog'
    BY <1>1, <2>2 DEF PageInv, OneDialog
  <2>5. Buttons'
    BY <1>1, <1>2, <2>1, <2>2, ButtonsFreed DEF PageInv
  <2>6. InTouch' /\ Counted'
    BY <2>1 DEF InTouch, Counted
  <2>7. Handled' /\ Extras' /\ Altered'
    BY <1>1, <2>1, Departs
  <2> QED
    BY <2>3, <2>4, <2>5, <2>6, <2>7 DEF PageInv
<1> QED
  BY <1>5, <1>6

LEMMA EditEndsKeeps ==
  ASSUME PageInv, NEW h \in handlers, h.op = "edit", Page!Ends(h), Page!EditEnds(h)
  PROVE  PageInv'
<1>1. UNCHANGED <<rows, assigned, wish, view, statuses, fetching, loading, sheet, extend, retake,
                  tally, failed>>
  BY DEF Page!EditEnds
<1>2. Handling(h) /\ Plain(h) /\ ~Page!Lists(h)
  BY DEF PageInv, Handled, Handling, Page!Lists
<1>3. CASE h.answer = "ok"
  <2>1. /\ edit' = Page!NoEdit /\ handlers' = (handlers \ {h}) \cup {Page!Reload(h)}
        /\ UNCHANGED <<saving, behind, crossed>>
    BY <1>3 DEF Page!EditEnds, Page!Others
  <2>2. PICK u : u = Page!Reload(h)
    OBVIOUS
  <2>3. /\ Handling(u) /\ Page!Lists(u)
        /\ \A k \in {"create", "edit", "retake", "extend"} : Busy(u, k) <=> Busy(h, k)
    BY <1>2, <2>2, ReloadIs
  <2>4. handlers' = (handlers \ {h}) \cup {u}
    BY <2>1, <2>2
  <2>5. edit' \in Form /\ edit' = Page!NoEdit
    BY <2>1 DEF Page!NoEdit, Page!Untouched, Form
  <2>6. PageTypes'
    BY <1>1, <2>1, <2>5 DEF PageInv, PageTypes
  <2>7. OneDialog'
    BY <1>1, <2>5 DEF PageInv, OneDialog
  <2>8. Buttons'
    BY <1>1, <2>1, <2>3, <2>4, ButtonsPassed DEF PageInv
  <2>9. InTouch'
    BY <2>3, <2>4 DEF InTouch
  <2>10. Handled' /\ Extras' /\ Altered'
    BY <1>1, <1>3, <2>1, <2>3, <2>4, Departs
  <2>11. Counted'
    BY <1>1, <2>3, <2>4, NoneCreated
  <2> QED
    BY <2>6, <2>7, <2>8, <2>9, <2>10, <2>11 DEF PageInv
<1>4. CASE h.answer # "ok"
  <2>1. /\ saving' = FALSE /\ behind' = TRUE /\ crossed' = TRUE /\ UNCHANGED edit
        /\ handlers' = handlers \ {h}
    BY <1>4 DEF Page!EditEnds, Page!Others
  <2>2. PageTypes'
    BY <1>1, <2>1 DEF PageInv, PageTypes
  <2>3. OneDialog'
    BY <1>1, <2>1 DEF PageInv, OneDialog
  <2>4. Buttons'
    BY <1>1, <1>2, <2>1, ButtonsFreed DEF PageInv
  <2>5. InTouch'
    BY <2>1 DEF InTouch
  <2>6. Handled' /\ Extras' /\ Altered'
    BY <1>1, <2>1, Departs
  <2>7. Counted'
    BY <1>1, <2>1, NoneCreated
  <2> QED
    BY <2>2, <2>3, <2>4, <2>5, <2>6, <2>7 DEF PageInv
<1> QED
  BY <1>3, <1>4

LEMMA StopEndsKeeps ==
  ASSUME PageInv, NEW h \in handlers, h.op = "stop", Page!Ends(h), Page!StopEnds(h)
  PROVE  PageInv'
<1>1. /\ UNCHANGED <<rows, assigned, wish, view, statuses, fetching, loading, sheet, edit, saving,
                     extend, retake, tally, behind, failed>>
      /\ handlers' = (handlers \ {h}) \cup {Page!Reload(h)}
      /\ crossed' = (crossed \/ h.answer = "error")
  BY DEF Page!StopEnds, Page!Others, Page!pageVars
<1>2. Plain(h)
  BY DEF PageInv, Handled, Handling
<1>3. PICK u : u = Page!Reload(h)
  OBVIOUS
<1>4. /\ Handling(u) /\ Page!Lists(u)
      /\ \A k \in {"create", "edit", "retake", "extend"} : Busy(u, k) <=> Busy(h, k)
  BY <1>2, <1>3, ReloadIs
<1>5. handlers' = (handlers \ {h}) \cup {u}
  BY <1>1, <1>3
<1>6. PageTypes'
  <2>1. crossed' \in BOOLEAN
    BY <1>1
  <2> QED
    BY <1>1, <2>1 DEF PageInv, PageTypes
<1>7. OneDialog'
  BY <1>1 DEF PageInv, OneDialog
<1>8. Buttons'
  BY <1>1, <1>4, <1>5, ButtonsPassed DEF PageInv
<1>9. InTouch'
  BY <1>4, <1>5 DEF InTouch
<1>10. Handled' /\ Extras' /\ Altered'
  <2>1. ~crossed' => ~crossed /\ h.answer = "ok"
    BY <1>1 DEF Page!Ends
  <2> QED
    BY <1>1, <1>4, <1>5, <2>1, Departs
<1>11. Counted'
  BY <1>1, <1>4, <1>5, NoneCreated
<1> QED
  BY <1>6, <1>7, <1>8, <1>9, <1>10, <1>11 DEF PageInv

LEMMA ExtendEndsKeeps ==
  ASSUME PageInv, NEW h \in handlers, h.op = "extend", Page!Ends(h), Page!ExtendEnds(h)
  PROVE  PageInv'
<1>1. /\ UNCHANGED <<rows, assigned, wish, view, statuses, fetching, loading, sheet, edit, saving,
                     retake, tally, behind, crossed, failed>>
      /\ extend' = [extend EXCEPT !.loading = FALSE, !.result = Head(h.todo)]
      /\ handlers' = handlers \ {h}
  BY DEF Page!ExtendEnds, Page!Others
<1>2. Plain(h) /\ ~Page!Lists(h) /\ h.todo \in Seq(Nat) /\ h.todo # << >>
  BY DEF PageInv, Handled, Handling, Plain, Page!Lists
<1>3. extend \in [target : {0} \cup DOMAIN rows, loading : BOOLEAN, result : Nat]
  BY DEF PageInv, PageTypes
<1>4. /\ extend' \in [target : {0} \cup DOMAIN rows, loading : BOOLEAN, result : Nat]
      /\ extend'.target = extend.target /\ extend'.loading = FALSE
  <2>1. extend' = [target |-> extend.target, loading |-> FALSE, result |-> Head(h.todo)]
    BY <1>1, <1>3
  <2>2. Head(h.todo) \in Nat
    BY <1>2
  <2> QED
    BY <1>3, <2>1, <2>2
<1>5. PageTypes'
  BY <1>1, <1>4 DEF PageInv, PageTypes
<1>6. OneDialog'
  BY <1>1, <1>4 DEF PageInv, OneDialog
<1>7. Buttons'
  BY <1>1, <1>2, <1>4, ButtonsFreed DEF PageInv
<1>8. InTouch'
  BY <1>1 DEF PageInv, InTouch, Page!Lists, Alters, Page!Listed
<1>9. Handled' /\ Extras' /\ Altered'
  BY <1>1, Departs
<1>10. Counted'
  BY <1>1, NoneCreated
<1> QED
  BY <1>5, <1>6, <1>7, <1>8, <1>9, <1>10 DEF PageInv

LEMMA RetakeEndsKeeps ==
  ASSUME PageInv, NEW h \in handlers, h.op = "retake", Page!Ends(h), Page!RetakeEnds(h)
  PROVE  PageInv'
<1>1. UNCHANGED <<rows, assigned, wish, view, statuses, fetching, loading, sheet, edit, saving,
                  extend, tally, failed>>
  BY DEF Page!RetakeEnds
<1>2. Handling(h) /\ Plain(h) /\ ~Page!Lists(h)
  BY DEF PageInv, Handled, Handling, Page!Lists
<1>3. retake \in [target : {0} \cup DOMAIN rows, loading : BOOLEAN]
  BY DEF PageInv, PageTypes
<1>4. CASE h.answer = "ok"
  <2>1. /\ retake' = [retake EXCEPT !.target = 0]
        /\ handlers' = (handlers \ {h}) \cup {Page!Reload(h)}
        /\ UNCHANGED <<behind, crossed>>
    BY <1>4 DEF Page!RetakeEnds, Page!Others
  <2>2. PICK u : u = Page!Reload(h)
    OBVIOUS
  <2>3. /\ Handling(u) /\ Page!Lists(u)
        /\ \A k \in {"create", "edit", "retake", "extend"} : Busy(u, k) <=> Busy(h, k)
    BY <1>2, <2>2, ReloadIs
  <2>4. handlers' = (handlers \ {h}) \cup {u}
    BY <2>1, <2>2
  <2>5. /\ retake' \in [target : {0} \cup DOMAIN rows, loading : BOOLEAN]
        /\ retake'.target = 0 /\ retake'.loading = retake.loading
    BY <1>3, <2>1
  <2>6. PageTypes'
    BY <1>1, <2>1, <2>5 DEF PageInv, PageTypes
  <2>7. OneDialog'
    BY <1>1, <2>5 DEF PageInv, OneDialog
  <2>8. Buttons'
    BY <1>1, <2>3, <2>4, <2>5, ButtonsPassed DEF PageInv
  <2>9. InTouch'
    BY <2>3, <2>4 DEF InTouch
  <2>10. Handled' /\ Extras' /\ Altered'
    BY <1>1, <1>4, <2>1, <2>3, <2>4, Departs
  <2>11. Counted'
    BY <1>1, <2>3, <2>4, NoneCreated
  <2> QED
    BY <2>6, <2>7, <2>8, <2>9, <2>10, <2>11 DEF PageInv
<1>5. CASE h.answer # "ok"
  <2>1. /\ retake' = [retake EXCEPT !.loading = FALSE] /\ handlers' = handlers \ {h}
        /\ behind' = TRUE /\ crossed' = TRUE
    BY <1>5 DEF Page!RetakeEnds, Page!Others
  <2>2. /\ retake' \in [target : {0} \cup DOMAIN rows, loading : BOOLEAN]
        /\ retake'.target = retake.target /\ retake'.loading = FALSE
    BY <1>3, <2>1
  <2>3. PageTypes'
    BY <1>1, <2>1, <2>2 DEF PageInv, PageTypes
  <2>4. OneDialog'
    BY <1>1, <2>2 DEF PageInv, OneDialog
  <2>5. Buttons'
    BY <1>1, <1>2, <2>1, <2>2, ButtonsFreed DEF PageInv
  <2>6. InTouch'
    BY <2>1 DEF InTouch
  <2>7. Handled' /\ Extras' /\ Altered'
    BY <1>1, <2>1, Departs
  <2>8. Counted'
    BY <1>1, <2>1, NoneCreated
  <2> QED
    BY <2>3, <2>4, <2>5, <2>6, <2>7, <2>8 DEF PageInv
<1> QED
  BY <1>4, <1>5

-----------------------------------------------------------------------------
LEMMA AnswerKeeps ==
  ASSUME Page!DeliveriesAssumption, PageInv, NEW h \in handlers, Page!Answered(h) PROVE PageInv'
<1>0. MaxRows \in Nat
  BY PageConstants
<1>1. CASE Page!ListAnswered(h)
  BY <1>0, <1>1, ListAnsweredKeeps DEF Page!Answered
<1>2. CASE Page!NextRequest(h)
  BY <1>2, NextRequestKeeps
<1>3. CASE Page!Ends(h) /\ h.op = "create" /\ Page!CreateEnds(h)
  BY <1>3, CreateEndsKeeps
<1>4. CASE Page!Ends(h) /\ h.op = "edit" /\ Page!EditEnds(h)
  BY <1>4, EditEndsKeeps
<1>5. CASE Page!Ends(h) /\ h.op = "stop" /\ Page!StopEnds(h)
  BY <1>5, StopEndsKeeps
<1>6. CASE Page!Ends(h) /\ h.op = "extend" /\ Page!ExtendEnds(h)
  BY <1>6, ExtendEndsKeeps
<1>7. CASE Page!Ends(h) /\ h.op = "retake" /\ Page!RetakeEnds(h)
  BY <1>7, RetakeEndsKeeps
<1> QED
  BY <1>1, <1>2, <1>3, <1>4, <1>5, <1>6, <1>7 DEF Page!Answered

LEMMA PageStep ==
  ASSUME Page!DeliveriesAssumption, PageInv, [Page!Next]_Page!deliveryVars PROVE PageInv'
<1>0. MaxRows \in Nat
  BY PageConstants
<1>1. ASSUME NEW h \in handlers,
             Page!Serve(h) \/ Page!ServeStatus(h) \/ Page!Lose(h) \/ Page!Answered(h)
                           \/ Page!StatusesAnswered(h)
      PROVE  PageInv'
  BY <1>1, ServeKeeps, ServeStatusKeeps, LoseKeeps, AnswerKeeps, StatusesAnsweredKeeps
<1>2. ASSUME NEW i \in Page!Ids, Page!Attempt(i) PROVE PageInv'
  BY <1>0, <1>2, AttemptKeeps
<1>3. CASE Page!Renew
  BY <1>3, RenewKeeps
<1>4. CASE Page!Dialogs
  <2>1. CASE Page!OpenSheet \/ Page!CloseSheet \/ \E u \in Employees : Page!Pick(u)
    BY <2>1, OpenSheetKeeps
  <2>2. CASE Page!ClickCreate
    BY <2>2, ClickCreateKeeps
  <2>3. ASSUME NEW g \in Page!Groups, Page!OpenEdit(g) \/ Page!Stop(g) \/ Page!Expand(g)
        PROVE  PageInv'
    BY <1>0, <2>3, OpenEditKeeps, StopKeeps, ExpandKeeps
  <2>4. ASSUME NEW field \in {"open", "allowed"}, Page!EditForm(field) PROVE PageInv'
    BY <2>4, EditFormKeeps
  <2>5. CASE Page!CancelEdit \/ Page!SaveEdit
    BY <1>0, <2>5, CancelEditKeeps, SaveEditKeeps
  <2>6. CASE \/ \E i \in Page!Ids : Page!OpenExtend(i) \/ Page!OpenRetake(i)
             \/ Page!CloseExtend \/ Page!CancelRetake
    BY <2>6, DialogKeeps
  <2>7. CASE Page!ClickExtend \/ Page!ClickRetake
    BY <1>0, <2>7, ClickExtendKeeps, ClickRetakeKeeps
  <2> QED
    BY <1>4, <2>1, <2>2, <2>3, <2>4, <2>5, <2>6, <2>7 DEF Page!Dialogs
<1>5. CASE UNCHANGED Page!deliveryVars
  <2>1. /\ UNCHANGED <<rows, assigned, wish, view, statuses, fetching, loading, sheet, edit,
                       saving, extend, retake, handlers, tally, behind, crossed, failed>>
    BY <1>5 DEF Page!deliveryVars, Page!pageVars
  <2>2. PageTypes' /\ OneDialog'
    BY <2>1 DEF PageInv, PageTypes, OneDialog
  <2>3. FormIsTrue => FormIsTrue'
    BY <2>1 DEF FormIsTrue
  <2>4. Altered'
    BY <2>1, <2>3, StillAltered DEF PageInv, Altered
  <2>5. Handled' /\ Buttons' /\ InTouch' /\ Extras' /\ Counted'
    BY <2>1, Undisturbed
  <2> QED
    BY <2>2, <2>4, <2>5 DEF PageInv
<1> QED
  BY <1>1, <1>2, <1>3, <1>4, <1>5 DEF Page!Next

\* The page of deliveries, whatever is assigned, changed, stopped, prolonged and retaken, and
\* whatever is lost, satisfies all of this.
THEOREM DeliveriesAlwaysCoherent ==
  ASSUME Page!DeliveriesAssumption PROVE Page!Spec => []PageInv
<1>1. Page!Init => PageInv
  BY PageStart
<1>2. PageInv /\ [Page!Next]_Page!deliveryVars => PageInv'
  BY PageStep
<1> QED
  BY <1>1, <1>2, PTL DEF Page!Spec

\* Every variable keeps to its domain, and createDeliveries gives each employee of a sheet
\* one delivery, in whatever order they were picked, unless a creation failed: the button
\* waits for the list that follows, so that no sheet is done twice.
THEOREM AlwaysAssignedOnce ==
  ASSUME Page!DeliveriesAssumption PROVE Page!Spec => [](Page!TypeOK /\ Page!AssignedOnce)
<1>0. MaxRows \in Nat /\ Participants = Employees \cup {0}
  BY PageConstants DEF Participants
<1>1. PageInv => Page!TypeOK
  <2> SUFFICES ASSUME PageInv PROVE Page!TypeOK
    OBVIOUS
  <2>1. PageTypes /\ rows \in Seq(DeliveryRow)
    BY DEF PageInv, PageTypes
  <2>2. DOMAIN rows \subseteq Page!Ids /\ \A i \in DOMAIN rows : rows[i] \in DeliveryRow
    BY <1>0, <2>1, RowsAre
  <2>3. edit.ids \subseteq Page!Ids
    <3>1. CASE edit = Page!NoEdit
      BY <3>1 DEF Page!NoEdit, Page!Untouched
    <3>2. CASE edit # Page!NoEdit
      BY <2>1, <2>2, <3>2 DEF PageTypes
    <3> QED
      BY <3>1, <3>2
  <2>4. sheet.users \subseteq Employees
    BY <2>1 DEF PageTypes
  <2>5. {loading, saving, behind, crossed, failed} \subseteq BOOLEAN
    BY <2>1 DEF PageTypes
  <2> QED
    BY <1>0, <2>1, <2>2, <2>3, <2>4, <2>5
    DEF Page!TypeOK, PageTypes, DeliveryRow, Entry, Outcome
<1>2. PageInv => Page!AssignedOnce
  <2>1. \A S : Page!Cardinality(S) = Cardinality(S)
    BY DEF Page!Cardinality, Cardinality
  <2> QED
    BY <2>1 DEF PageInv, Counted, Of, Given, Page!AssignedOnce
<1> QED
  BY <1>1, <1>2, DeliveriesAlwaysCoherent, PTL

\* saveEdit, stopGroup and grantRetake leave every delivery of a group as was asked for last,
\* and extendTime grants each wish at most once, unless handlers crossed or failed.
THEOREM AlwaysAsAsked ==
  ASSUME Page!DeliveriesAssumption PROVE Page!Spec => []Page!DoneAsAsked
<1>1. PageInv => Page!DoneAsAsked
  <2> SUFFICES ASSUME PageInv, ~crossed, ~\E h \in handlers : Page!Writes(h),
                      NEW i \in DOMAIN rows
               PROVE  /\ rows[i].allowed = wish[i].allowed /\ rows[i].open = wish[i].open
                      /\ rows[i].extra <= wish[i].extra
    BY DEF Page!DoneAsAsked
  <2>1. MaxRows \in Nat
    BY PageConstants
  <2>2. rows[i].allowed = wish[i].allowed /\ (rows[i].open <=> wish[i].open)
    BY DEF PageInv, Altered, AsAsked, Page!Writes
  <2>3. rows[i].open \in BOOLEAN /\ i \in Page!Ids
    BY <2>1, RowsAre DEF PageInv
  <2>4. wish[i].open \in BOOLEAN
    BY <2>3 DEF PageInv, PageTypes, Wished
  <2>5. rows[i].open = wish[i].open
    BY <2>2, <2>3, <2>4
  <2>6. rows[i].extra <= wish[i].extra
    BY DEF PageInv, Extras
  <2> QED
    BY <2>2, <2>5, <2>6
<1> QED
  BY <1>1, DeliveriesAlwaysCoherent, PTL

\* When nothing is under way the page lists the deliveries as they are and every button can be
\* pressed, unless a list came late or a change failed: each handler ends in a list that frees
\* its button, and a list that is read before a write has one to follow it.
THEOREM PageAlwaysCurrent ==
  ASSUME Page!DeliveriesAssumption PROVE Page!Spec => []Page!QuietPageIsCurrent
<1>1. PageInv => Page!QuietPageIsCurrent
  <2> SUFFICES ASSUME PageInv, handlers = {}
               PROVE  /\ ~loading /\ ~sheet.creating /\ ~saving /\ ~extend.loading
                      /\ ~retake.loading
                      /\ ~behind => view = Page!Listed
    BY DEF Page!QuietPageIsCurrent
  <2>1. ~loading /\ ~sheet.creating /\ ~saving /\ ~extend.loading /\ ~retake.loading
    BY DEF PageInv, Buttons
  <2>2. ~behind => view = Page!Listed
    BY DEF PageInv, InTouch
  <2> QED
    BY <2>1, <2>2
<1> QED
  BY <1>1, DeliveriesAlwaysCoherent, PTL

=============================================================================

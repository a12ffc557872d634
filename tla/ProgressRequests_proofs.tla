----------------------- MODULE ProgressRequests_proofs -----------------------
(***************************************************************************)
(* Proofs about ProgressRequests, for every set of track shapes, any       *)
(* number of tasks and of requests that overlap, and every bound: a commit *)
(* that nobody disturbed leaves a consistent assignment, overlapping       *)
(* submissions pass the limit of a quiz by less than their number, and one *)
(* request at a time implements AssignmentProgress.  The second part is    *)
(* about an instance of DeploymentRuns, whose requests overlap likewise.   *)
(***************************************************************************)
EXTENDS ProgressRequests, AssignmentRows_proofs, WellFoundedInduction

\* What a request is asked for, by its kind.
Fits(o) ==
  /\ o.task \in Tasks
  /\ \/ o.kind \in {"submit", "score"} /\ o.passed \in BOOLEAN
     \/ o.kind = "tick" /\ o.item \in Items /\ o.checked \in BOOLEAN
     \/ o.kind = "review" /\ o.decision \in Decisions

\* The rows of the database.
Kept ==
  /\ rows \in [Tasks -> TaskRow]
  /\ status \in AssignmentStatuses /\ percent \in Nat
  /\ \A p \in Phases : phases[p].status \in PhaseStatuses /\ phases[p].percent \in Nat
  /\ lastSub \in [Tasks -> SubmissionStatuses]
  /\ attempts \in [Tasks -> Nat]
  /\ saved \in [Tasks -> BOOLEAN] /\ checks \in [Tasks -> SUBSET Items]

\* The requests: what one has loaded are rows.
Slots ==
  /\ DOMAIN op = Requests /\ DOMAIN stage = Requests
  /\ DOMAIN snap = Requests /\ DOMAIN older = Requests
  /\ \A r \in Requests :
       /\ stage[r] \in {"idle", "begun", "loaded", "prepared"}
       /\ (stage[r] = "idle") <=> (op[r] = NoOp)
       /\ older[r] \subseteq {q \in Requests : stage[q] # "idle"}
       /\ stage[r] = "idle" => snap[r] = NoOp
       /\ stage[r] # "idle" => Fits(op[r])
       /\ stage[r] = "begun" => snap[r] = NoOp \/ snap[r].row \in TaskRow
       /\ stage[r] \in {"loaded", "prepared"} => /\ snap[r].rows \in [Tasks -> TaskRow]
                                                 /\ snap[r].checks \in [Tasks -> SUBSET Items]

\* The requests that have found an attempt left at the quiz t.
Taking(t) == {r \in Requests : stage[r] = "prepared" /\ IsQuiz(r) /\ op[r].task = t}

\* With those the attempts of a quiz stay within the bound: the last of them to be let in
\* found one left.
Within(t) ==
  attempts[t] + Cardinality(Taking(t)) # 0 =>
    attempts[t] + Cardinality(Taking(t)) < AttemptLimit(t) + Cardinality(Requests)

Admitted == \A t \in Tasks : trk.type[t] = "quiz" => Within(t)

IInv == trk \in Tracks /\ Kept /\ Slots /\ Admitted

-----------------------------------------------------------------------------
(* Sums.  Induction over the size of a set is the choice of a least counterexample. *)

\* The element that a sum takes next, and the sums of f over the subsets of S.
Pick(s) == CHOOSE x \in s : TRUE

SumsOf(f, S) == CHOOSE it : it = [s \in SUBSET S |->
                  IF s = {} THEN 0 ELSE f[Pick(s)] + it[s \ {Pick(s)}]]

\* The library sums a function over a set in the same order.
LEMMA SumIs ==
  ASSUME NEW f, NEW S
  PROVE  SumFunctionOnSet(f, S) = SumsOf(f, S)[S]
BY DEF SumFunctionOnSet, FoldFunctionOnSet, MapThenFoldSet, SumsOf, Pick

\* Every non-empty set of natural numbers has a least element: the induction over the size
\* of a set, as a set of sizes.
LEMMA Induction ==
  ASSUME NEW T, 0 \in T, \A n \in Nat : n \in T => n + 1 \in T
  PROVE  \A n \in Nat : n \in T
<1> DEFINE Bad == {n \in Nat : n \notin T}
           R == OpToRel(<, Nat)
<1>1. \A x, y \in Nat : x < y => <<x, y>> \in R
  BY DEF OpToRel
<1>2. IsWellFoundedOn(R, Nat)
  BY NatLessThanWellFounded
<1> HIDE DEF R
<1>3. SUFFICES ASSUME Bad # {} PROVE FALSE
  OBVIOUS
<1>4. PICK m \in Bad : \A y \in Bad : ~ (<<y, m>> \in R)
  BY <1>2, <1>3, WFMin
<1>5. m \in Nat /\ m \notin T /\ m # 0
  OBVIOUS
<1>6. m - 1 \in Nat /\ m - 1 \notin T /\ m - 1 < m
  BY <1>5
<1> QED
  BY <1>1, <1>4, <1>5, <1>6

\* A pick leaves one element less.
LEMMA PickLeaves ==
  ASSUME NEW s, IsFiniteSet(s), s # {}
  PROVE  /\ Pick(s) \in s /\ IsFiniteSet(s \ {Pick(s)})
         /\ Cardinality(s) \in Nat /\ Cardinality(s \ {Pick(s)}) \in Nat
         /\ Cardinality(s \ {Pick(s)}) = Cardinality(s) - 1
BY FS_RemoveElement, FS_CardinalityType DEF Pick

\* The sums exist: subset by subset, in the order of their sizes.
LEMMA SumsExist ==
  ASSUME NEW f, NEW S, IsFiniteSet(S)
  PROVE  \A s \in SUBSET S : SumsOf(f, S)[s] =
           IF s = {} THEN 0 ELSE f[Pick(s)] + SumsOf(f, S)[s \ {Pick(s)}]
<1> DEFINE D(n) == {s \in SUBSET S : Cardinality(s) <= n}
           Step(g, s) == IF s = {} THEN 0 ELSE f[Pick(s)] + g[s \ {Pick(s)}]
           T == {n \in Nat : \E g : g = [s \in D(n) |-> Step(g, s)]}
<1>1. \A s \in SUBSET S : /\ IsFiniteSet(s) /\ Cardinality(s) \in Nat
                          /\ Cardinality(s) <= Cardinality(S)
                          /\ Cardinality(s) = 0 <=> s = {}
  BY FS_Subset, FS_CardinalityType, FS_EmptySet
<1>2. 0 \in T
  <2>1. \A g, s : s \in D(0) => Step(g, s) = 0
    BY <1>1
  <2>2. [s \in D(0) |-> 0] = [s \in D(0) |-> Step([u \in D(0) |-> 0], s)]
    BY <2>1
  <2> HIDE DEF Step, D
  <2> QED
    BY <2>2
<1>3. ASSUME NEW n \in Nat, n \in T PROVE n + 1 \in T
  <2>1. PICK g : g = [s \in D(n) |-> Step(g, s)]
    BY <1>3
  <2> DEFINE h == [s \in D(n + 1) |-> Step(g, s)]
  <2>2. ASSUME NEW s \in D(n + 1), s # {} PROVE s \ {Pick(s)} \in D(n) /\ s \ {Pick(s)} \in D(n + 1)
    BY <1>1, <2>2, PickLeaves
  <2>3. D(n) \subseteq D(n + 1)
    BY <1>1
  <2> HIDE DEF D
  <2>4. \A s \in D(n) : h[s] = g[s]
    BY <2>1, <2>3, Zenon
  <2>5. ASSUME NEW s \in D(n + 1) PROVE Step(g, s) = Step(h, s)
    BY <2>2, <2>4
  <2>6. h = [s \in D(n + 1) |-> Step(h, s)]
    <3> HIDE DEF Step
    <3> QED
      BY <2>5, Zenon
  <2>7. \E k : k = [s \in D(n + 1) |-> Step(k, s)]
    <3> HIDE DEF Step, h
    <3> QED
      BY <2>6, Zenon
  <2>8. n + 1 \in Nat
    OBVIOUS
  <2> HIDE DEF Step, D
  <2> QED
    BY <2>7, <2>8, Zenon
<1>4. Cardinality(S) \in Nat /\ Cardinality(S) \in T
  <2>1. Cardinality(S) \in Nat
    BY FS_CardinalityType
  <2> HIDE DEF T
  <2> QED
    BY <1>2, <1>3, <2>1, Induction
<1>5. D(Cardinality(S)) = SUBSET S
  BY <1>1
<1>6. \E it : it = [s \in SUBSET S |-> Step(it, s)]
  BY <1>4, <1>5
<1>7. SumsOf(f, S) = [s \in SUBSET S |-> Step(SumsOf(f, S), s)]
  BY <1>6, Zenon DEF SumsOf
<1>8. \A s \in SUBSET S : SumsOf(f, S)[s] = Step(SumsOf(f, S), s)
  <2> HIDE DEF Step
  <2> QED
    BY <1>7
<1> QED
  BY <1>8

\* A sum of percentages is at most 100 for each of them, and that much only if all are 100.
LEMMA SumOfPercents ==
  ASSUME NEW f, NEW S, IsFiniteSet(S), \A x \in S : f[x] \in 0 .. 100
  PROVE  /\ SumFunctionOnSet(f, S) \in Nat
         /\ SumFunctionOnSet(f, S) = 100 * Cardinality(S) <=> \A x \in S : f[x] = 100
<1> DEFINE it == SumsOf(f, S)
           Step(s) == IF s = {} THEN 0 ELSE f[Pick(s)] + it[s \ {Pick(s)}]
           Fine(s) == /\ it[s] \in 0 .. 100 * Cardinality(s)
                      /\ it[s] = 100 * Cardinality(s) <=> \A x \in s : f[x] = 100
           T == {n \in Nat : \A s \in SUBSET S : Cardinality(s) = n => Fine(s)}
<1>1. \A s \in SUBSET S : it[s] = Step(s)
  BY SumsExist
<1> HIDE DEF it
<1>2. \A s \in SUBSET S : IsFiniteSet(s) /\ Cardinality(s) \in Nat /\ (Cardinality(s) = 0 <=> s = {})
  BY FS_Subset, FS_CardinalityType, FS_EmptySet
<1>3. 0 \in T
  <2>1. ASSUME NEW s \in SUBSET S, Cardinality(s) = 0 PROVE Fine(s)
    <3>1. s = {} /\ it[s] = 0
      BY <1>1, <1>2, <2>1 DEF Step
    <3> QED
      BY <2>1, <3>1
  <2> QED
    BY <2>1
<1>4. ASSUME NEW n \in Nat, n \in T PROVE n + 1 \in T
  <2>1. ASSUME NEW s \in SUBSET S, Cardinality(s) = n + 1 PROVE Fine(s)
    <3> DEFINE x == Pick(s)
               u == s \ {x}
    <3>1. s # {}
      BY <1>2, <2>1
    <3>2. x \in s /\ Cardinality(u) = n /\ u \in SUBSET S
      BY <1>2, <2>1, <3>1, PickLeaves
    <3>3. Fine(u)
      BY <1>4, <3>2
    <3>4. it[s] = f[x] + it[u] /\ f[x] \in 0 .. 100
      BY <1>1, <3>1, <3>2 DEF Step
    <3>5. (\A y \in s : f[y] = 100) <=> f[x] = 100 /\ \A y \in u : f[y] = 100
      BY <3>2
    <3> HIDE DEF x, u
    <3> QED
      BY <2>1, <3>2, <3>3, <3>4, <3>5
  <2> QED
    BY <2>1
<1>5. Cardinality(S) \in T
  <2>1. Cardinality(S) \in Nat
    BY FS_CardinalityType
  <2> HIDE DEF T
  <2> QED
    BY <1>3, <1>4, <2>1, Induction
<1>6. Fine(S)
  BY <1>5
<1>7. SumFunctionOnSet(f, S) = it[S]
  BY SumIs DEF it
<1>8. Cardinality(S) \in Nat
  BY <1>2
<1> QED
  BY <1>6, <1>7, <1>8

\* The sums of percentages over required tasks.
LEMMA SumOfRows ==
  ASSUME NEW new \in [Tasks -> TaskRow], NEW S
  PROVE  /\ Sum(new, S) \in Nat
         /\ Sum(new, S) = 100 * Cardinality(S \cap RequiredTasks(trk)) <=> MeanIsFull(trk, new, S)
<1> DEFINE f == [t \in Tasks |-> new[t].progress]
           R == S \cap RequiredTasks(trk)
<1>1. R \subseteq Tasks /\ IsFiniteSet(R)
  <2>1. IsFiniteSet(Tasks)
    BY SizeAssumption, FS_Interval DEF Tasks
  <2>2. R \in SUBSET Tasks
    BY DEF RequiredTasks
  <2> QED
    BY <2>1, <2>2, FS_Subset
<1>2. \A t \in Tasks : f[t] = new[t].progress /\ f[t] \in 0 .. 100
  BY DEF TaskRow
<1>3. Sum(new, S) = SumFunctionOnSet(f, R)
  BY Zenon DEF Sum
<1>4. MeanIsFull(trk, new, S) <=> \A t \in R : f[t] = 100
  BY <1>1, <1>2 DEF MeanIsFull
<1> HIDE DEF f, R
<1>5. \A t \in R : f[t] \in 0 .. 100
  BY <1>1, <1>2
<1>6. /\ SumFunctionOnSet(f, R) \in Nat
      /\ SumFunctionOnSet(f, R) = 100 * Cardinality(R) <=> \A t \in R : f[t] = 100
  BY <1>1, <1>5, SumOfPercents
<1> QED
  BY <1>3, <1>4, <1>6 DEF R

-----------------------------------------------------------------------------
(* What steps have in common. *)

\* The shape of the assignment.
LEMMA ShapeType ==
  ASSUME trk \in Tracks
  PROVE  /\ trk.type \in [Tasks -> TaskTypes] /\ trk.allowed \in [Tasks -> Int]
         /\ trk.must \in [Tasks -> SUBSET Items] /\ trk.may \in [Tasks -> SUBSET Items]
         /\ \A t \in Tasks : AttemptLimit(t) \in Int
<1>1. trk \in TrackShape
  BY ShapeAssumption
<1>2. /\ trk.type \in [Tasks -> TaskTypes] /\ trk.allowed \in [Tasks -> Int]
      /\ trk.must \in [Tasks -> SUBSET Items] /\ trk.may \in [Tasks -> SUBSET Items]
  BY <1>1 DEF TrackShape
<1> QED
  BY <1>2, RequestsAssumption DEF AttemptLimit

\* Some of the requests are finitely many.
LEMMA SomeRequests ==
  ASSUME NEW S \in SUBSET Requests
  PROVE  /\ IsFiniteSet(S) /\ Cardinality(S) \in Nat /\ Cardinality(Requests) \in Nat
         /\ Cardinality(S) <= Cardinality(Requests)
         /\ \A T \in SUBSET S : Cardinality(T) \in Nat /\ Cardinality(T) <= Cardinality(S)
         /\ \A r \in S : Cardinality(S \ {r}) = Cardinality(S) - 1
BY RequestsAssumption, FS_Subset, FS_CardinalityType, FS_RemoveElement

\* They are requests.
LEMMA Reservations == \A t : Taking(t) \in SUBSET Requests
BY DEF Taking

\* A free slot is no task's.
LEMMA NoOpIs == NoOp.kind = "none"
BY DEF NoOp

\* A request is not a free slot.
LEMMA FitsIs == ASSUME NEW o, Fits(o) PROVE o # NoOp
BY NoOpIs DEF Fits

\* The attempts recorded and about to be do not grow.
LEMMA WithinKept ==
  ASSUME trk \in Tracks, NEW t \in Tasks, attempts[t] \in Nat, attempts'[t] \in Nat, Within(t),
         UNCHANGED trk,
         attempts'[t] + Cardinality(Taking(t)') <= attempts[t] + Cardinality(Taking(t))
  PROVE  Within(t)'
<1> DEFINE n  == attempts[t] + Cardinality(Taking(t))
           n1 == attempts'[t] + Cardinality(Taking(t)')
           m  == AttemptLimit(t) + Cardinality(Requests)
<1>1. Cardinality(Taking(t)) \in Nat /\ Cardinality(Requests) \in Nat
  BY Reservations, SomeRequests
<1>2. Cardinality(Taking(t)') \in Nat
  <2>1. Taking(t)' \in SUBSET Requests
    BY DEF Taking
  <2> QED
    BY <2>1, SomeRequests
<1>3. AttemptLimit(t)' = AttemptLimit(t) /\ AttemptLimit(t) \in Int
  BY ShapeType DEF AttemptLimit
<1>4. n \in Nat /\ n1 \in Nat /\ m \in Int /\ n1 <= n
  BY <1>1, <1>2, <1>3
<1>5. n # 0 => n < m
  BY DEF Within
<1>6. (n1 # 0 => n1 < m) => Within(t)'
  BY <1>3 DEF Within
<1> HIDE DEF n, n1, m
<1> QED
  BY <1>4, <1>5, <1>6

\* A set that shrinks counts no more.
LEMMA TakingShrinks ==
  ASSUME NEW t, Taking(t)' \subseteq Taking(t)
  PROVE  Cardinality(Taking(t)') <= Cardinality(Taking(t)) /\ Cardinality(Taking(t)) \in Nat
BY Reservations, SomeRequests

\* A step that records no attempt keeps a quiz within the bound if it lets no request in.
LEMMA WithinAsBefore ==
  ASSUME trk \in Tracks, Kept, NEW t \in Tasks, Within(t),
         UNCHANGED <<trk, attempts>>, Taking(t)' \subseteq Taking(t)
  PROVE  Within(t)'
<1>1. Cardinality(Taking(t)') <= Cardinality(Taking(t)) /\ Cardinality(Taking(t)) \in Nat
  BY TakingShrinks
<1>2. attempts'[t] = attempts[t] /\ attempts[t] \in Nat
  BY DEF Kept
<1>3. Cardinality(Taking(t)') \in Nat
  BY Reservations, SomeRequests
<1>4. attempts'[t] + Cardinality(Taking(t)') <= attempts[t] + Cardinality(Taking(t))
  BY <1>1, <1>2, <1>3
<1> QED
  BY <1>2, <1>4, WithinKept

\* So does every quiz, if it lets no request in anywhere.
LEMMA NoneTaken ==
  ASSUME trk \in Tracks, Kept, Admitted, UNCHANGED <<trk, attempts>>,
         \A t \in Tasks : Taking(t)' \subseteq Taking(t)
  PROVE  Admitted'
BY WithinAsBefore DEF Admitted

-----------------------------------------------------------------------------
(* The steps of a request. *)

\* What a request can be asked for, by the type of its task.
Asked(o) ==
  /\ o.task \in Tasks
  /\ \/ /\ o.kind = "submit" /\ o.passed \in BOOLEAN
        /\ trk.type[o.task] # "quiz" => o.passed = TRUE
     \/ /\ o.kind = "tick" /\ o.checked \in BOOLEAN /\ trk.type[o.task] = "checklist"
        /\ o.item \in trk.must[o.task] \cup trk.may[o.task]
     \/ o.kind = "review" /\ o.decision \in Decisions
     \/ o.kind = "score" /\ o.passed \in BOOLEAN /\ trk.type[o.task] = "assessment"

\* The operations are what the endpoints accept.
LEMMA OperationAsked ==
  ASSUME NEW o \in Operations
  PROVE  Asked(o)
<1> DEFINE quizzes  == [kind : {"submit"}, task : {t \in Tasks : trk.type[t] = "quiz"}, passed : BOOLEAN]
           others   == [kind : {"submit"}, task : {t \in Tasks : trk.type[t] # "quiz"}, passed : {TRUE}]
           ticks(t) == [kind : {"tick"}, task : {t}, item : trk.must[t] \cup trk.may[t], checked : BOOLEAN]
           lists    == {u \in Tasks : trk.type[u] = "checklist"}
           reviews  == [kind : {"review"}, task : Tasks, decision : Decisions]
           scores   == [kind : {"score"}, task : {t \in Tasks : trk.type[t] = "assessment"}, passed : BOOLEAN]
<1>1. CASE o \in quizzes
  BY <1>1 DEF Asked
<1>2. CASE o \in others
  BY <1>2 DEF Asked
<1>3. CASE \E t \in lists : o \in ticks(t)
  <2>1. PICK t \in lists : o \in ticks(t)
    BY <1>3
  <2> QED
    BY <2>1 DEF Asked
<1>4. CASE o \in reviews
  BY <1>4 DEF Asked
<1>5. CASE o \in scores
  BY <1>5 DEF Asked
<1>6. Operations = quizzes \cup others \cup (UNION {ticks(t) : t \in lists}) \cup reviews \cup scores
  BY Zenon DEF Operations
<1> HIDE DEF quizzes, others, ticks, lists, reviews, scores
<1> QED
  BY <1>1, <1>2, <1>3, <1>4, <1>5, <1>6

\* They fit the kinds.
LEMMA OperationFits ==
  ASSUME trk \in Tracks, NEW o \in Operations
  PROVE  Fits(o)
<1>1. Asked(o)
  BY OperationAsked
<1>2. o.task \in Tasks => trk.must[o.task] \cup trk.may[o.task] \subseteq Items
  BY ShapeType
<1> QED
  BY <1>1, <1>2 DEF Asked, Fits

\* A request that begins takes a free slot, and no attempt.
LEMMA BeginKeeps ==
  ASSUME IInv, NEW r \in Requests, Begin(r)
  PROVE  IInv'
<1>1. trk \in Tracks /\ Kept /\ Slots /\ Admitted
  BY DEF IInv
<1>2. PICK o \in Operations : op' = [op EXCEPT ![r] = o]
  BY DEF Begin
<1>3. /\ stage[r] = "idle" /\ stage' = [stage EXCEPT ![r] = "begun"]
      /\ older' = [older EXCEPT ![r] = {q \in Requests \ {r} : stage[q] # "idle"}]
      /\ UNCHANGED <<trk, rows, lastSub, attempts, saved, checks, status, percent, phases, snap>>
  BY DEF Begin, stored
<1>4. Fits(o) /\ o # NoOp
  BY <1>1, OperationFits, FitsIs
<1>5. /\ DOMAIN op' = Requests /\ op'[r] = o /\ DOMAIN stage' = Requests /\ stage'[r] = "begun"
      /\ DOMAIN older' = Requests /\ older'[r] = {q \in Requests \ {r} : stage[q] # "idle"}
      /\ \A q \in Requests \ {r} : op'[q] = op[q] /\ stage'[q] = stage[q] /\ older'[q] = older[q]
  BY <1>1, <1>2, <1>3 DEF Slots
<1>6. Kept'
  BY <1>1, <1>3 DEF Kept
<1>7. Slots'
  <2>1. ASSUME NEW q \in Requests PROVE older'[q] \subseteq {u \in Requests : stage'[u] # "idle"}
    BY <1>1, <1>3, <1>5 DEF Slots
  <2> QED
    BY <1>1, <1>3, <1>4, <1>5, <2>1 DEF Slots
<1>8. Admitted'
  <2>1. ASSUME NEW t \in Tasks PROVE Taking(t)' \subseteq Taking(t)
    BY <1>1, <1>3, <1>5 DEF Taking, IsQuiz
  <2> QED
    BY <1>1, <1>3, <2>1, NoneTaken
<1> QED
  BY <1>1, <1>3, <1>6, <1>7, <1>8 DEF IInv

\* A record of the rows loaded is a row for each task.
LEMMA LoadedRows ==
  ASSUME Kept
  PROVE  /\ Everything.rows = rows /\ Everything.checks = checks /\ Everything.saved = saved
         /\ \A t \in Tasks, row \in TaskRow :
              /\ [Everything EXCEPT !.rows[t] = row].rows \in [Tasks -> TaskRow]
              /\ [Everything EXCEPT !.rows[t] = row].checks = checks
<1>1. /\ Everything.rows = rows /\ Everything.checks = checks /\ Everything.saved = saved
  BY DEF Everything
<1>2. ASSUME NEW t \in Tasks, NEW row \in TaskRow
      PROVE  /\ [Everything EXCEPT !.rows[t] = row].rows = [rows EXCEPT ![t] = row]
             /\ [Everything EXCEPT !.rows[t] = row].checks = checks
  BY DEF Everything
<1>3. rows \in [Tasks -> TaskRow]
  BY DEF Kept
<1>4. \A t \in Tasks, row \in TaskRow : [rows EXCEPT ![t] = row] \in [Tasks -> TaskRow]
  BY <1>3
<1> QED
  BY <1>1, <1>2, <1>4

\* What a request loads are rows.
LEMMA LoadKeeps ==
  ASSUME IInv, NEW r \in Requests, Load(r)
  PROVE  IInv'
<1>1. trk \in Tracks /\ Kept /\ Slots /\ Admitted
  BY DEF IInv
<1>2. /\ stage[r] = "begun"
      /\ UNCHANGED <<trk, rows, lastSub, attempts, saved, checks, status, percent, phases, op, older>>
  BY DEF Load, stored
<1>3. Fits(op[r]) /\ op[r].task \in Tasks /\ op[r] # NoOp
  BY <1>1, <1>2, FitsIs DEF Slots, Fits
<1>4. rows \in [Tasks -> TaskRow] /\ checks \in [Tasks -> SUBSET Items]
  BY <1>1 DEF Kept
<1>5. Kept'
  BY <1>1, <1>2 DEF Kept
<1>6. ASSUME NEW t \in Tasks, stage'[r] # "prepared",
             \A q \in Requests \ {r} : stage'[q] = stage[q]
      PROVE  Taking(t)' \subseteq Taking(t)
  BY <1>2, <1>6 DEF Taking, IsQuiz
<1>7. CASE op[r].kind = "score" /\ snap[r] = NoOp
  <2>1. snap' = [snap EXCEPT ![r] = [row |-> rows[op[r].task]]] /\ stage' = stage
    BY <1>7 DEF Load
  <2>2. /\ DOMAIN snap' = Requests /\ snap'[r].row \in TaskRow
        /\ \A q \in Requests \ {r} : snap'[q] = snap[q]
    BY <1>1, <1>3, <1>4, <2>1 DEF Slots
  <2>3. Slots'
    BY <1>1, <1>2, <2>1, <2>2 DEF Slots
  <2>4. Admitted'
    BY <1>1, <1>2, <1>6, <2>1, NoneTaken
  <2> QED
    BY <1>1, <1>2, <1>5, <2>3, <2>4 DEF IInv
<1>8. CASE ~(op[r].kind = "score" /\ snap[r] = NoOp)
  <2> DEFINE got == IF op[r].kind = "score"
                    THEN [Everything EXCEPT !.rows[op[r].task] = snap[r].row] ELSE Everything
  <2>1. snap' = [snap EXCEPT ![r] = got] /\ stage' = [stage EXCEPT ![r] = "loaded"]
    BY <1>8 DEF Load
  <2>2. got.rows \in [Tasks -> TaskRow] /\ got.checks \in [Tasks -> SUBSET Items]
    <3>1. CASE op[r].kind = "score"
      <4>1. snap[r].row \in TaskRow
        BY <1>1, <1>2, <1>8, <3>1 DEF Slots
      <4> QED
        BY <1>1, <1>3, <1>4, <3>1, <4>1, LoadedRows
    <3>2. CASE op[r].kind # "score"
      BY <1>1, <1>4, <3>2, LoadedRows
    <3> QED
      BY <3>1, <3>2
  <2> HIDE DEF got
  <2>3. /\ DOMAIN snap' = Requests /\ snap'[r] = got /\ DOMAIN stage' = Requests
        /\ stage'[r] = "loaded"
        /\ \A q \in Requests \ {r} : snap'[q] = snap[q] /\ stage'[q] = stage[q]
    BY <1>1, <2>1 DEF Slots
  <2>4. Slots'
    <3>1. ASSUME NEW q \in Requests PROVE older'[q] \subseteq {u \in Requests : stage'[u] # "idle"}
      BY <1>1, <1>2, <2>3 DEF Slots
    <3> QED
      BY <1>1, <1>2, <1>3, <2>2, <2>3, <3>1 DEF Slots
  <2>5. Admitted'
    BY <1>1, <1>2, <1>6, <2>3, NoneTaken
  <2> QED
    BY <1>1, <1>2, <1>5, <2>4, <2>5 DEF IInv
<1> QED
  BY <1>7, <1>8

\* A request that ends leaves its slot free.
LEMMA LeaveSlots ==
  ASSUME Slots, NEW r \in Requests, Leave(r), UNCHANGED trk
  PROVE  /\ Slots' /\ stage'[r] = "idle" /\ op'[r] = NoOp
         /\ \A q \in Requests \ {r} : stage'[q] = stage[q] /\ op'[q] = op[q]
<1>1. /\ DOMAIN op' = Requests /\ DOMAIN stage' = Requests /\ DOMAIN snap' = Requests
      /\ DOMAIN older' = Requests
      /\ op'[r] = NoOp /\ stage'[r] = "idle" /\ snap'[r] = NoOp /\ older'[r] = {}
      /\ \A q \in Requests \ {r} : /\ stage'[q] = stage[q] /\ op'[q] = op[q]
                                   /\ snap'[q] = snap[q] /\ older'[q] = older[q] \ {r}
  BY DEF Slots, Leave
<1>2. ASSUME NEW q \in Requests PROVE older'[q] \subseteq {u \in Requests : stage'[u] # "idle"}
  BY <1>1 DEF Slots
<1>3. Slots'
  BY <1>1, <1>2 DEF Slots
<1> QED
  BY <1>1, <1>3

\* A request is let into a quiz only while an attempt is left.
LEMMA PrepareKeeps ==
  ASSUME IInv, NEW r \in Requests, Prepare(r)
  PROVE  IInv'
<1>1. trk \in Tracks /\ Kept /\ Slots /\ Admitted
  BY DEF IInv
<1>2. /\ stage[r] = "loaded"
      /\ UNCHANGED <<trk, rows, lastSub, attempts, saved, checks, status, percent, phases>>
  BY DEF Prepare, stored
<1>3. Kept'
  BY <1>1, <1>2 DEF Kept
<1>4. CASE OutOfAttempts(r) /\ Leave(r)
  <2>1. Slots'
    BY <1>1, <1>2, <1>4, LeaveSlots
  <2>2. /\ stage'[r] = "idle"
        /\ \A q \in Requests \ {r} : stage'[q] = stage[q] /\ op'[q] = op[q]
    BY <1>1, <1>2, <1>4, LeaveSlots
  <2>3. \A t \in Tasks : Taking(t)' \subseteq Taking(t)
    BY <1>2, <2>2 DEF Taking, IsQuiz
  <2> QED
    BY <1>1, <1>2, <1>3, <2>1, <2>3, NoneTaken DEF IInv
<1>5. CASE ~OutOfAttempts(r) /\ stage' = [stage EXCEPT ![r] = "prepared"] /\ UNCHANGED <<op, snap, older>>
  <2>1. /\ DOMAIN stage' = Requests /\ stage'[r] = "prepared"
        /\ \A q \in Requests \ {r} : stage'[q] = stage[q]
    BY <1>1, <1>5 DEF Slots
  <2>2. Slots'
    <3>1. ASSUME NEW q \in Requests PROVE older'[q] \subseteq {u \in Requests : stage'[u] # "idle"}
      BY <1>1, <1>2, <1>5, <2>1 DEF Slots
    <3> QED
      BY <1>1, <1>2, <1>5, <2>1, <3>1 DEF Slots
  <2>3. ASSUME NEW t \in Tasks, trk.type[t] = "quiz" PROVE Within(t)'
    <3>1. CASE IsQuiz(r) /\ op[r].task = t
      <4>1. attempts[t] < AttemptLimit(t) /\ AttemptLimit(t) \in Int /\ attempts[t] \in Nat
        <5>1. ~(attempts[t] >= AttemptLimit(t))
          BY <1>5, <3>1 DEF OutOfAttempts
        <5>2. AttemptLimit(t) \in Int /\ attempts[t] \in Nat
          BY <1>1, ShapeType DEF Kept
        <5> QED
          BY <5>1, <5>2
      <4>2. /\ Cardinality(Taking(t)') \in Nat /\ Cardinality(Requests) \in Nat
            /\ Cardinality(Taking(t)') <= Cardinality(Requests)
        <5>1. Taking(t)' \in SUBSET Requests
          BY DEF Taking
        <5> QED
          BY <5>1, SomeRequests
      <4>3. attempts'[t] = attempts[t] /\ AttemptLimit(t)' = AttemptLimit(t)
        BY <1>2 DEF AttemptLimit
      <4>4. attempts'[t] + Cardinality(Taking(t)') < AttemptLimit(t)' + Cardinality(Requests)
        BY <4>1, <4>2, <4>3
      <4> QED
        BY <4>4 DEF Within
    <3>2. CASE ~(IsQuiz(r) /\ op[r].task = t)
      <4>1. Taking(t)' \subseteq Taking(t)
        BY <1>2, <1>5, <2>1, <3>2 DEF Taking, IsQuiz
      <4>2. Within(t)
        BY <1>1, <2>3 DEF Admitted
      <4> QED
        BY <1>1, <1>2, <4>1, <4>2, WithinAsBefore
    <3> QED
      BY <3>1, <3>2
  <2>4. Admitted'
    BY <1>2, <2>3 DEF Admitted
  <2> QED
    BY <1>1, <1>2, <1>3, <2>2, <2>4 DEF IInv
<1> QED
  BY <1>4, <1>5 DEF Prepare

\* The items a checklist request works with are items.
LEMMA TickedType ==
  ASSUME Slots, NEW r \in Requests, stage[r] = "prepared", op[r].kind = "tick"
  PROVE  Ticked(r) \in SUBSET Items
<1>1. snap[r].checks \in [Tasks -> SUBSET Items] /\ Fits(op[r]) /\ op[r].task \in Tasks
  BY DEF Slots, Fits
<1>2. op[r].item \in Items
  BY <1>1 DEF Fits
<1> QED
  BY <1>1, <1>2 DEF Ticked

\* The row a request writes is complete exactly at 100 percent, and stamped when complete.
LEMMA HandledGood ==
  ASSUME trk \in Tracks, Slots, NEW r \in Requests, stage[r] = "prepared"
  PROVE  Good(Handled(r)) /\ Handled(r) \in TaskRow
<1> SUFFICES Good(Handled(r))
  BY DEF Good
<1> DEFINE o   == op[r]
           row == snap[r].rows[o.task]
<1>1. Fits(o) /\ snap[r].rows \in [Tasks -> TaskRow]
  BY DEF Slots
<1>2. o.task \in Tasks /\ row \in TaskRow
  BY <1>1 DEF Fits
<1>3. trk.type[o.task] \in TaskTypes /\ trk.must[o.task] \in SUBSET Items
  BY <1>2, ShapeType
<1> HIDE DEF row
<1>4. CASE o.kind = "submit"
  <2>1. Handled(r) = SubmittedRow(trk.type[o.task], row, o.passed)
    BY <1>4, Zenon DEF Handled, row
  <2>2. o.passed \in BOOLEAN
    BY <1>1, <1>4 DEF Fits
  <2> QED
    BY <1>2, <1>3, <2>1, <2>2, SubmittedRowGood
<1>5. CASE o.kind = "tick"
  <2>1. Handled(r) = ChecklistRow(trk.must[o.task], row, Ticked(r))
    BY <1>5, Zenon DEF Handled, row
  <2> QED
    BY <1>2, <1>3, <2>1, ChecklistRowGood
<1>6. CASE o.kind = "review"
  <2>1. Handled(r) = ReviewedRow(row, o.decision)
    BY <1>6, Zenon DEF Handled, row
  <2>2. o.decision \in Decisions
    BY <1>1, <1>6 DEF Fits
  <2> QED
    BY <1>2, <2>1, <2>2, ReviewedRowGood
<1>7. CASE o.kind = "score"
  <2>1. Handled(r) = ScoredRow(row, o.passed)
    BY <1>7, Zenon DEF Handled, row
  <2>2. o.passed \in BOOLEAN
    BY <1>1, <1>7 DEF Fits
  <2> QED
    BY <1>2, <2>1, <2>2, ScoredRowGood
<1> QED
  BY <1>1, <1>4, <1>5, <1>6, <1>7 DEF Fits

\* What a request computes of the rows it loaded, before the flush.
New(r) == RefreshedRows(trk, [snap[r].rows EXCEPT ![op[r].task] = Handled(r)], today)

\* It completes no task without a stamp.
LEMMA NewRows ==
  ASSUME trk \in Tracks, Slots, NEW r \in Requests, stage[r] = "prepared"
  PROVE  /\ New(r) \in [Tasks -> TaskRow] /\ MarkNext(New(r)) = New(r)
         /\ Handled(r).status = "completed" => New(r)[op[r].task].completedAt = TRUE
<1> DEFINE written == [snap[r].rows EXCEPT ![op[r].task] = Handled(r)]
<1>1. snap[r].rows \in [Tasks -> TaskRow] /\ op[r].task \in Tasks
  BY DEF Slots, Fits
<1>2. Good(Handled(r)) /\ Handled(r) \in TaskRow
  BY HandledGood
<1>3. written \in [Tasks -> TaskRow] /\ written[op[r].task] = Handled(r)
  BY <1>1, <1>2
<1>4. New(r) = RefreshedRows(trk, written, today)
  BY DEF New
<1> HIDE DEF written
<1>5. New(r) \in [Tasks -> TaskRow] /\ MarkNext(New(r)) = New(r)
  BY <1>3, <1>4, RefreshedType, RefreshIsDone
<1>6. New(r)[op[r].task].completedAt = Handled(r).completedAt
  BY <1>1, <1>3, <1>4, RefreshedRow
<1>7. Handled(r).status = "completed" => Handled(r).completedAt = TRUE
  BY <1>2 DEF Good, Consistent
<1> QED
  BY <1>5, <1>6, <1>7

\* The flush of a row writes a row.
LEMMA FlushedRowType ==
  ASSUME NEW current \in TaskRow, NEW loaded, NEW new \in TaskRow, NEW stamped \in BOOLEAN
  PROVE  FlushedRow(current, loaded, new, stamped) \in TaskRow
<1> DEFINE stamp == stamped \/ Flushed(current.completedAt, loaded.completedAt, new.completedAt)
           s == Flushed(current.status, loaded.status, new.status)
           p == Flushed(current.progress, loaded.progress, new.progress)
           n == Flushed(current.isNext, loaded.isNext, new.isNext)
<1>1. s \in TaskStatuses /\ p \in 0 .. 100
  BY DEF Flushed, TaskRow
<1>2. stamp \in BOOLEAN
  OBVIOUS
<1>3. n \in BOOLEAN
  <2>1. current.isNext \in BOOLEAN /\ new.isNext \in BOOLEAN
    BY DEF TaskRow
  <2>2. n = current.isNext \/ n = new.isNext
    BY Zenon DEF Flushed
  <2> QED
    BY <2>1, <2>2
<1>4. FlushedRow(current, loaded, new, stamped) =
        [status |-> s, progress |-> p, completedAt |-> stamp, isNext |-> n]
  BY DEF FlushedRow
<1> HIDE DEF s, p, stamp, n
<1> QED
  BY <1>1, <1>2, <1>3, <1>4 DEF TaskRow

\* And when nobody has changed the row since it was loaded, the row computed.
LEMMA FlushedUnchanged ==
  ASSUME NEW current \in TaskRow, NEW new \in TaskRow, NEW stamped \in BOOLEAN,
         stamped => new.completedAt = TRUE
  PROVE  FlushedRow(current, current, new, stamped) = new
<1> DEFINE stamp == stamped \/ Flushed(current.completedAt, current.completedAt, new.completedAt)
<1>1. \A x, y : Flushed(x, x, y) = y
  BY DEF Flushed
<1>2. stamp = new.completedAt
  <2>1. stamp <=> new.completedAt
    BY <1>1
  <2>2. stamp \in BOOLEAN /\ new.completedAt \in BOOLEAN
    BY DEF TaskRow
  <2> QED
    BY <2>1, <2>2
<1>3. FlushedRow(current, current, new, stamped) =
        [status |-> new.status, progress |-> new.progress,
         completedAt |-> new.completedAt, isNext |-> new.isNext]
  BY <1>1, <1>2 DEF FlushedRow
<1> QED
  BY <1>3 DEF TaskRow

\* The rows a commit writes.
LEMMA CommitRows ==
  ASSUME trk \in Tracks, Kept, Slots, NEW r \in Requests, stage[r] = "prepared", FlushRows(r)
  PROVE  /\ rows' \in [Tasks -> TaskRow] /\ status' \in AssignmentStatuses /\ percent' \in Nat
         /\ \A p \in Phases : phases'[p].status \in PhaseStatuses /\ phases'[p].percent \in Nat
<1>1. New(r) \in [Tasks -> TaskRow] /\ rows \in [Tasks -> TaskRow]
  BY NewRows DEF Kept
<1>2. /\ rows' = [u \in Tasks |->
           FlushedRow(rows[u], snap[r].rows[u], New(r)[u],
                      u = op[r].task /\ Handled(r).status = "completed")]
      /\ status' = Flushed(status, snap[r].status, StatusOf(trk, New(r)))
      /\ \A p \in Phases :
           /\ phases'[p].status =
                Flushed(phases[p].status, snap[r].phases[p].status, PhaseStatus(New(r), p))
           /\ phases'[p].percent =
                Flushed(phases[p].percent, snap[r].phases[p].percent, PhasePercent(New(r), p))
      /\ percent' = Flushed(percent, snap[r].percent, Sum(New(r), Tasks))
  BY DEF FlushRows, New
<1>3. ASSUME NEW u \in Tasks
      PROVE  FlushedRow(rows[u], snap[r].rows[u], New(r)[u],
                        u = op[r].task /\ Handled(r).status = "completed") \in TaskRow
  BY <1>1, FlushedRowType
<1>4. status' \in AssignmentStatuses
  BY <1>2, StatusOfCases DEF Flushed, Kept
<1>5. percent' \in Nat
  <2>1. Sum(New(r), Tasks) \in Nat
    BY <1>1, SumOfRows
  <2> QED
    BY <1>2, <2>1 DEF Flushed, Kept
<1>6. ASSUME NEW p \in Phases
      PROVE  phases'[p].status \in PhaseStatuses /\ phases'[p].percent \in Nat
  <2>1. PhaseStatus(New(r), p) \in PhaseStatuses
    BY PhaseOfCases DEF PhaseStatus
  <2>2. PhasePercent(New(r), p) \in Nat
    BY <1>1, SumOfRows DEF PhasePercent
  <2> QED
    BY <1>2, <2>1, <2>2 DEF Flushed, Kept
<1> QED
  BY <1>2, <1>3, <1>4, <1>5, <1>6

\* The submissions a commit leaves.
LEMMA CommitSubmissions ==
  ASSUME trk \in Tracks, Kept, Slots, NEW r \in Requests, stage[r] = "prepared", FlushSubmission(r)
  PROVE  lastSub' \in [Tasks -> SubmissionStatuses]
<1>1. lastSub \in [Tasks -> SubmissionStatuses] /\ op[r].task \in Tasks
  BY DEF Kept, Slots, Fits
<1>2. CASE lastSub' = [lastSub EXCEPT ![op[r].task] =
                         SubmittedStatus(trk.type[op[r].task], op[r].passed)]
  <2>1. \A type, passed : SubmittedStatus(type, passed) \in SubmissionStatuses
    <3>1. TAKE type, passed
    <3>2. SubmittedStatus(type, passed) \in {"revision_requested", "submitted", "reviewed"}
      BY Zenon DEF SubmittedStatus
    <3> QED
      BY <3>2 DEF SubmissionStatuses
  <2>2. SubmittedStatus(trk.type[op[r].task], op[r].passed) \in SubmissionStatuses
    BY <2>1
  <2> QED
    BY <1>1, <1>2, <2>2
<1>3. CASE lastSub' = [lastSub EXCEPT ![op[r].task] =
                         Flushed(@, read[r].sub, ReviewedStatus(op[r].decision))]
  <2>1. ReviewedStatus(op[r].decision) \in SubmissionStatuses
    BY DEF ReviewedStatus, SubmissionStatuses
  <2>2. Flushed(lastSub[op[r].task], read[r].sub, ReviewedStatus(op[r].decision)) \in SubmissionStatuses
    BY <1>1, <2>1 DEF Flushed
  <2> QED
    BY <1>1, <1>3, <2>2
<1>4. CASE UNCHANGED lastSub
  BY <1>1, <1>4
<1>5. \/ lastSub' = [lastSub EXCEPT ![op[r].task] =
                       SubmittedStatus(trk.type[op[r].task], op[r].passed)]
      \/ lastSub' = [lastSub EXCEPT ![op[r].task] =
                       Flushed(@, read[r].sub, ReviewedStatus(op[r].decision))]
      \/ UNCHANGED lastSub
  BY Zenon DEF FlushSubmission
<1> QED
  BY <1>2, <1>3, <1>4, <1>5

\* A commit stores rows, and turns a reservation into an attempt.
LEMMA CommitKeeps ==
  ASSUME IInv, NEW r \in Requests, Commit(r)
  PROVE  IInv'
<1>1. trk \in Tracks /\ Kept /\ Slots /\ Admitted
  BY DEF IInv
<1> DEFINE t     == op[r].task
           first == op[r].kind = "tick" /\ ~snap[r].saved[t]
<1>2. stage[r] = "prepared" /\ FlushRows(r) /\ FlushSubmission(r) /\ Leave(r) /\ UNCHANGED trk
  BY DEF Commit
<1>3. /\ attempts' = IF IsQuiz(r) THEN [attempts EXCEPT ![t] = @ + 1] ELSE attempts
      /\ saved' = IF first THEN [saved EXCEPT ![t] = TRUE] ELSE saved
      /\ checks' = IF first THEN [checks EXCEPT ![t] = Ticked(r)] ELSE checks
  BY DEF Commit
<1>4. t \in Tasks
  BY <1>1, <1>2 DEF Slots, Fits
<1>5. Kept'
  <2>1. /\ rows' \in [Tasks -> TaskRow] /\ status' \in AssignmentStatuses /\ percent' \in Nat
        /\ \A p \in Phases : phases'[p].status \in PhaseStatuses /\ phases'[p].percent \in Nat
    BY <1>1, <1>2, CommitRows
  <2>2. lastSub' \in [Tasks -> SubmissionStatuses]
    BY <1>1, <1>2, CommitSubmissions
  <2>3. attempts' \in [Tasks -> Nat]
    BY <1>1, <1>3, <1>4 DEF Kept
  <2>4. saved' \in [Tasks -> BOOLEAN]
    BY <1>1, <1>3, <1>4 DEF Kept
  <2>5. checks' \in [Tasks -> SUBSET Items]
    <3>1. CASE first
      BY <1>1, <1>2, <1>3, <1>4, <3>1, TickedType DEF Kept
    <3>2. CASE ~first
      BY <1>1, <1>3, <3>2 DEF Kept
    <3> QED
      BY <3>1, <3>2
  <2> QED
    BY <2>1, <2>2, <2>3, <2>4, <2>5 DEF Kept
<1>6. /\ Slots' /\ stage'[r] = "idle"
      /\ \A q \in Requests \ {r} : stage'[q] = stage[q] /\ op'[q] = op[q]
  BY <1>1, <1>2, LeaveSlots
<1>7. ASSUME NEW u \in Tasks, trk.type[u] = "quiz" PROVE Within(u)'
  <2>1. Taking(u)' \subseteq Taking(u) \ {r}
    BY <1>2, <1>6 DEF Taking, IsQuiz
  <2>2. Within(u) /\ attempts[u] \in Nat
    BY <1>1, <1>7 DEF Admitted, Kept
  <2>3. Taking(u) \in SUBSET Requests
    BY Reservations
  <2> DEFINE c  == Cardinality(Taking(u))
             c1 == Cardinality(Taking(u)')
  <2>4. c \in Nat /\ c1 \in Nat /\ c1 <= c
    BY <2>1, <2>3, SomeRequests
  <2>5. attempts'[u] \in Nat /\ attempts'[u] + c1 <= attempts[u] + c
    <3>1. CASE IsQuiz(r) /\ u = t
      <4>1. r \in Taking(u)
        BY <1>2, <3>1 DEF Taking
      <4>2. Cardinality(Taking(u) \ {r}) = c - 1
        BY <2>3, <4>1, SomeRequests
      <4>3. c1 <= Cardinality(Taking(u) \ {r})
        <5>1. Taking(u) \ {r} \in SUBSET Requests /\ Taking(u)' \in SUBSET (Taking(u) \ {r})
          BY <2>1, <2>3
        <5> QED
          BY <5>1, SomeRequests
      <4>4. attempts'[u] = attempts[u] + 1
        BY <1>1, <1>3, <1>4, <3>1 DEF Kept
      <4> HIDE DEF c, c1
      <4> QED
        BY <2>2, <2>4, <4>2, <4>3, <4>4
    <3>2. CASE ~(IsQuiz(r) /\ u = t)
      <4>1. attempts'[u] = attempts[u]
        BY <1>1, <1>3, <3>2 DEF Kept
      <4> HIDE DEF c, c1
      <4> QED
        BY <2>2, <2>4, <4>1
    <3> QED
      BY <3>1, <3>2
  <2> QED
    BY <1>1, <1>2, <2>2, <2>5, WithinKept
<1>8. Admitted'
  BY <1>2, <1>7 DEF Admitted
<1> QED
  BY <1>1, <1>2, <1>5, <1>6, <1>8 DEF IInv

-----------------------------------------------------------------------------
(* The invariant. *)

\* Neither a day nor a stutter changes what the invariant speaks of.
LEMMA IdleKeeps ==
  ASSUME IInv, UNCHANGED <<trk, rows, lastSub, attempts, saved, checks, status, percent, phases>>,
         UNCHANGED flight
  PROVE  IInv'
<1>1. trk \in Tracks /\ Kept /\ Slots /\ Admitted
  BY DEF IInv
<1>2. UNCHANGED <<op, stage, snap, older>>
  BY DEF flight
<1>3. Kept'
  BY <1>1 DEF Kept
<1>4. Slots'
  BY <1>1, <1>2 DEF Slots
<1>5. \A t \in Tasks : Taking(t)' \subseteq Taking(t)
  BY <1>2 DEF Taking, IsQuiz
<1>6. Admitted'
  BY <1>1, <1>5, NoneTaken
<1> QED
  BY <1>1, <1>3, <1>4, <1>6 DEF IInv

\* A new assignment.
LEMMA InitHolds == RInit => IInv
<1> SUFFICES ASSUME RInit PROVE IInv
  OBVIOUS
<1> DEFINE fresh == [t \in Tasks |-> FreshRow]
<1>1. trk \in Tracks /\ rows = RefreshedRows(trk, fresh, today)
  BY DEF RInit
<1>2. fresh \in [Tasks -> TaskRow]
  BY DEF FreshRow, TaskRow, TaskStatuses
<1> HIDE DEF fresh
<1>3. rows \in [Tasks -> TaskRow]
  BY <1>1, <1>2, RefreshedType
<1>4. status \in AssignmentStatuses
  BY StatusOfCases DEF RInit
<1>5. percent \in Nat /\ \A p \in Phases : phases[p].status \in PhaseStatuses /\ phases[p].percent \in Nat
  <2>1. percent = Sum(rows, Tasks)
    BY DEF RInit
  <2>2. \A p \in Phases : /\ phases[p].status = PhaseStatus(rows, p)
                          /\ phases[p].percent = PhasePercent(rows, p)
    BY DEF RInit
  <2>3. \A p : PhaseStatus(rows, p) \in PhaseStatuses
    BY PhaseOfCases DEF PhaseStatus
  <2>4. Sum(rows, Tasks) \in Nat /\ \A p : PhasePercent(rows, p) \in Nat
    BY <1>3, SumOfRows DEF PhasePercent
  <2> QED
    BY <2>1, <2>2, <2>3, <2>4
<1>6. /\ lastSub = [t \in Tasks |-> "none"] /\ attempts = [t \in Tasks |-> 0]
      /\ saved = [t \in Tasks |-> FALSE] /\ checks = [t \in Tasks |-> {}]
  BY DEF RInit
<1>7. Kept
  <2>1. lastSub \in [Tasks -> SubmissionStatuses] /\ attempts \in [Tasks -> Nat]
    BY <1>6 DEF SubmissionStatuses
  <2>2. saved \in [Tasks -> BOOLEAN] /\ checks \in [Tasks -> SUBSET Items]
    BY <1>6
  <2> QED
    BY <1>3, <1>4, <1>5, <2>1, <2>2 DEF Kept
<1>8. /\ op = [r \in Requests |-> NoOp] /\ stage = [r \in Requests |-> "idle"]
      /\ snap = [r \in Requests |-> NoOp] /\ older = [r \in Requests |-> {}]
  BY DEF RInit
<1>9. Slots
  BY <1>8 DEF Slots
<1>10. Admitted
  <2>1. ASSUME NEW t \in Tasks PROVE Within(t)
    <3>1. Taking(t) = {}
      BY <1>8 DEF Taking
    <3>2. attempts[t] + Cardinality(Taking(t)) = 0
      BY <1>6, <3>1, FS_EmptySet
    <3> QED
      BY <3>2 DEF Within
  <2> QED
    BY <2>1 DEF Admitted
<1> QED
  BY <1>1, <1>7, <1>9, <1>10 DEF IInv

\* Every step, request by request.
LEMMA StepKeeps == IInv /\ [RNext]_rvars => IInv'
<1> SUFFICES ASSUME IInv, [RNext]_rvars PROVE IInv'
  OBVIOUS
<1>1. ASSUME NEW r \in Requests, Begin(r) PROVE IInv'
  BY <1>1, BeginKeeps
<1>2. ASSUME NEW r \in Requests, Load(r) PROVE IInv'
  BY <1>2, LoadKeeps
<1>3. ASSUME NEW r \in Requests, Prepare(r) PROVE IInv'
  BY <1>3, PrepareKeeps
<1>4. ASSUME NEW r \in Requests, Commit(r) PROVE IInv'
  BY <1>4, CommitKeeps
<1>5. CASE NextDay
  BY <1>5, IdleKeeps DEF NextDay
<1>6. CASE UNCHANGED rvars
  BY <1>6, IdleKeeps DEF rvars, stored
<1> QED
  BY <1>1, <1>2, <1>3, <1>4, <1>5, <1>6 DEF RNext

\* What every behaviour keeps: the rows are rows, each slot holds what its stage needs, and
\* the attempts recorded or about to be stay within the bound.
THEOREM RequestsAlwaysCoherent == RSpec => []IInv
<1> QED
  BY InitHolds, StepKeeps, PTL DEF RSpec

\* However requests overlap, what a commit merges is a row: every value is one the code can
\* store, and a slot is free exactly when it is no request's (ProgressRequests.TypeOK).
THEOREM TypeCorrect == RSpec => []TypeOK
<1>1. IInv => TypeOK
  BY DEF IInv, Kept, Slots, TypeOK
<1> QED
  BY <1>1, RequestsAlwaysCoherent, PTL

\* Overlapping submissions of a quiz pass its limit by less than the number of requests, for
\* every limit and every number of them (ProgressRequests.AttemptsBounded).
THEOREM AttemptsAlwaysBounded == RSpec => []AttemptsBounded
<1>1. IInv => AttemptsBounded
  <2> SUFFICES ASSUME IInv, NEW t \in Tasks, trk.type[t] = "quiz", attempts[t] # 0
               PROVE  attempts[t] < AttemptLimit(t) + Cardinality(Requests)
    BY DEF AttemptsBounded
  <2>1. trk \in Tracks /\ attempts[t] \in Nat /\ Within(t)
    BY DEF IInv, Kept, Admitted
  <2>2. AttemptLimit(t) \in Int
    BY <2>1, ShapeType
  <2>3. Cardinality(Taking(t)) \in Nat /\ Cardinality(Requests) \in Nat
    BY Reservations, SomeRequests
  <2> QED
    BY <2>1, <2>2, <2>3 DEF Within
<1> QED
  BY <1>1, RequestsAlwaysCoherent, PTL

-----------------------------------------------------------------------------
(* The commit that nobody disturbed. *)

\* It writes what it has computed.
LEMMA UndisturbedFlush ==
  ASSUME IInv, NEW r \in Requests, Commit(r), snap[r] = Everything
  PROVE  /\ New(r) \in [Tasks -> TaskRow] /\ MarkNext(New(r)) = New(r)
         /\ New(r) = RefreshedRows(trk, [rows EXCEPT ![op[r].task] = Handled(r)], today)
         /\ rows' = New(r) /\ status' = StatusOf(trk, New(r)) /\ percent' = Sum(New(r), Tasks)
         /\ phases' = [p \in Phases |-> [status  |-> PhaseStatus(New(r), p),
                                       percent |-> PhasePercent(New(r), p)]]
<1>1. trk \in Tracks /\ Kept /\ Slots /\ stage[r] = "prepared" /\ FlushRows(r)
  BY DEF IInv, Commit
<1>2. /\ snap[r].rows = rows /\ snap[r].status = status /\ snap[r].percent = percent
      /\ snap[r].phases = phases
  BY DEF Everything
<1> DEFINE new == New(r)
           mark(u) == u = op[r].task /\ Handled(r).status = "completed"
<1>3. /\ new \in [Tasks -> TaskRow] /\ rows \in [Tasks -> TaskRow] /\ MarkNext(new) = new
      /\ \A u \in Tasks : mark(u) => new[u].completedAt = TRUE
  BY <1>1, NewRows DEF Kept
<1>4. \A x, y : Flushed(x, x, y) = y
  BY DEF Flushed
<1>5. /\ rows' = [u \in Tasks |-> FlushedRow(rows[u], rows[u], new[u], mark(u))]
      /\ status' = Flushed(status, status, StatusOf(trk, new))
      /\ percent' = Flushed(percent, percent, Sum(new, Tasks))
      /\ phases' = [p \in Phases |->
           [status  |-> Flushed(phases[p].status, phases[p].status, PhaseStatus(new, p)),
            percent |-> Flushed(phases[p].percent, phases[p].percent, PhasePercent(new, p))]]
  BY <1>1, <1>2 DEF FlushRows, New
<1>6. rows' = new
  <2>1. ASSUME NEW u \in Tasks PROVE FlushedRow(rows[u], rows[u], new[u], mark(u)) = new[u]
    <3>1. rows[u] \in TaskRow /\ new[u] \in TaskRow /\ mark(u) \in BOOLEAN
      BY <1>3
    <3>2. mark(u) => new[u].completedAt = TRUE
      BY <1>3
    <3> HIDE DEF new, mark
    <3> QED
      BY <3>1, <3>2, FlushedUnchanged
  <2> HIDE DEF new, mark
  <2>2. rows' = [u \in Tasks |-> new[u]]
    BY <1>5, <2>1
  <2> QED
    BY <1>3, <2>2
<1>7. new = RefreshedRows(trk, [rows EXCEPT ![op[r].task] = Handled(r)], today)
  BY <1>2 DEF New
<1> HIDE DEF new, mark
<1>8. status' = StatusOf(trk, new) /\ percent' = Sum(new, Tasks)
  BY <1>4, <1>5
<1>9. phases' = [p \in Phases |-> [status |-> PhaseStatus(new, p), percent |-> PhasePercent(new, p)]]
  BY <1>4, <1>5
<1> QED
  BY <1>3, <1>6, <1>7, <1>8, <1>9 DEF new

\* So the stored rows imply all that is derived from them.
LEMMA UndisturbedCommit ==
  ASSUME IInv, NEW r \in Requests, Commit(r), snap[r] = Everything
  PROVE  DerivedFromRows'
<1> DEFINE new == New(r)
<1>1. UNCHANGED trk
  BY DEF Commit
<1>2. /\ MarkNext(new) = new /\ rows' = new
      /\ status' = StatusOf(trk, new) /\ percent' = Sum(new, Tasks)
      /\ \A p \in Phases :
           phases'[p] = [status |-> PhaseStatus(new, p), percent |-> PhasePercent(new, p)]
  BY UndisturbedFlush
<1> HIDE DEF new
<1>3. Sum(rows, Tasks)' = Sum(new, Tasks)
  BY <1>1, <1>2 DEF Sum
<1>4. \A p : PhaseStatus(rows, p)' = PhaseStatus(new, p) /\ PhasePercent(rows, p)' = PhasePercent(new, p)
  BY <1>1, <1>2 DEF PhaseStatus, PhasePercent, Sum
<1>5. MarkNext(rows)' = new /\ StatusOf(trk, rows)' = StatusOf(trk, new)
  BY <1>1, <1>2
<1> QED
  BY <1>2, <1>3, <1>4, <1>5 DEF DerivedFromRows

\* A request that read the latest rows and met nobody repairs what overlapping requests left:
\* the recommendation, the statuses and the percentages are those of the stored tasks
\* (ProgressRequests.UndisturbedCommitRepairs).
THEOREM UndisturbedCommitsRepair == RSpec => UndisturbedCommitRepairs
<1>1. ASSUME IInv, [RNext]_rvars
      PROVE  [\A r \in Requests : Commit(r) /\ snap[r] = Everything => DerivedFromRows']_rvars
  BY <1>1, UndisturbedCommit
<1> QED
  BY <1>1, RequestsAlwaysCoherent, PTL DEF RSpec, UndisturbedCommitRepairs

-----------------------------------------------------------------------------
(* The refinement.  The operators of AssignmentProgress are those of AssignmentRows. *)

\* The refresh is the same.
LEMMA SameRefresh ==
  /\ Serial!Tasks = Tasks
  /\ \A tr, rs, day : Serial!RefreshedRows(tr, rs, day) = RefreshedRows(tr, rs, day)
<1>1. Serial!Tasks = Tasks
  BY DEF Serial!Tasks, Tasks
<1>2. \A tr, t, day : Serial!PastDue(tr, t, day) <=> PastDue(tr, t, day)
  BY DEF Serial!PastDue, PastDue, Serial!NoDate, NoDate
<1>3. \A tr, rs, day : Serial!MarkOverdue(tr, rs, day) = MarkOverdue(tr, rs, day)
  BY <1>1, <1>2 DEF Serial!MarkOverdue, MarkOverdue
<1>4. \A row : Serial!Open(row) <=> Open(row)
  BY DEF Serial!Open, Open
<1>5. \A rs : Serial!MarkNext(rs) = MarkNext(rs)
  BY <1>1, <1>4 DEF Serial!MarkNext, MarkNext
<1> QED
  BY <1>1, <1>3, <1>5 DEF Serial!RefreshedRows, RefreshedRows

\* So is what is derived from the rows.
LEMMA SameDerived ==
  /\ \A tr, rs : Serial!AssignmentOf(tr, rs) = AssignmentOf(tr, rs)
  /\ \A tr, rs, p : Serial!PhaseOf(tr, rs, p) = PhaseOf(tr, rs, p)
<1>1. /\ Serial!Tasks = Tasks
      /\ \A tr : Serial!RequiredTasks(tr) = RequiredTasks(tr)
      /\ \A tr, p : Serial!TasksOf(tr, p) = TasksOf(tr, p)
      /\ \A row : Serial!Begun(row) <=> Begun(row)
  BY DEF Serial!Tasks, Tasks, Serial!RequiredTasks, RequiredTasks, Serial!TasksOf, TasksOf,
         Serial!Begun, Begun
<1>2. \A tr, rs, S : Serial!MeanIsFull(tr, rs, S) <=> MeanIsFull(tr, rs, S)
  BY <1>1 DEF Serial!MeanIsFull, MeanIsFull
<1>3. \A tr, rs : Serial!StatusOf(tr, rs) = StatusOf(tr, rs)
  BY <1>1 DEF Serial!StatusOf, StatusOf
<1>4. \A tr, rs : Serial!AssignmentOf(tr, rs) = AssignmentOf(tr, rs)
  BY <1>1, <1>2, <1>3 DEF Serial!AssignmentOf, AssignmentOf
<1>5. \A tr, rs, p : Serial!PhaseOf(tr, rs, p) = PhaseOf(tr, rs, p)
  BY <1>1, <1>2 DEF Serial!PhaseOf, PhaseOf
<1> QED
  BY <1>4, <1>5

\* So are the handlers.
LEMMA SameHandlers ==
  /\ Serial!Decisions = Decisions
  /\ \A type, row, passed : Serial!SubmittedRow(type, row, passed) = SubmittedRow(type, row, passed)
  /\ \A type, passed : Serial!SubmittedStatus(type, passed) = SubmittedStatus(type, passed)
  /\ \A must, row, ids : Serial!ChecklistRow(must, row, ids) = ChecklistRow(must, row, ids)
  /\ \A row, decision : Serial!ReviewedRow(row, decision) = ReviewedRow(row, decision)
  /\ \A decision : Serial!ReviewedStatus(decision) = ReviewedStatus(decision)
  /\ \A row, passed : Serial!ScoredRow(row, passed) = ScoredRow(row, passed)
  /\ \A t : Serial!AttemptLimit(t) = AttemptLimit(t)
<1>1. /\ \A row : Serial!Completed(row) = Completed(row)
      /\ \A row, s, p : Serial!Moved(row, s, p) = Moved(row, s, p)
      /\ \A row, s, p : Serial!Reopened(row, s, p) = Reopened(row, s, p)
      /\ \A a, b : Serial!Percentage(a, b) = Percentage(a, b)
  <2>1. \A row : Serial!Completed(row) = Completed(row)
    BY DEF Serial!Completed, Completed
  <2>2. \A row, s, p : Serial!Moved(row, s, p) = Moved(row, s, p)
    BY DEF Serial!Moved, Moved
  <2>3. \A row, s, p : Serial!Reopened(row, s, p) = Reopened(row, s, p)
    BY DEF Serial!Reopened, Reopened
  <2>4. \A a, b : Serial!Percentage(a, b) = Percentage(a, b)
    BY Zenon DEF Serial!Percentage, Percentage, Serial!Cardinality, Cardinality
  <2> QED
    BY <2>1, <2>2, <2>3, <2>4
<1>2. Serial!Decisions = Decisions
  BY DEF Serial!Decisions, Decisions
<1>3. \A type, row, passed : Serial!SubmittedRow(type, row, passed) = SubmittedRow(type, row, passed)
  BY <1>1, Zenon DEF Serial!SubmittedRow, SubmittedRow
<1>4. \A type, passed : Serial!SubmittedStatus(type, passed) = SubmittedStatus(type, passed)
  BY Zenon DEF Serial!SubmittedStatus, SubmittedStatus
<1>5. \A must, row, ids : Serial!ChecklistRow(must, row, ids) = ChecklistRow(must, row, ids)
  BY <1>1, Zenon DEF Serial!ChecklistRow, ChecklistRow
<1>6. \A row, decision : Serial!ReviewedRow(row, decision) = ReviewedRow(row, decision)
  BY <1>1, Zenon DEF Serial!ReviewedRow, ReviewedRow
<1>7. \A decision : Serial!ReviewedStatus(decision) = ReviewedStatus(decision)
  BY Zenon DEF Serial!ReviewedStatus, ReviewedStatus
<1>8. \A row, passed : Serial!ScoredRow(row, passed) = ScoredRow(row, passed)
  BY <1>1, Zenon DEF Serial!ScoredRow, ScoredRow
<1>9. \A t : Serial!AttemptLimit(t) = AttemptLimit(t)
  BY Zenon DEF Serial!AttemptLimit, AttemptLimit, Serial!NoLimit, NoLimit
<1> QED
  BY <1>2, <1>3, <1>4, <1>5, <1>6, <1>7, <1>8, <1>9

-----------------------------------------------------------------------------
(* A request that is alone. *)

Alone == \A q, r \in Requests : q = r

\* A lone request works with the rows as they are stored.
Lone ==
  /\ DOMAIN read = Requests /\ DOMAIN overtaken = Requests
  /\ \A r \in Requests :
       /\ overtaken[r] = FALSE
       /\ stage[r] # "idle" => Asked(op[r])
       /\ stage[r] = "begun" => snap[r] = NoOp \/ snap[r].row = rows[op[r].task]
       /\ stage[r] \in {"loaded", "prepared"} => snap[r] = Everything
       /\ stage[r] = "prepared" /\ IsQuiz(r) => attempts[op[r].task] < AttemptLimit(op[r].task)
       /\ stage[r] = "prepared" /\ op[r].kind = "review" =>
            read[r].sub = lastSub[op[r].task] /\ read[r].latest = TRUE

\* No request has begun.
LEMMA LoneInit == RInit => Lone
<1> SUFFICES ASSUME RInit PROVE Lone
  OBVIOUS
<1>1. /\ stage = [r \in Requests |-> "idle"] /\ read = [r \in Requests |-> NoOp]
      /\ overtaken = [r \in Requests |-> FALSE]
  BY DEF RInit
<1> QED
  BY <1>1 DEF Lone

\* One begins.
LEMMA LoneBegin ==
  ASSUME IInv, Lone, Alone, NEW r \in Requests, Begin(r)
  PROVE  Lone'
<1>1. PICK o \in Operations : op' = [op EXCEPT ![r] = o]
  BY DEF Begin
<1>2. /\ stage[r] = "idle" /\ stage' = [stage EXCEPT ![r] = "begun"]
      /\ UNCHANGED <<trk, snap, read, overtaken>>
  BY DEF Begin, stored
<1>3. Slots /\ \A q \in Requests : q = r
  BY DEF IInv, Alone
<1>4. op'[r] = o /\ stage'[r] = "begun" /\ snap[r] = NoOp
  BY <1>1, <1>2, <1>3 DEF Slots
<1>5. Asked(o)
  BY OperationAsked
<1>6. Asked(op[r])'
  BY <1>2, <1>4, <1>5 DEF Asked
<1> QED
  BY <1>2, <1>3, <1>4, <1>6 DEF Lone

\* It loads what is stored.
LEMMA LoneLoad ==
  ASSUME IInv, Lone, Alone, NEW r \in Requests, Load(r)
  PROVE  Lone'
<1>1. /\ stage[r] = "begun" /\ UNCHANGED <<stored, op, read, overtaken>>
  BY DEF Load
<1>2. /\ UNCHANGED <<trk, rows, status, percent, phases, saved, checks, attempts, lastSub>>
  BY <1>1 DEF stored
<1>3. Kept /\ Slots /\ \A q \in Requests : q = r
  BY DEF IInv, Alone
<1>4. Asked(op[r]) /\ Asked(op[r])'
  BY <1>1, <1>2 DEF Lone, Asked
<1>5. Everything' = Everything
  BY <1>2 DEF Everything
<1>6. CASE op[r].kind = "score" /\ snap[r] = NoOp
  <2>1. snap' = [snap EXCEPT ![r] = [row |-> rows[op[r].task]]] /\ stage' = stage
    BY <1>6 DEF Load
  <2>2. snap'[r].row = rows[op[r].task]
    BY <1>3, <2>1 DEF Slots
  <2> QED
    BY <1>1, <1>2, <1>3, <1>4, <2>1, <2>2 DEF Lone
<1>7. CASE ~(op[r].kind = "score" /\ snap[r] = NoOp)
  <2> DEFINE got == IF op[r].kind = "score"
                    THEN [Everything EXCEPT !.rows[op[r].task] = snap[r].row] ELSE Everything
  <2>1. snap' = [snap EXCEPT ![r] = got] /\ stage' = [stage EXCEPT ![r] = "loaded"]
    BY <1>7 DEF Load
  <2>2. got = Everything
    <3>1. CASE op[r].kind = "score"
      <4>1. snap[r].row = rows[op[r].task]
        BY <1>1, <1>7, <3>1 DEF Lone
      <4>2. rows \in [Tasks -> TaskRow] /\ op[r].task \in Tasks
        BY <1>3, <1>4 DEF Kept, Asked
      <4>3. [rows EXCEPT ![op[r].task] = rows[op[r].task]] = rows
        BY <4>2
      <4>4. [Everything EXCEPT !.rows[op[r].task] = rows[op[r].task]] =
              [Everything EXCEPT !.rows = [rows EXCEPT ![op[r].task] = rows[op[r].task]]]
        BY DEF Everything
      <4>5. [Everything EXCEPT !.rows = rows] = Everything
        BY DEF Everything
      <4> QED
        BY <3>1, <4>1, <4>3, <4>4, <4>5
    <3>2. CASE op[r].kind # "score"
      BY <3>2
    <3> QED
      BY <3>1, <3>2
  <2> HIDE DEF got
  <2>3. snap'[r] = Everything' /\ stage'[r] = "loaded"
    BY <1>3, <1>5, <2>1, <2>2 DEF Slots
  <2> QED
    BY <1>1, <1>3, <1>4, <2>3 DEF Lone
<1> QED
  BY <1>6, <1>7

\* It reads what is stored.
LEMMA LonePrepare ==
  ASSUME IInv, Lone, Alone, NEW r \in Requests, Prepare(r)
  PROVE  Lone'
<1>1. /\ stage[r] = "loaded" /\ UNCHANGED <<trk, rows, status, percent, phases, saved, checks, attempts, lastSub>>
  BY DEF Prepare, stored
<1>2. trk \in Tracks /\ Kept /\ Slots /\ \A q \in Requests : q = r
  BY DEF IInv, Alone
<1>3. CASE OutOfAttempts(r) /\ Leave(r) /\ read' = [read EXCEPT ![r] = NoOp]
           /\ overtaken' = [overtaken EXCEPT ![r] = FALSE]
  <2>1. stage'[r] = "idle"
    BY <1>1, <1>2, <1>3, LeaveSlots
  <2> QED
    BY <1>2, <1>3, <2>1 DEF Lone
<1>4. CASE /\ ~OutOfAttempts(r) /\ stage' = [stage EXCEPT ![r] = "prepared"]
           /\ read' = [read EXCEPT ![r] =
                IF op[r].kind = "review" THEN [sub |-> lastSub[op[r].task], latest |-> TRUE] ELSE NoOp]
           /\ UNCHANGED <<op, snap, overtaken>>
  <2>1. stage'[r] = "prepared"
    BY <1>2, <1>4 DEF Slots
  <2>2. op[r].kind = "review" => read'[r].sub = lastSub[op[r].task] /\ read'[r].latest = TRUE
    BY <1>4 DEF Lone
  <2>3. Asked(op[r]) /\ Asked(op[r])'
    BY <1>1, <1>4 DEF Lone, Asked
  <2>4. Everything' = snap'[r]
    BY <1>1, <1>4 DEF Everything, Lone
  <2>5. IsQuiz(r)' => attempts'[op'[r].task] < AttemptLimit(op[r].task)'
    <3>1. AttemptLimit(op[r].task) \in Int /\ attempts[op[r].task] \in Nat
      BY <1>2, <2>3, ShapeType DEF Asked, Kept
    <3>2. AttemptLimit(op[r].task)' = AttemptLimit(op[r].task) /\ (IsQuiz(r)' <=> IsQuiz(r))
      BY <1>1, <1>4 DEF AttemptLimit, IsQuiz
    <3> QED
      BY <1>1, <1>4, <3>1, <3>2 DEF OutOfAttempts
  <2> QED
    BY <1>1, <1>2, <1>4, <2>1, <2>2, <2>3, <2>4, <2>5 DEF Lone
<1> QED
  BY <1>3, <1>4 DEF Prepare

\* It leaves.
LEMMA LoneCommit ==
  ASSUME IInv, Lone, Alone, NEW r \in Requests, Commit(r)
  PROVE  Lone'
<1>1. Slots /\ Leave(r) /\ UNCHANGED trk /\ \A q \in Requests : q = r
  BY DEF IInv, Alone, Commit
<1>2. stage'[r] = "idle"
  BY <1>1, LeaveSlots
<1>3. DOMAIN overtaken' = Requests /\ DOMAIN read' = Requests
  BY DEF Commit, Overtake
<1>4. overtaken'[r] = FALSE
  BY DEF Commit, Overtake
<1> QED
  BY <1>1, <1>2, <1>3, <1>4 DEF Lone

\* Nothing changes the rows under a lone request.
LEMMA LoneKept == IInv /\ Lone /\ Alone /\ [RNext]_rvars => Lone'
<1> SUFFICES ASSUME IInv, Lone, Alone, [RNext]_rvars PROVE Lone'
  OBVIOUS
<1>1. ASSUME NEW r \in Requests, Begin(r) \/ Load(r) \/ Prepare(r) \/ Commit(r) PROVE Lone'
  BY <1>1, LoneBegin, LoneLoad, LonePrepare, LoneCommit
<1>2. CASE NextDay \/ UNCHANGED rvars
  <2>1. UNCHANGED <<trk, rows, lastSub, attempts, saved, checks, status, percent, phases, flight>>
    BY <1>2 DEF NextDay, rvars, stored
  <2>2. Everything' = Everything /\ \A r : IsQuiz(r)' <=> IsQuiz(r)
    BY <2>1 DEF Everything, IsQuiz, flight
  <2>3. \A t : AttemptLimit(t)' = AttemptLimit(t)
    BY <2>1 DEF AttemptLimit
  <2>4. \A r : Asked(op[r])' <=> Asked(op[r])
    BY <2>1 DEF Asked, flight
  <2> QED
    BY <2>1, <2>2, <2>3, <2>4 DEF Lone, flight
<1> QED
  BY <1>1, <1>2 DEF RNext

-----------------------------------------------------------------------------
(* Its steps are the handlers of AssignmentProgress. *)

\* The percentages of AssignmentProgress, from the sums.
LEMMA MappedDerived ==
  ASSUME NEW rs \in [Tasks -> TaskRow]
  PROVE  /\ [status |-> StatusOf(trk, rs),
             full   |-> Sum(rs, Tasks) = 100 * Cardinality(RequiredTasks(trk))] = AssignmentOf(trk, rs)
         /\ \A p : [status |-> PhaseStatus(rs, p),
                    full   |-> /\ TasksOf(trk, p) # {}
                               /\ PhasePercent(rs, p) =
                                    100 * Cardinality(TasksOf(trk, p) \cap RequiredTasks(trk))]
                   = PhaseOf(trk, rs, p)
<1>1. Tasks \cap RequiredTasks(trk) = RequiredTasks(trk)
  BY DEF RequiredTasks
<1>2. ASSUME NEW S PROVE Sum(rs, S) = 100 * Cardinality(S \cap RequiredTasks(trk)) <=> MeanIsFull(trk, rs, S)
  BY SumOfRows
<1>3. (Sum(rs, Tasks) = 100 * Cardinality(RequiredTasks(trk))) = MeanIsFull(trk, rs, Tasks)
  <2>1. Sum(rs, Tasks) = 100 * Cardinality(RequiredTasks(trk)) <=> MeanIsFull(trk, rs, Tasks)
    BY <1>1, <1>2
  <2>2. MeanIsFull(trk, rs, Tasks) \in BOOLEAN
    BY DEF MeanIsFull
  <2> QED
    BY <2>1, <2>2
<1>4. ASSUME NEW p
      PROVE  (TasksOf(trk, p) # {} /\ PhasePercent(rs, p) = 100 * Cardinality(TasksOf(trk, p) \cap RequiredTasks(trk)))
             = (TasksOf(trk, p) # {} /\ MeanIsFull(trk, rs, TasksOf(trk, p)))
  <2>1. PhasePercent(rs, p) = 100 * Cardinality(TasksOf(trk, p) \cap RequiredTasks(trk))
          <=> MeanIsFull(trk, rs, TasksOf(trk, p))
    BY <1>2 DEF PhasePercent
  <2>2. MeanIsFull(trk, rs, TasksOf(trk, p)) \in BOOLEAN
    BY DEF MeanIsFull
  <2> QED
    BY <2>1, <2>2
<1>5. AssignmentOf(trk, rs) = [status |-> StatusOf(trk, rs), full |-> MeanIsFull(trk, rs, Tasks)]
  BY DEF AssignmentOf
<1>6. ASSUME NEW p
      PROVE  PhaseOf(trk, rs, p) =
               [status |-> PhaseStatus(rs, p),
                full   |-> TasksOf(trk, p) # {} /\ MeanIsFull(trk, rs, TasksOf(trk, p))]
  BY DEF PhaseOf, PhaseStatus
<1> QED
  BY <1>3, <1>4, <1>5, <1>6

\* What a lone commit stores is what a handler stores.
LEMMA MappedStore ==
  ASSUME UNCHANGED trk, rows' \in [Tasks -> TaskRow],
         status' = StatusOf(trk, rows'), percent' = Sum(rows', Tasks),
         phases' = [p \in Phases |-> [status  |-> PhaseStatus(rows', p),
                                      percent |-> PhasePercent(rows', p)]]
  PROVE  /\ [status |-> status', full |-> percent' = 100 * Cardinality(RequiredTasks(trk'))]
              = Serial!AssignmentOf(trk, rows')
         /\ [p \in Phases |->
               [status |-> phases'[p].status,
                full   |-> /\ TasksOf(trk', p) # {}
                           /\ phases'[p].percent =
                                100 * Cardinality(TasksOf(trk', p) \cap RequiredTasks(trk'))]]
              = [p \in Phases |-> Serial!PhaseOf(trk, rows', p)]
<1> DEFINE rs == rows'
<1>1. rs \in [Tasks -> TaskRow]
  OBVIOUS
<1>2. [status |-> status', full |-> percent' = 100 * Cardinality(RequiredTasks(trk'))] = AssignmentOf(trk, rs)
  <2> HIDE DEF rs
  <2>1. [status |-> StatusOf(trk, rs),
         full   |-> Sum(rs, Tasks) = 100 * Cardinality(RequiredTasks(trk))] = AssignmentOf(trk, rs)
    BY <1>1, MappedDerived
  <2> QED
    BY <2>1 DEF rs
<1>3. ASSUME NEW p \in Phases
      PROVE  [status |-> phases'[p].status,
              full   |-> /\ TasksOf(trk', p) # {}
                         /\ phases'[p].percent =
                              100 * Cardinality(TasksOf(trk', p) \cap RequiredTasks(trk'))]
             = PhaseOf(trk, rs, p)
  <2>1. [status |-> PhaseStatus(rs, p),
         full   |-> /\ TasksOf(trk, p) # {}
                    /\ PhasePercent(rs, p) = 100 * Cardinality(TasksOf(trk, p) \cap RequiredTasks(trk))]
        = PhaseOf(trk, rs, p)
    <3> HIDE DEF rs
    <3> QED
      BY <1>1, MappedDerived
  <2>2. phases'[p].status = PhaseStatus(rs, p) /\ phases'[p].percent = PhasePercent(rs, p)
    OBVIOUS
  <2> HIDE DEF rs
  <2> QED
    BY <2>1, <2>2
<1>4. /\ Serial!AssignmentOf(trk, rs) = AssignmentOf(trk, rs)
      /\ \A p : Serial!PhaseOf(trk, rs, p) = PhaseOf(trk, rs, p)
  BY SameDerived
<1> QED
  BY <1>2, <1>3, <1>4, Zenon

\* A lone commit is a handler of AssignmentProgress.
LEMMA MappedCommit ==
  ASSUME IInv, Lone, NEW r \in Requests, Commit(r)
  PROVE  Serial!Next
<1>0. PICK o : o = op[r]
  OBVIOUS
<1> USE <1>0
<1> DEFINE t == o.task
           h == Handled(r)
<1>1. trk \in Tracks /\ Kept /\ Slots /\ stage[r] = "prepared" /\ FlushSubmission(r)
      /\ UNCHANGED <<trk, today>>
  BY DEF IInv, Commit
<1>2. /\ snap[r] = Everything /\ Asked(o) /\ overtaken[r] = FALSE /\ t \in Tasks
      /\ IsQuiz(r) => attempts[t] < AttemptLimit(t)
      /\ o.kind = "review" => read[r].sub = lastSub[t] /\ read[r].latest = TRUE
  BY <1>1 DEF Lone, Asked
<1>3. /\ snap[r].rows = rows /\ snap[r].checks = checks /\ snap[r].saved = saved
  BY <1>2 DEF Everything
<1>4. rows \in [Tasks -> TaskRow] /\ saved \in [Tasks -> BOOLEAN]
      /\ lastSub \in [Tasks -> SubmissionStatuses] /\ attempts \in [Tasks -> Nat]
      /\ checks \in [Tasks -> SUBSET Items]
  BY <1>1 DEF Kept
<1> DEFINE Stored(row) ==
  /\ rows' = Serial!RefreshedRows(trk, [rows EXCEPT ![t] = row], today)
  /\ [status |-> status', full |-> percent' = 100 * Cardinality(RequiredTasks(trk'))]
       = Serial!AssignmentOf(trk, rows')
  /\ [p \in Phases |->
        [status |-> phases'[p].status,
         full   |-> /\ TasksOf(trk', p) # {}
                    /\ phases'[p].percent =
                         100 * Cardinality(TasksOf(trk', p) \cap RequiredTasks(trk'))]]
       = [p \in Phases |-> Serial!PhaseOf(trk, rows', p)]
<1>5. Stored(h)
  <2> DEFINE new == New(r)
  <2>1. /\ new \in [Tasks -> TaskRow] /\ new = RefreshedRows(trk, [rows EXCEPT ![t] = h], today)
        /\ rows' = new /\ status' = StatusOf(trk, new) /\ percent' = Sum(new, Tasks)
        /\ phases' = [p \in Phases |-> [status |-> PhaseStatus(new, p), percent |-> PhasePercent(new, p)]]
    BY <1>2, UndisturbedFlush
  <2> HIDE DEF new, h
  <2>2. /\ rows' \in [Tasks -> TaskRow] /\ status' = StatusOf(trk, rows') /\ percent' = Sum(rows', Tasks)
        /\ phases' = [p \in Phases |-> [status  |-> PhaseStatus(rows', p),
                                        percent |-> PhasePercent(rows', p)]]
    BY <2>1
  <2>3. Serial!RefreshedRows(trk, [rows EXCEPT ![t] = h], today) = rows'
    BY <2>1, SameRefresh
  <2> QED
    BY <1>1, <2>2, <2>3, MappedStore
<1>6. /\ attempts' = IF IsQuiz(r) THEN [attempts EXCEPT ![t] = @ + 1] ELSE attempts
      /\ saved' = IF o.kind = "tick" /\ ~saved[t] THEN [saved EXCEPT ![t] = TRUE] ELSE saved
      /\ checks' = IF o.kind = "tick" /\ ~saved[t] THEN [checks EXCEPT ![t] = Ticked(r)] ELSE checks
  BY <1>3 DEF Commit
<1>7. Serial!Tasks = Tasks
  BY SameRefresh
<1>8. CASE o.kind = "submit" /\ trk.type[t] = "quiz"
  <2>1. h = SubmittedRow("quiz", rows[t], o.passed)
    BY <1>3, <1>8, Zenon DEF Handled
  <2>2. IsQuiz(r) /\ o.passed \in BOOLEAN
    BY <1>2, <1>8 DEF IsQuiz, Asked
  <2>3. lastSub' = [lastSub EXCEPT ![t] = SubmittedStatus("quiz", o.passed)]
    <3>1. ~overtaken[r]
      BY <1>2
    <3>2. lastSub' = [lastSub EXCEPT ![t] = SubmittedStatus(trk.type[t], o.passed)]
      BY <1>1, <1>8, <3>1, Zenon DEF FlushSubmission, Decides
    <3> QED
      BY <1>8, <3>2
  <2>4. attempts' = [attempts EXCEPT ![t] = @ + 1] /\ UNCHANGED <<saved, checks>>
    BY <1>6, <1>8, <2>2
  <2>5. Serial!SubmitQuiz(t, o.passed)
    <3>1. Serial!AttemptLimit(t) = AttemptLimit(t)
      BY SameHandlers
    <3>2. Serial!SubmittedRow("quiz", rows[t], o.passed) = SubmittedRow("quiz", rows[t], o.passed)
          /\ Serial!SubmittedStatus("quiz", o.passed) = SubmittedStatus("quiz", o.passed)
      BY SameHandlers
    <3>3. Stored(Serial!SubmittedRow("quiz", rows[t], o.passed))
      BY <1>5, <2>1, <3>2
    <3> HIDE DEF h
    <3> QED
      BY <1>1, <1>2, <1>8, <2>2, <2>3, <2>4, <3>1, <3>2, <3>3 DEF Serial!SubmitQuiz, Serial!Store
  <2> HIDE DEF t
  <2> QED
    BY <1>2, <1>7, <2>2, <2>5 DEF Serial!Next
<1>9. CASE o.kind = "submit" /\ trk.type[t] # "quiz"
  <2>1. o.passed = TRUE
    BY <1>2, <1>9 DEF Asked
  <2>2. h = SubmittedRow(trk.type[t], rows[t], TRUE)
    BY <1>3, <1>9, <2>1, Zenon DEF Handled
  <2>3. lastSub' = [lastSub EXCEPT ![t] = SubmittedStatus(trk.type[t], TRUE)]
    <3>1. ~overtaken[r]
      BY <1>2
    <3> QED
      BY <1>1, <1>9, <2>1, <3>1, Zenon DEF FlushSubmission, Decides
  <2>4. UNCHANGED <<attempts, saved, checks>>
    BY <1>6, <1>9 DEF IsQuiz
  <2>5. Serial!SubmitTask(t)
    <3>1. Serial!SubmittedRow(trk.type[t], rows[t], TRUE) = SubmittedRow(trk.type[t], rows[t], TRUE)
          /\ Serial!SubmittedStatus(trk.type[t], TRUE) = SubmittedStatus(trk.type[t], TRUE)
      BY SameHandlers
    <3>2. Stored(Serial!SubmittedRow(trk.type[t], rows[t], TRUE))
      BY <1>5, <2>2, <3>1
    <3> HIDE DEF h
    <3> QED
      BY <1>1, <1>9, <2>3, <2>4, <3>1, <3>2 DEF Serial!SubmitTask, Serial!Store
  <2> HIDE DEF t
  <2> QED
    BY <1>2, <1>7, <2>5 DEF Serial!Next
<1>10. CASE o.kind = "tick"
  <2>1. /\ o.checked \in BOOLEAN /\ trk.type[t] = "checklist" /\ o.item \in trk.must[t] \cup trk.may[t]
    BY <1>2, <1>10 DEF Asked
  <2>2. h = ChecklistRow(trk.must[t], rows[t], Ticked(r))
    BY <1>3, <1>10, Zenon DEF Handled
  <2>3. Serial!TickedItems(t, o.item, o.checked) = Ticked(r)
    BY <1>3, Zenon DEF Serial!TickedItems, Ticked
  <2>4. UNCHANGED <<lastSub, attempts>>
    <3>1. ~(o.kind = "submit" /\ ~overtaken[r]) /\ ~Decides(r)
      BY <1>10 DEF Decides
    <3>2. UNCHANGED lastSub
      BY <1>1, <3>1, Zenon DEF FlushSubmission
    <3> QED
      BY <1>6, <1>10, <3>2 DEF IsQuiz
  <2>5. saved' = [saved EXCEPT ![t] = TRUE]
    BY <1>2, <1>4, <1>6, <1>10
  <2>6. checks' = [checks EXCEPT ![t] = IF saved[t] THEN @ ELSE Ticked(r)]
    BY <1>2, <1>4, <1>6, <1>10
  <2>7. o.item \in Items
    <3>1. trk.must[t] \cup trk.may[t] \subseteq Items
      BY <1>1, <1>2, ShapeType
    <3> QED
      BY <2>1, <3>1
  <2>8. Serial!UpdateChecklistItem(t, o.item, o.checked)
    <3>1. Serial!ChecklistRow(trk.must[t], rows[t], Ticked(r)) = ChecklistRow(trk.must[t], rows[t], Ticked(r))
      BY SameHandlers
    <3>2. Stored(Serial!ChecklistRow(trk.must[t], rows[t], Serial!TickedItems(t, o.item, o.checked)))
      BY <1>5, <2>2, <2>3, <3>1
    <3> HIDE DEF h
    <3> QED
      BY <1>1, <2>1, <2>3, <2>4, <2>5, <2>6, <3>2 DEF Serial!UpdateChecklistItem, Serial!Store
  <2> HIDE DEF t
  <2> QED
    BY <1>2, <1>7, <2>1, <2>7, <2>8 DEF Serial!Next
<1>11. CASE o.kind = "review"
  <2>1. o.decision \in Decisions
    BY <1>2, <1>11 DEF Asked
  <2>2. h = ReviewedRow(rows[t], o.decision)
    BY <1>3, <1>11, Zenon DEF Handled
  <2>3. UNCHANGED <<attempts, saved, checks>>
    BY <1>6, <1>11 DEF IsQuiz
  <2>4. lastSub' = [lastSub EXCEPT ![t] = IF @ = "none" THEN "none" ELSE ReviewedStatus(o.decision)]
    <3>1. o.kind # "submit" /\ read[r].sub = lastSub[t] /\ read[r].latest
      BY <1>2, <1>11
    <3>2. CASE lastSub[t] = "none"
      <4>1. ~Decides(r)
        BY <3>1, <3>2 DEF Decides
      <4>2. UNCHANGED lastSub
        BY <1>1, <3>1, <4>1, Zenon DEF FlushSubmission
      <4> QED
        BY <1>2, <1>4, <3>2, <4>2
    <3>3. CASE lastSub[t] # "none"
      <4>1. Decides(r)
        BY <1>11, <3>1, <3>3 DEF Decides
      <4>2. lastSub' = [lastSub EXCEPT ![t] = Flushed(@, read[r].sub, ReviewedStatus(o.decision))]
        BY <1>1, <3>1, <4>1, Zenon DEF FlushSubmission
      <4>3. Flushed(lastSub[t], lastSub[t], ReviewedStatus(o.decision)) = ReviewedStatus(o.decision)
        BY DEF Flushed
      <4> QED
        BY <3>1, <3>3, <4>2, <4>3
    <3> QED
      BY <3>2, <3>3
  <2>5. Serial!MentorReview(t, o.decision)
    <3>1. Serial!ReviewedRow(rows[t], o.decision) = ReviewedRow(rows[t], o.decision)
          /\ Serial!ReviewedStatus(o.decision) = ReviewedStatus(o.decision)
      BY SameHandlers
    <3>2. Stored(Serial!ReviewedRow(rows[t], o.decision))
      BY <1>5, <2>2, <3>1
    <3> HIDE DEF h
    <3> QED
      BY <1>1, <2>3, <2>4, <3>1, <3>2 DEF Serial!MentorReview, Serial!Store
  <2>6. Serial!Decisions = Decisions
    BY SameHandlers
  <2> HIDE DEF t
  <2> QED
    BY <1>2, <1>7, <2>1, <2>5, <2>6 DEF Serial!Next
<1>12. CASE o.kind = "score"
  <2>1. o.passed \in BOOLEAN /\ trk.type[t] = "assessment"
    BY <1>2, <1>12 DEF Asked
  <2>2. h = ScoredRow(rows[t], o.passed)
    BY <1>3, <1>12, Zenon DEF Handled
  <2>3. UNCHANGED <<lastSub, attempts, saved, checks>>
    <3>1. ~(o.kind = "submit" /\ ~overtaken[r]) /\ ~Decides(r)
      BY <1>12 DEF Decides
    <3>2. UNCHANGED lastSub
      BY <1>1, <3>1, Zenon DEF FlushSubmission
    <3> QED
      BY <1>6, <1>12, <3>2 DEF IsQuiz
  <2>4. Serial!AssessmentScored(t, o.passed)
    <3>1. Serial!ScoredRow(rows[t], o.passed) = ScoredRow(rows[t], o.passed)
      BY SameHandlers
    <3>2. Stored(Serial!ScoredRow(rows[t], o.passed))
      BY <1>5, <2>2, <3>1
    <3> HIDE DEF h
    <3> QED
      BY <1>1, <2>1, <2>3, <3>2 DEF Serial!AssessmentScored, Serial!Store
  <2> HIDE DEF t
  <2> QED
    BY <1>2, <1>7, <2>1, <2>4 DEF Serial!Next
<1> QED
  BY <1>2, <1>8, <1>9, <1>10, <1>11, <1>12 DEF Asked

\* The first state is a first state of AssignmentProgress.
LEMMA MappedInit == RInit => Serial!Init
<1> SUFFICES ASSUME RInit PROVE Serial!Init
  OBVIOUS
<1> DEFINE fresh == [t \in Tasks |-> FreshRow]
<1>1. IInv
  BY InitHolds
<1>2. rows \in [Tasks -> TaskRow] /\ rows = RefreshedRows(trk, fresh, today)
  BY <1>1 DEF IInv, Kept, RInit
<1>3. /\ trk \in Tracks /\ today \in 0 .. MaxDay
      /\ status = StatusOf(trk, rows) /\ percent = Sum(rows, Tasks)
      /\ phases = [p \in Phases |-> [status |-> PhaseStatus(rows, p), percent |-> PhasePercent(rows, p)]]
  BY DEF RInit
<1>4. /\ lastSub = [t \in Tasks |-> "none"] /\ attempts = [t \in Tasks |-> 0]
      /\ saved = [t \in Tasks |-> FALSE] /\ checks = [t \in Tasks |-> {}]
  BY DEF RInit
<1>5. [status |-> status, full |-> percent = 100 * Cardinality(RequiredTasks(trk))] = AssignmentOf(trk, rows)
  BY <1>2, <1>3, MappedDerived
<1>6. ASSUME NEW p \in Phases
      PROVE  [status |-> phases[p].status,
              full   |-> /\ TasksOf(trk, p) # {}
                         /\ phases[p].percent = 100 * Cardinality(TasksOf(trk, p) \cap RequiredTasks(trk))]
             = PhaseOf(trk, rows, p)
  <2>1. phases[p].status = PhaseStatus(rows, p) /\ phases[p].percent = PhasePercent(rows, p)
    BY <1>3
  <2>2. [status |-> PhaseStatus(rows, p),
         full   |-> /\ TasksOf(trk, p) # {}
                    /\ PhasePercent(rows, p) = 100 * Cardinality(TasksOf(trk, p) \cap RequiredTasks(trk))]
        = PhaseOf(trk, rows, p)
    BY <1>2, MappedDerived
  <2> QED
    BY <2>1, <2>2
<1>7. /\ Serial!AssignmentOf(trk, rows) = AssignmentOf(trk, rows)
      /\ \A p : Serial!PhaseOf(trk, rows, p) = PhaseOf(trk, rows, p)
  BY SameDerived
<1>8. Serial!Tasks = Tasks /\ Serial!RefreshedRows(trk, fresh, today) = rows
  BY <1>2, SameRefresh
<1>9. Serial!FreshRow = FreshRow
  BY DEF Serial!FreshRow, FreshRow
<1> QED
  BY <1>3, <1>4, <1>5, <1>6, <1>7, <1>8, <1>9, Zenon DEF Serial!Init

\* A step of a lone request is a handler or leaves the rows alone.
LEMMA MappedStep == IInv /\ Lone /\ Alone /\ [RNext]_rvars => [Serial!Next]_Serial!vars
<1> SUFFICES ASSUME IInv, Lone, Alone, [RNext]_rvars PROVE [Serial!Next]_Serial!vars
  OBVIOUS
<1>1. UNCHANGED stored => UNCHANGED Serial!vars
  BY DEF stored, Serial!vars
<1>2. ASSUME NEW r \in Requests, Begin(r) \/ Load(r) \/ Prepare(r) PROVE UNCHANGED stored
  BY <1>2 DEF Begin, Load, Prepare
<1>3. ASSUME NEW r \in Requests, Commit(r) PROVE Serial!Next
  BY <1>3, MappedCommit
<1>4. ASSUME NextDay PROVE Serial!Next
  <2>1. Serial!NextDay
    BY <1>4 DEF NextDay, Serial!NextDay
  <2> QED
    BY <2>1 DEF Serial!Next
<1>5. CASE UNCHANGED rvars
  BY <1>1, <1>5 DEF rvars
<1> QED
  BY <1>1, <1>2, <1>3, <1>4, <1>5 DEF RNext

\* One request at a time behaves as AssignmentProgress says: a request that begins, reads and
\* commits alone is one handler, whole (ProgressRequests.SerialSpec).
THEOREM SerialWhenAlone ==
  ASSUME \A q, r \in Requests : q = r
  PROVE  RSpec => SerialSpec
<1>1. Alone
  BY DEF Alone
<1>2. RInit => Serial!Init /\ Lone
  BY MappedInit, LoneInit
<1>3. IInv /\ Lone /\ [RNext]_rvars => Lone'
  BY <1>1, LoneKept
<1>4. IInv /\ Lone /\ [RNext]_rvars => [Serial!Next]_Serial!vars
  BY <1>1, MappedStep
<1> QED
  BY <1>2, <1>3, <1>4, RequestsAlwaysCoherent, PTL DEF RSpec, SerialSpec, Serial!Spec

-----------------------------------------------------------------------------
(* The runs of a deployment: requests that read and commit without a lock as well, and  *)
(* a tab that shows what they left, for any number of runs, steps, gestures and losses. *)

CONSTANTS Steps, MaxRuns, MaxGestures, MaxTabRequests, MaxOthers, MaxLost
VARIABLES serial, runs, release, record, shown, loading, confirming, noting, busy,
          requests, loads, spent, doubt

\* The runs, next to the requests of this module.
Deploy == INSTANCE DeploymentRuns WITH MaxRequests <- MaxTabRequests

\* What a run is made of.
RunIds == 1 .. MaxRuns
ItemStatuses == {"pending", "in_progress", "done", "blocked", "postponed"}
RunRow == [status : {"none", "in_progress", "completed", "partial", "aborted"},
           items : [Steps -> ItemStatuses], reopened : BOOLEAN, forced : BOOLEAN]

\* What a request asks of the service.
Asks(q) ==
  /\ q.op \in {"start", "update", "all", "complete", "reopen", "abort"}
  /\ q.op # "start" => q.run \in RunIds
  /\ q.op = "update" => q.status \in ItemStatuses
  /\ q.force \in BOOLEAN

\* A request of the tab, and a load of the tab.
TabRequest(q) ==
  /\ q \in [id : {q.id}, op : {q.op}, run : {q.run}, step : {q.step}, status : {q.status},
            force : {q.force}, stage : {"sent", "read", "refused", "done", "lost"},
            seen : {q.seen}]
  /\ Asks(q)
TabLoad(l) ==
  l \in [id : {l.id}, stage : {"list", "detail", "lost"}, rows : [RunIds -> RunRow],
         todo : SUBSET RunIds]

\* The rows of the database.
Stored ==
  /\ runs \in [RunIds -> RunRow]
  /\ release \in {"cab_approved", "deploying", "deployed"}
  /\ record \in {"none", "deployed", "partial"}

\* What the tab holds.
TabTypes ==
  /\ {serial, loading, confirming, doubt} \subseteq BOOLEAN
  /\ shown \in [RunIds -> RunRow]
  /\ noting # Deploy!NoNote => noting.status \in {"blocked", "postponed"}
  /\ IsFiniteSet(requests) /\ Cardinality(requests) <= MaxTabRequests
  /\ \A q \in requests : TabRequest(q)
  /\ \A l \in loads : TabLoad(l)

\* Requests that follow one another: one run is active that was not re-opened.
OneAtATime ==
  \A r, s \in RunIds :
    /\ Deploy!Active(r) /\ ~runs[r].reopened
    /\ Deploy!Active(s) /\ ~runs[s].reopened
    => r = s

\* A tab that is in no doubt shows the runs, loads them, or has an answer to take that
\* makes it load them; and it loads them once at a time.
Followed ==
  ~doubt =>
    /\ \A q \in requests : q.stage # "lost"
    /\ \A l \in loads : l.stage # "lost"
    /\ \A l, m \in loads : l = m
    /\ \/ \E q \in requests : q.stage = "done"
       \/ loads = {} /\ shown = runs
       \/ \E l \in loads : l.stage = "list" \/ l.rows = runs

\* The inductive invariant.
RunsInv ==
  /\ Stored
  /\ TabTypes
  /\ serial => OneAtATime
  /\ Deploy!ClosedRunsAreTrue
  /\ Deploy!RecordsFollowRuns
  /\ Followed

-----------------------------------------------------------------------------
\* The instance counts as this module does.
LEMMA CountsAlike == \A S : Deploy!Cardinality(S) = Cardinality(S)
BY DEF Deploy!Cardinality, Cardinality

\* Runs are numbered from one.
LEMMA RunBound == ASSUME Deploy!RunsAssumption
                  PROVE  MaxRuns \in Nat /\ MaxTabRequests \in Nat /\ MaxTabRequests >= 0
BY DEF Deploy!RunsAssumption

\* The initial state satisfies the inductive invariant.
LEMMA RunsStart == ASSUME Deploy!RunsAssumption PROVE Deploy!Init => RunsInv
<1> SUFFICES ASSUME Deploy!Init PROVE RunsInv
  OBVIOUS
<1> USE DEF Deploy!Init
<1>1. Deploy!NoRun \in RunRow
  BY DEF Deploy!NoRun, RunRow, ItemStatuses
<1>2. Stored /\ shown \in [RunIds -> RunRow]
  BY <1>1 DEF Stored, Deploy!Runs, RunIds
<1>3. \A l \in loads : TabLoad(l) /\ l.stage = "list"
  BY <1>1 DEF TabLoad, Deploy!Runs, RunIds
<1>4. IsFiniteSet(requests) /\ Cardinality(requests) <= MaxTabRequests
  BY FS_EmptySet, RunBound
<1>5. TabTypes
  <2>1. {serial, loading, confirming, doubt} \subseteq BOOLEAN
    OBVIOUS
  <2> QED
    BY <1>2, <1>3, <1>4, <2>1 DEF TabTypes
<1>6. \A r \in RunIds : runs[r].status = "none"
  BY DEF Deploy!NoRun, Deploy!Runs, RunIds
<1>7. OneAtATime /\ Deploy!ClosedRunsAreTrue /\ Deploy!RecordsFollowRuns
  BY <1>6 DEF OneAtATime, Deploy!Active, Deploy!ClosedRunsAreTrue, Deploy!RecordsFollowRuns,
     Deploy!Runs, RunIds
<1>8. Followed
  BY <1>3 DEF Followed
<1> QED
  BY <1>2, <1>5, <1>7, <1>8 DEF RunsInv

-----------------------------------------------------------------------------
(* The service. *)

\* A run with another status, verdict or mark.
LEMMA RunChanged ==
  ASSUME runs \in [RunIds -> RunRow], NEW r \in RunIds, NEW row \in RunRow,
         runs' = [runs EXCEPT ![r] = row]
  PROVE  /\ runs' \in [RunIds -> RunRow]
         /\ runs'[r] = row
         /\ \A s \in RunIds \ {r} : runs'[s] = runs[s]
OBVIOUS

\* Starting a run, which nothing but closed runs stand in the way of.
LEMMA StartRunKeeps ==
  ASSUME Stored, serial => OneAtATime, Deploy!ClosedRunsAreTrue, Deploy!RecordsFollowRuns,
         serial' = serial, NEW seen, serial => \A r \in RunIds : ~Deploy!Active(r),
         Deploy!StartRun(seen)
  PROVE  /\ Stored' /\ (serial => OneAtATime)'
         /\ Deploy!ClosedRunsAreTrue' /\ Deploy!RecordsFollowRuns'
<1>1. PICK r \in RunIds : /\ runs[r].status = "none"
                          /\ runs' = [runs EXCEPT ![r].status = "in_progress"]
  BY DEF Deploy!StartRun, Deploy!Runs, RunIds
<1> DEFINE row == [runs[r] EXCEPT !.status = "in_progress"]
<1>2. row \in RunRow /\ runs' = [runs EXCEPT ![r] = row]
  BY <1>1 DEF Stored, RunRow
<1>3. row.status = "in_progress" /\ row.reopened = runs[r].reopened
  BY DEF Stored, RunRow
<1> HIDE DEF row
<1>4. /\ runs' \in [RunIds -> RunRow] /\ runs'[r] = row
      /\ \A s \in RunIds \ {r} : runs'[s] = runs[s]
  BY <1>2, RunChanged DEF Stored
<1>5. record' = record /\ release' \in {"deploying", release}
  BY DEF Deploy!StartRun
<1>6. Stored'
  BY <1>4, <1>5 DEF Stored
<1>7. (serial => OneAtATime)'
  BY <1>4 DEF OneAtATime, Deploy!Active
<1>8. Deploy!ClosedRunsAreTrue'
  BY <1>3, <1>4 DEF Deploy!ClosedRunsAreTrue, Deploy!Runs, RunIds
<1>9. Deploy!RecordsFollowRuns'
  <2>1. \A s \in RunIds : /\ runs[s].status \in {"completed", "partial"} => runs'[s] = runs[s]
                          /\ runs[s].reopened => runs'[s].reopened
    BY <1>1, <1>3, <1>4
  <2> QED
    BY <1>5, <2>1 DEF Deploy!RecordsFollowRuns, Deploy!Runs, RunIds
<1> QED
  BY <1>6, <1>7, <1>8, <1>9

\* Requests that leave the records alone: the run was open, or is open again and marked.
LEMMA RunWrittenKeeps ==
  ASSUME Stored, serial => OneAtATime, Deploy!ClosedRunsAreTrue, Deploy!RecordsFollowRuns,
         serial' = serial, release' = release, record' = record,
         NEW r \in RunIds, NEW row \in RunRow, runs' = [runs EXCEPT ![r] = row],
         \/ ~serial
         \/ /\ runs[r].status = "in_progress" /\ row.status \in {"in_progress", "aborted"}
            /\ row.reopened = runs[r].reopened
         \/ row.status = "in_progress" /\ row.reopened
  PROVE  /\ Stored' /\ (serial => OneAtATime)'
         /\ Deploy!ClosedRunsAreTrue' /\ Deploy!RecordsFollowRuns'
<1>1. /\ runs' \in [RunIds -> RunRow] /\ runs'[r] = row
      /\ \A s \in RunIds \ {r} : runs'[s] = runs[s]
  BY RunChanged DEF Stored
<1>2. Stored'
  BY <1>1 DEF Stored
<1>3. (serial => OneAtATime)'
  BY <1>1 DEF OneAtATime, Deploy!Active
<1>4. Deploy!ClosedRunsAreTrue'
  BY <1>1 DEF Deploy!ClosedRunsAreTrue, Deploy!Runs, RunIds
<1>5. Deploy!RecordsFollowRuns'
  <2>1. serial => \A s \in RunIds :
          /\ runs[s].status \in {"completed", "partial"} => runs'[s] = runs[s] \/ runs'[s].reopened
          /\ runs[s].reopened => runs'[s].reopened
    BY <1>1
  <2> QED
    BY <2>1 DEF Deploy!RecordsFollowRuns, Deploy!Runs, RunIds
<1> QED
  BY <1>2, <1>3, <1>4, <1>5

\* Steps marked, one of them or all.
LEMMA WriteItemsKeeps ==
  ASSUME Stored, serial => OneAtATime, Deploy!ClosedRunsAreTrue, Deploy!RecordsFollowRuns,
         serial' = serial, NEW q, Asks(q), q.op \in {"update", "all"}, NEW seen,
         serial => runs[q.run].status = "in_progress",
         Deploy!WriteItems(q, seen)
  PROVE  /\ Stored' /\ (serial => OneAtATime)'
         /\ Deploy!ClosedRunsAreTrue' /\ Deploy!RecordsFollowRuns'
<1>1. q.run \in RunIds
  BY DEF Asks
<1>2. PICK new \in [Steps -> ItemStatuses] : runs' = [runs EXCEPT ![q.run].items = new]
  <2> DEFINE new == [s \in Steps |->
               CASE q.op = "update" /\ s = q.step /\ q.status # seen.run.items[s] -> q.status
                 [] q.op = "all" /\ seen.run.items[s] = "pending" -> "done"
                 [] OTHER -> runs[q.run].items[s]]
  <2>1. new \in [Steps -> ItemStatuses]
    BY <1>1 DEF Asks, ItemStatuses, Stored, RunRow
  <2>2. runs' = [runs EXCEPT ![q.run].items = new]
    BY <1>1 DEF Deploy!WriteItems, Stored
  <2> QED
    BY <2>1, <2>2
<1> DEFINE row == [runs[q.run] EXCEPT !.items = new]
<1>3. row \in RunRow /\ runs' = [runs EXCEPT ![q.run] = row]
  BY <1>1, <1>2 DEF Stored, RunRow
<1>4. row.status = runs[q.run].status /\ row.reopened = runs[q.run].reopened
  BY <1>1 DEF Stored, RunRow
<1>5. release' = release /\ record' = record
  BY DEF Deploy!WriteItems
<1> HIDE DEF row
<1> QED
  BY <1>1, <1>3, <1>4, <1>5, RunWrittenKeeps

\* A run taken up again.
LEMMA ReopenRunKeeps ==
  ASSUME Stored, serial => OneAtATime, Deploy!ClosedRunsAreTrue, Deploy!RecordsFollowRuns,
         serial' = serial, NEW q, Asks(q), q.op = "reopen", Deploy!ReopenRun(q)
  PROVE  /\ Stored' /\ (serial => OneAtATime)'
         /\ Deploy!ClosedRunsAreTrue' /\ Deploy!RecordsFollowRuns'
<1>1. q.run \in RunIds
  BY DEF Asks
<1> DEFINE opened == [runs[q.run] EXCEPT !.status = "in_progress"]
           row == [opened EXCEPT !.reopened = TRUE]
<1>2. opened \in RunRow /\ opened.status = "in_progress"
  BY <1>1 DEF Stored, RunRow
<1>3. runs' = [runs EXCEPT ![q.run] = row]
  BY <1>1 DEF Stored, Deploy!ReopenRun
<1> HIDE DEF opened
<1>4. row \in RunRow /\ row.status = "in_progress" /\ row.reopened
  BY <1>2 DEF RunRow
<1>5. release' = release /\ record' = record
  BY DEF Deploy!ReopenRun
<1> HIDE DEF row
<1> QED
  BY <1>1, <1>3, <1>4, <1>5, RunWrittenKeeps

\* A run given up.
LEMMA AbortRunKeeps ==
  ASSUME Stored, serial => OneAtATime, Deploy!ClosedRunsAreTrue, Deploy!RecordsFollowRuns,
         serial' = serial, NEW q, Asks(q), q.op = "abort",
         serial => runs[q.run].status = "in_progress", Deploy!AbortRun(q)
  PROVE  /\ Stored' /\ (serial => OneAtATime)'
         /\ Deploy!ClosedRunsAreTrue' /\ Deploy!RecordsFollowRuns'
<1>1. q.run \in RunIds
  BY DEF Asks
<1> DEFINE row == [runs[q.run] EXCEPT !.status = "aborted"]
<1>2. /\ row \in RunRow /\ row.status = "aborted"
      /\ row.reopened = runs[q.run].reopened
  BY <1>1 DEF Stored, RunRow
<1>3. runs' = [runs EXCEPT ![q.run] = row]
  BY <1>1 DEF Stored, Deploy!AbortRun
<1>4. release' = release /\ record' = record
  BY DEF Deploy!AbortRun
<1> HIDE DEF row
<1> QED
  BY <1>1, <1>2, <1>3, <1>4, RunWrittenKeeps

\* A run closed: the release is deployed, or in part.
LEMMA CompleteRunKeeps ==
  ASSUME Stored, serial => OneAtATime, Deploy!ClosedRunsAreTrue, Deploy!RecordsFollowRuns,
         serial' = serial, NEW q, Asks(q), q.op = "complete", NEW seen,
         serial => /\ seen.run = runs[q.run] /\ runs[q.run].status = "in_progress"
                   /\ Deploy!Pending(seen.run.items) = {} \/ q.force,
         Deploy!CompleteRun(q, seen)
  PROVE  /\ Stored' /\ (serial => OneAtATime)'
         /\ Deploy!ClosedRunsAreTrue' /\ Deploy!RecordsFollowRuns'
<1>1. q.run \in RunIds /\ q.force \in BOOLEAN
  BY DEF Asks
<1> DEFINE blocked == Deploy!Unresolved(seen.run.items) # {}
           verdict == IF blocked THEN "partial" ELSE "completed"
           closed == [runs[q.run] EXCEPT !.status = verdict]
           row == [closed EXCEPT !.forced = q.force]
<1>2. /\ closed \in RunRow /\ closed.status = verdict
      /\ closed.items = runs[q.run].items /\ closed.reopened = runs[q.run].reopened
  BY <1>1 DEF Stored, RunRow
<1>3. runs' = [runs EXCEPT ![q.run] = row]
  BY <1>1 DEF Stored, Deploy!CompleteRun
<1>4. /\ release' = IF seen.release = "deploying" /\ ~blocked THEN "deployed" ELSE release
      /\ record' = IF blocked THEN "partial" ELSE "deployed"
  BY DEF Deploy!CompleteRun
<1> HIDE DEF closed
<1>5. /\ row \in RunRow /\ row.status = verdict /\ row.forced = q.force
      /\ row.items = runs[q.run].items /\ row.reopened = runs[q.run].reopened
  BY <1>1, <1>2 DEF RunRow
<1> HIDE DEF row
<1>6. /\ runs' \in [RunIds -> RunRow] /\ runs'[q.run] = row
      /\ \A s \in RunIds \ {q.run} : runs'[s] = runs[s]
  BY <1>1, <1>3, <1>5, RunChanged DEF Stored
<1>7. blocked \in BOOLEAN /\ verdict \in {"partial", "completed"}
      /\ (verdict = "completed" <=> ~blocked)
  OBVIOUS
<1>8. serial => /\ blocked <=> Deploy!Unresolved(row.items) # {}
                /\ Deploy!Pending(row.items) # {} => row.forced
  BY <1>5
<1> HIDE DEF blocked
<1>9. Stored'
  BY <1>4, <1>6 DEF Stored
<1> HIDE DEF verdict
<1>10. (serial => OneAtATime)'
  BY <1>5, <1>6, <1>7 DEF OneAtATime, Deploy!Active
<1>11. Deploy!ClosedRunsAreTrue'
  <2>1. \A items : /\ Deploy!Unresolved(items)' = Deploy!Unresolved(items')
                   /\ Deploy!Pending(items)' = Deploy!Pending(items')
    BY DEF Deploy!Unresolved, Deploy!Pending
  <2> QED
    BY <1>5, <1>6, <1>7, <1>8 DEF Deploy!ClosedRunsAreTrue, Deploy!Runs, RunIds,
       Deploy!Unresolved, Deploy!Pending
<1>12. Deploy!RecordsFollowRuns'
  <2> SUFFICES ASSUME serial
               PROVE  /\ release' = "deployed" \/ record' = "deployed" =>
                           \E r \in RunIds : runs'[r].status = "completed" \/ runs'[r].reopened
                      /\ record' = "partial" =>
                           \E r \in RunIds : runs'[r].status = "partial" \/ runs'[r].reopened
    BY DEF Deploy!RecordsFollowRuns, Deploy!Runs, RunIds
  <2>1. \A s \in RunIds : /\ runs[s].status \in {"completed", "partial"} => runs'[s] = runs[s]
                          /\ runs[s].reopened => runs'[s].reopened
    BY <1>5, <1>6
  <2>2. CASE blocked
    <3>1. release' = release /\ record' = "partial" /\ runs'[q.run].status = "partial"
      BY <1>4, <1>5, <1>6, <1>7, <2>2
    <3> QED
      BY <1>1, <2>1, <3>1 DEF Deploy!RecordsFollowRuns, Deploy!Runs, RunIds
  <2>3. CASE ~blocked
    BY <1>1, <1>4, <1>5, <1>6, <1>7, <2>3
  <2> QED
    BY <1>7, <2>2, <2>3
<1> QED
  BY <1>9, <1>10, <1>11, <1>12

\* Whatever the service commits for a request it has not refused.
LEMMA ApplyKeeps ==
  ASSUME RunsInv, serial' = serial, NEW q, Asks(q), NEW seen,
         serial => seen = Deploy!Seen(q) /\ Deploy!Accepted(q, seen), Deploy!Apply(q, seen)
  PROVE  /\ Stored' /\ (serial => OneAtATime)'
         /\ Deploy!ClosedRunsAreTrue' /\ Deploy!RecordsFollowRuns'
<1> USE DEF RunsInv
<1>1. CASE q.op = "start"
  <2>1. serial => \A r \in RunIds : ~Deploy!Active(r)
    BY <1>1 DEF Deploy!Seen, Deploy!Accepted, Deploy!Runs, RunIds
  <2>2. Deploy!StartRun(seen)
    BY <1>1 DEF Deploy!Apply
  <2> QED
    BY <2>1, <2>2, StartRunKeeps
<1>2. ASSUME q.op # "start"
      PROVE  serial => seen.run = runs[q.run]
  <2>1. q.run # 0
    BY <1>2 DEF Asks, RunIds
  <2> QED
    BY <2>1 DEF Deploy!Seen
<1>3. CASE q.op = "complete"
  <2>1. Deploy!CompleteRun(q, seen)
    BY <1>3 DEF Deploy!Apply
  <2>2. serial => /\ runs[q.run].status = "in_progress"
                  /\ Deploy!Pending(seen.run.items) = {} \/ q.force
    BY <1>2, <1>3 DEF Deploy!Accepted
  <2> QED
    BY <1>2, <1>3, <2>1, <2>2, CompleteRunKeeps
<1>4. CASE q.op = "reopen"
  <2>1. Deploy!ReopenRun(q)
    BY <1>4 DEF Deploy!Apply
  <2> QED
    BY <1>4, <2>1, ReopenRunKeeps
<1>5. CASE q.op \in {"abort", "update", "all"}
  <2>1. serial => runs[q.run].status = "in_progress"
    BY <1>2, <1>5 DEF Deploy!Accepted
  <2>2. q.op = "abort" => Deploy!AbortRun(q)
    BY DEF Deploy!Apply
  <2>3. q.op # "abort" => Deploy!WriteItems(q, seen)
    BY <1>5 DEF Deploy!Apply
  <2> QED
    BY <1>5, <2>1, <2>2, <2>3, AbortRunKeeps, WriteItemsKeeps
<1> QED
  BY <1>1, <1>3, <1>4, <1>5 DEF Asks

-----------------------------------------------------------------------------
(* The tab. *)

\* The number of requests does not grow when one takes the place of another.
LEMMA RequestReplaced ==
  ASSUME NEW S, IsFiniteSet(S), NEW q \in S, NEW x
  PROVE  /\ IsFiniteSet((S \ {q}) \cup {x})
         /\ Cardinality((S \ {q}) \cup {x}) <= Cardinality(S)
         /\ IsFiniteSet(S \ {q}) /\ Cardinality(S \ {q}) <= Cardinality(S)
<1> DEFINE T == S \ {q}
<1>1. IsFiniteSet(T) /\ Cardinality(T) = Cardinality(S) - 1
  BY FS_RemoveElement
<1>2. Cardinality(S) \in Nat /\ Cardinality(T) \in Nat
  BY <1>1, FS_CardinalityType
<1> HIDE DEF T
<1>3. IsFiniteSet(T \cup {x}) /\ Cardinality(T \cup {x}) \in {Cardinality(T), Cardinality(T) + 1}
  BY <1>1, FS_AddElement
<1>4. Cardinality(T \cup {x}) <= Cardinality(S) /\ Cardinality(T) <= Cardinality(S)
  BY <1>1, <1>2, <1>3
<1> QED
  BY <1>1, <1>3, <1>4 DEF T

\* The types of the tab after a step, one conjunct at a time.
LEMMA TabTypesAfter ==
  ASSUME {serial', loading', confirming', doubt'} \subseteq BOOLEAN,
         shown' \in [RunIds -> RunRow],
         noting' # Deploy!NoNote => noting'.status \in {"blocked", "postponed"},
         IsFiniteSet(requests'), Cardinality(requests') <= MaxTabRequests,
         \A q \in requests' : TabRequest(q), \A l \in loads' : TabLoad(l)
  PROVE  TabTypes'
BY DEF TabTypes, TabRequest, Asks, TabLoad, Deploy!NoNote

\* A request that was read, refused, answered or lost is still the request it was.
LEMMA RequestMoved ==
  ASSUME NEW q, TabRequest(q), NEW to \in {"sent", "read", "refused", "done", "lost"},
         NEW x, NEW seen,
         \/ x = [q EXCEPT !.stage = to]
         \/ x = [q EXCEPT !.stage = to, !.seen = seen]
  PROVE  TabRequest(x) /\ x.stage = to
BY DEF TabRequest, Asks

\* A request has read its run.
LEMMA ReadKeeps ==
  ASSUME RunsInv, Deploy!RunsAssumption, NEW q \in requests, Deploy!Read(q)
  PROVE  RunsInv'
<1>1. PICK x : /\ requests' = (requests \ {q}) \cup {x}
               /\ \/ x = [q EXCEPT !.stage = "read", !.seen = Deploy!Seen(q)]
                  \/ x = [q EXCEPT !.stage = "refused"]
  BY DEF Deploy!Read
<1>2. q.stage = "sent"
      /\ UNCHANGED <<serial, runs, release, record, shown, loading, confirming, noting, busy,
                     loads, spent, doubt>>
  BY DEF Deploy!Read
<1>3. TabRequest(x) /\ x.stage \in {"read", "refused"}
  <2>1. TabRequest(q)
    BY DEF RunsInv, TabTypes
  <2>2. CASE x = [q EXCEPT !.stage = "read", !.seen = Deploy!Seen(q)]
    BY <2>1, <2>2, RequestMoved
  <2>3. CASE x = [q EXCEPT !.stage = "refused"]
    BY <2>1, <2>3, RequestMoved
  <2> QED
    BY <1>1, <2>2, <2>3
<1>4. IsFiniteSet(requests') /\ Cardinality(requests') <= MaxTabRequests
  <2>1. IsFiniteSet(requests') /\ Cardinality(requests') <= Cardinality(requests)
    BY <1>1, RequestReplaced DEF RunsInv, TabTypes
  <2> QED
    BY <2>1, RunBound, FS_CardinalityType DEF RunsInv, TabTypes
<1>5. \A p \in requests' : p = x \/ p \in requests
  BY <1>1
<1>6. TabTypes'
  BY <1>2, <1>3, <1>4, <1>5 DEF RunsInv, TabTypes, TabRequest, Asks, TabLoad
<1>7. (\E p \in requests : p.stage = "done") => \E p \in requests' : p.stage = "done"
  BY <1>1, <1>2
<1>8. Followed'
  BY <1>2, <1>3, <1>5, <1>7 DEF RunsInv, Followed
<1>9. /\ Stored' /\ (serial => OneAtATime)'
      /\ Deploy!ClosedRunsAreTrue' /\ Deploy!RecordsFollowRuns'
  BY <1>2 DEF RunsInv, Stored, OneAtATime, Deploy!Active, Deploy!ClosedRunsAreTrue,
     Deploy!RecordsFollowRuns, Deploy!Unresolved, Deploy!Pending
<1> QED
  BY <1>6, <1>8, <1>9 DEF RunsInv

\* A request has written what it decided on.
LEMMA RunCommitKeeps ==
  ASSUME RunsInv, Deploy!RunsAssumption, NEW q \in requests, Deploy!Commit(q)
  PROVE  RunsInv'
<1> DEFINE x == [q EXCEPT !.stage = "done", !.seen = Deploy!Unseen]
<1>1. requests' = (requests \ {q}) \cup {x}
  BY DEF Deploy!Commit
<1>2. UNCHANGED <<serial, shown, loading, confirming, noting, busy, loads, spent, doubt>>
  BY DEF Deploy!Commit
<1>3. TabRequest(x) /\ x.stage = "done"
  BY RequestMoved DEF RunsInv, TabTypes
<1>4. PICK seen : /\ serial => seen = Deploy!Seen(q) /\ Deploy!Accepted(q, seen)
                  /\ Deploy!Apply(q, seen)
  BY DEF Deploy!Commit
<1>5. /\ Stored' /\ (serial => OneAtATime)'
      /\ Deploy!ClosedRunsAreTrue' /\ Deploy!RecordsFollowRuns'
  <2>1. Asks(q)
    BY DEF RunsInv, TabTypes, TabRequest
  <2> QED
    BY <1>2, <1>4, <2>1, ApplyKeeps
<1> HIDE DEF x
<1>6. IsFiniteSet(requests') /\ Cardinality(requests') <= MaxTabRequests
  <2>1. IsFiniteSet(requests') /\ Cardinality(requests') <= Cardinality(requests)
    BY <1>1, RequestReplaced DEF RunsInv, TabTypes
  <2> QED
    BY <2>1, RunBound, FS_CardinalityType DEF RunsInv, TabTypes
<1>7. \A p \in requests' : p = x \/ p \in requests
  BY <1>1
<1>8. TabTypes'
  BY <1>2, <1>3, <1>6, <1>7 DEF RunsInv, TabTypes, TabRequest, Asks, TabLoad
<1>9. Followed'
  BY <1>1, <1>2, <1>3, <1>7 DEF RunsInv, Followed
<1> QED
  BY <1>5, <1>8, <1>9 DEF RunsInv

\* What another user does, whose tab is elsewhere.
LEMMA OtherUserKeeps ==
  ASSUME RunsInv, Deploy!RunsAssumption, Deploy!OtherUser
  PROVE  RunsInv'
<1>1. PICK q : /\ \/ q = Deploy!Ask("start", 0)
                  \/ \E r \in RunIds :
                       \/ \E o \in {"all", "complete", "reopen", "abort"} : q = Deploy!Ask(o, r)
                       \/ q \in Deploy!Updates(r)
                       \/ q = [Deploy!Ask("complete", r) EXCEPT !.force = TRUE]
               /\ Deploy!Accepted(q, Deploy!Seen(q))
               /\ Deploy!Apply(q, Deploy!Seen(q))
  BY DEF Deploy!OtherUser, Deploy!Runs, RunIds
<1>2. Asks(q)
  <2>1. CASE q = Deploy!Ask("start", 0)
    BY <2>1 DEF Asks, Deploy!Ask
  <2>2. ASSUME NEW r \in RunIds, NEW o \in {"all", "complete", "reopen", "abort"},
               q = Deploy!Ask(o, r)
        PROVE  Asks(q)
    BY <2>2 DEF Asks, Deploy!Ask
  <2>3. ASSUME NEW r \in RunIds, q \in Deploy!Updates(r)
        PROVE  Asks(q)
    <3>1. PICK s \in Steps, v \in ItemStatuses : q = Deploy!Update(r, s, v)
      BY <2>3 DEF Deploy!Updates, ItemStatuses
    <3> QED
      BY <3>1 DEF Asks, Deploy!Update, Deploy!Ask
  <2>4. ASSUME NEW r \in RunIds, q = [Deploy!Ask("complete", r) EXCEPT !.force = TRUE]
        PROVE  Asks(q)
    BY <2>4 DEF Asks, Deploy!Ask
  <2> QED
    BY <1>1, <2>1, <2>2, <2>3, <2>4
<1>3. doubt' = TRUE
      /\ UNCHANGED <<serial, shown, loading, confirming, noting, busy, requests, loads>>
  BY DEF Deploy!OtherUser, Deploy!tabVars
<1>4. /\ Stored' /\ (serial => OneAtATime)'
      /\ Deploy!ClosedRunsAreTrue' /\ Deploy!RecordsFollowRuns'
  BY <1>1, <1>2, <1>3, ApplyKeeps
<1>5. TabTypes'
  BY <1>3 DEF RunsInv, TabTypes, TabRequest, Asks, TabLoad
<1> QED
  BY <1>3, <1>4, <1>5 DEF RunsInv, Followed

\* A non-empty set of natural numbers has a least element.
LEMMA LeastElement ==
  ASSUME NEW S \in SUBSET Nat, S # {}
  PROVE  \E n \in S : \A m \in S : n <= m
<1>1. PICK n \in S : \A m \in S : ~(<<m, n>> \in OpToRel(<, Nat))
  BY NatLessThanWellFounded, WFMin
<1>2. \A m \in S : ~(m < n)
  BY <1>1 DEF OpToRel
<1> QED
  BY <1>2

\* The card of the tab shows one of the runs, or none.
LEMMA CardIsRun ==
  ASSUME Deploy!RunsAssumption
  PROVE  Deploy!Card = 0 \/ Deploy!Card \in RunIds
<1> SUFFICES ASSUME Deploy!ShownActive # {} PROVE Deploy!Max(Deploy!ShownActive) \in RunIds
  BY DEF Deploy!Card
<1> DEFINE S == Deploy!ShownActive
           T == {MaxRuns - r : r \in S}
<1>1. S \subseteq RunIds /\ MaxRuns \in Nat
  BY RunBound DEF Deploy!ShownActive, Deploy!Runs, RunIds
<1> HIDE DEF S
<1>2. T \in SUBSET Nat /\ T # {}
  <2>1. \A r \in S : MaxRuns - r \in Nat
    BY <1>1 DEF RunIds
  <2>2. PICK r : r \in S
    BY DEF S
  <2> QED
    BY <2>1, <2>2
<1>3. PICK m \in T : \A k \in T : m <= k
  BY <1>2, LeastElement
<1>4. PICK x \in S : m = MaxRuns - x
  OBVIOUS
<1>5. \A y \in S : x >= y
  <2>1. \A y \in S : MaxRuns - x <= MaxRuns - y
    BY <1>3, <1>4
  <2> QED
    BY <1>1, <2>1 DEF RunIds
<1>6. Deploy!Max(S) \in S
  BY <1>5 DEF Deploy!Max
<1> QED
  BY <1>1, <1>6 DEF S

\* A gesture that sends a request.
LEMMA SendKeeps ==
  ASSUME RunsInv, Deploy!RunsAssumption, NEW q, TabRequest(q), q.stage = "sent",
         Deploy!Send(q), confirming' \in BOOLEAN,
         noting' # Deploy!NoNote => noting'.status \in {"blocked", "postponed"}
  PROVE  RunsInv'
<1>1. PICK id : requests' = requests \cup {[q EXCEPT !.id = id]}
  BY DEF Deploy!Send
<1> DEFINE x == [q EXCEPT !.id = id]
<1>2. TabRequest(x) /\ x.stage = "sent"
  BY DEF TabRequest, Asks
<1>3. requests' = requests \cup {x}
  BY <1>1
<1> HIDE DEF x
<1>4. UNCHANGED <<serial, runs, release, record, shown, loading, loads, doubt>>
  BY DEF Deploy!Send
<1>5. IsFiniteSet(requests') /\ Cardinality(requests') <= MaxTabRequests
  <2>1. Cardinality(requests) < MaxTabRequests
    BY CountsAlike DEF Deploy!Send
  <2>2. IsFiniteSet(requests') /\ Cardinality(requests') \in {Cardinality(requests), Cardinality(requests) + 1}
    BY <1>3, FS_AddElement DEF RunsInv, TabTypes
  <2>3. Cardinality(requests) \in Nat
    BY FS_CardinalityType DEF RunsInv, TabTypes
  <2> QED
    BY <2>1, <2>2, <2>3, RunBound
<1>6. \A p \in requests' : p = x \/ p \in requests
  BY <1>3
<1>7. TabTypes'
  BY <1>2, <1>4, <1>5, <1>6 DEF RunsInv, TabTypes, TabRequest, Asks, TabLoad, Deploy!NoNote
<1>8. Followed'
  BY <1>2, <1>3, <1>4, <1>6 DEF RunsInv, Followed
<1>9. /\ Stored' /\ (serial => OneAtATime)'
      /\ Deploy!ClosedRunsAreTrue' /\ Deploy!RecordsFollowRuns'
  BY <1>4 DEF RunsInv, Stored, OneAtATime, Deploy!Active, Deploy!ClosedRunsAreTrue,
     Deploy!RecordsFollowRuns, Deploy!Unresolved, Deploy!Pending
<1> QED
  BY <1>7, <1>8, <1>9 DEF RunsInv

\* Gestures that only open a prompt of the card.
LEMMA PromptKeeps ==
  ASSUME RunsInv, confirming' \in BOOLEAN,
         noting' # Deploy!NoNote => noting'.status \in {"blocked", "postponed"},
         UNCHANGED <<serial, runs, release, record, shown, loading, requests, loads, doubt>>
  PROVE  RunsInv'
<1>1. TabTypes'
  BY DEF RunsInv, TabTypes, TabRequest, Asks, TabLoad, Deploy!NoNote
<1>2. Followed'
  BY DEF RunsInv, Followed
<1>3. /\ Stored' /\ (serial => OneAtATime)'
      /\ Deploy!ClosedRunsAreTrue' /\ Deploy!RecordsFollowRuns'
  BY DEF RunsInv, Stored, OneAtATime, Deploy!Active, Deploy!ClosedRunsAreTrue,
     Deploy!RecordsFollowRuns, Deploy!Unresolved, Deploy!Pending
<1> QED
  BY <1>1, <1>2, <1>3 DEF RunsInv

\* The requests that the buttons send.
LEMMA AskedRequests ==
  ASSUME NEW r \in RunIds
  PROVE  /\ TabRequest(Deploy!Ask("start", 0)) /\ Deploy!Ask("start", 0).stage = "sent"
         /\ \A o \in {"reopen", "all", "abort"} : /\ TabRequest(Deploy!Ask(o, r))
                                                  /\ Deploy!Ask(o, r).stage = "sent"
         /\ \A f \in BOOLEAN : LET q == [Deploy!Ask("complete", r) EXCEPT !.force = f]
                               IN  TabRequest(q) /\ q.stage = "sent"
         /\ \A s, v : v \in ItemStatuses =>
              TabRequest(Deploy!Update(r, s, v)) /\ Deploy!Update(r, s, v).stage = "sent"
<1>1. TabRequest(Deploy!Ask("start", 0)) /\ Deploy!Ask("start", 0).stage = "sent"
  BY DEF TabRequest, Asks, Deploy!Ask
<1>2. \A o \in {"reopen", "all", "abort"} : /\ TabRequest(Deploy!Ask(o, r))
                                            /\ Deploy!Ask(o, r).stage = "sent"
  BY DEF TabRequest, Asks, Deploy!Ask
<1>3. \A f \in BOOLEAN : LET q == [Deploy!Ask("complete", r) EXCEPT !.force = f]
                         IN  TabRequest(q) /\ q.stage = "sent"
  BY DEF TabRequest, Asks, Deploy!Ask
<1>4. \A s, v : v \in ItemStatuses =>
        TabRequest(Deploy!Update(r, s, v)) /\ Deploy!Update(r, s, v).stage = "sent"
  BY DEF TabRequest, Asks, Deploy!Ask, Deploy!Update
<1> QED
  BY <1>1, <1>2, <1>3, <1>4

\* The buttons of the tab.
LEMMA ButtonsKeep ==
  ASSUME RunsInv, Deploy!RunsAssumption,
         \/ Deploy!Start \/ Deploy!Reopen \/ Deploy!MarkAllDone \/ Deploy!Abort
         \/ Deploy!Complete \/ Deploy!SubmitNote
         \/ \E s \in Steps : Deploy!MarkStep(s)
  PROVE  RunsInv'
<1>1. Deploy!Card = 0 \/ Deploy!Card \in RunIds
  BY CardIsRun
<1>2. confirming \in BOOLEAN /\ (noting # Deploy!NoNote => noting.status \in {"blocked", "postponed"})
  BY DEF RunsInv, TabTypes
<1>3. ASSUME UNCHANGED <<confirming, noting>>
      PROVE  confirming' \in BOOLEAN
             /\ (noting' # Deploy!NoNote => noting'.status \in {"blocked", "postponed"})
  BY <1>2, <1>3 DEF Deploy!NoNote
<1>4. CASE Deploy!Start
  <2>1. TabRequest(Deploy!Ask("start", 0)) /\ Deploy!Ask("start", 0).stage = "sent"
    BY DEF TabRequest, Asks, Deploy!Ask
  <2> QED
    BY <1>3, <1>4, <2>1, SendKeeps DEF Deploy!Start
<1>5. CASE Deploy!Reopen
  <2>1. PICK r \in RunIds : Deploy!Send(Deploy!Ask("reopen", r))
    BY <1>5 DEF Deploy!Reopen, Deploy!Past, Deploy!Runs, RunIds
  <2> QED
    BY <1>3, <1>5, <2>1, AskedRequests, SendKeeps DEF Deploy!Reopen
<1>6. CASE Deploy!MarkAllDone \/ Deploy!Abort
  <2>1. PICK o \in {"all", "abort"} : Deploy!Send(Deploy!Ask(o, Deploy!Card))
    BY <1>6 DEF Deploy!MarkAllDone, Deploy!Abort
  <2>2. Deploy!Card \in RunIds /\ UNCHANGED <<confirming, noting>>
    BY <1>1, <1>6 DEF Deploy!MarkAllDone, Deploy!Abort
  <2> QED
    BY <1>3, <2>1, <2>2, AskedRequests, SendKeeps
<1>7. CASE Deploy!Complete
  <2>1. Deploy!Card \in RunIds
    BY <1>1, <1>7 DEF Deploy!Complete
  <2>2. CASE Deploy!Blocked(shown[Deploy!Card].items) # {} /\ ~confirming
    <3>1. /\ confirming' = TRUE
          /\ UNCHANGED <<serial, runs, release, record, shown, loading, noting, busy,
                         requests, loads, spent, doubt>>
      BY <1>7, <2>2 DEF Deploy!Complete
    <3> QED
      BY <1>2, <3>1, PromptKeeps DEF Deploy!NoNote
  <2>3. CASE ~(Deploy!Blocked(shown[Deploy!Card].items) # {} /\ ~confirming)
    <3> DEFINE q == [Deploy!Ask("complete", Deploy!Card) EXCEPT !.force = confirming]
    <3>1. Deploy!Send(q) /\ UNCHANGED <<confirming, noting>>
      BY <1>7, <2>3 DEF Deploy!Complete
    <3>2. TabRequest(q) /\ q.stage = "sent"
      BY <1>2, <2>1, AskedRequests
    <3> HIDE DEF q
    <3> QED
      BY <1>3, <3>1, <3>2, SendKeeps
  <2> QED
    BY <2>2, <2>3
<1>8. CASE Deploy!SubmitNote
  <2> DEFINE q == Deploy!Update(Deploy!Card, noting.step, noting.status)
  <2>1. Deploy!Send(q) /\ noting' = Deploy!NoNote /\ UNCHANGED confirming
    BY <1>8 DEF Deploy!SubmitNote
  <2>2. Deploy!Card \in RunIds /\ noting.status \in ItemStatuses
    BY <1>1, <1>2, <1>8 DEF Deploy!SubmitNote, ItemStatuses
  <2>3. TabRequest(q) /\ q.stage = "sent"
    BY <2>2, AskedRequests
  <2>4. confirming' \in BOOLEAN /\ (noting' # Deploy!NoNote => FALSE)
    BY <1>2, <2>1 DEF Deploy!NoNote
  <2> HIDE DEF q
  <2> QED
    BY <2>1, <2>3, <2>4, SendKeeps
<1>9. CASE \E s \in Steps : Deploy!MarkStep(s)
  <2>1. PICK s \in Steps : Deploy!MarkStep(s)
    BY <1>9
  <2>2. Deploy!Card \in RunIds /\ confirming' = confirming
    BY <1>1, <2>1 DEF Deploy!MarkStep
  <2>3. PICK v \in ItemStatuses :
          IF v \in {"blocked", "postponed"}
          THEN /\ noting' = [step |-> s, status |-> v]
               /\ UNCHANGED <<serial, runs, release, record, shown, loading, busy,
                              requests, loads, spent, doubt>>
          ELSE /\ Deploy!Send(Deploy!Update(Deploy!Card, s, v))
               /\ UNCHANGED noting
    BY <2>1 DEF Deploy!MarkStep, ItemStatuses
  <2>4. CASE v \in {"blocked", "postponed"}
    <3>1. noting'.status \in {"blocked", "postponed"} /\ confirming' \in BOOLEAN
      BY <1>2, <2>2, <2>3, <2>4
    <3> QED
      BY <2>3, <2>4, <3>1, PromptKeeps
  <2>5. CASE v \notin {"blocked", "postponed"}
    <3> DEFINE q == Deploy!Update(Deploy!Card, s, v)
    <3>1. Deploy!Send(q) /\ UNCHANGED <<confirming, noting>>
      BY <2>2, <2>3, <2>5
    <3>2. TabRequest(q) /\ q.stage = "sent"
      BY <2>2, AskedRequests
    <3> HIDE DEF q
    <3> QED
      BY <1>3, <3>1, <3>2, SendKeeps
  <2> QED
    BY <2>4, <2>5
<1> QED
  BY <1>4, <1>5, <1>6, <1>7, <1>8, <1>9

\* What the tab learns about leaves the server alone.
LEMMA ServerStays ==
  ASSUME RunsInv, UNCHANGED <<serial, runs, release, record>>
  PROVE  /\ Stored' /\ (serial => OneAtATime)'
         /\ Deploy!ClosedRunsAreTrue' /\ Deploy!RecordsFollowRuns'
BY DEF RunsInv, Stored, OneAtATime, Deploy!Active, Deploy!ClosedRunsAreTrue,
   Deploy!RecordsFollowRuns, Deploy!Unresolved, Deploy!Pending

\* The tab takes an answer, and loads the runs anew.
LEMMA AnsweredKeeps ==
  ASSUME RunsInv, Deploy!RunsAssumption, NEW q \in requests, Deploy!Answered(q)
  PROVE  RunsInv'
<1>1. /\ requests' = requests \ {q} /\ q.stage \in {"done", "refused", "lost"}
      /\ UNCHANGED <<serial, runs, release, record, shown, spent>>
  BY DEF Deploy!Answered
<1>2. IsFiniteSet(requests') /\ Cardinality(requests') <= MaxTabRequests
  <2>1. IsFiniteSet(requests') /\ Cardinality(requests') <= Cardinality(requests)
    BY <1>1, RequestReplaced DEF RunsInv, TabTypes
  <2> QED
    BY <2>1, RunBound, FS_CardinalityType DEF RunsInv, TabTypes
<1>3. CASE q.stage = "done"
  <2>1. /\ loads' = loads \cup {Deploy!Load} /\ loading' = TRUE /\ confirming' = FALSE
        /\ noting' = Deploy!NoNote /\ doubt' = (doubt \/ loads # {})
    BY <1>3 DEF Deploy!Answered
  <2>2. TabLoad(Deploy!Load) /\ Deploy!Load.stage = "list"
    <3>1. Deploy!NoRun \in RunRow
      BY DEF Deploy!NoRun, RunRow, ItemStatuses
    <3> QED
      BY <3>1 DEF TabLoad, Deploy!Load, Deploy!Runs, RunIds
  <2>3. {serial, loading, confirming, doubt}' \subseteq BOOLEAN
    BY <1>1, <2>1 DEF RunsInv, TabTypes
  <2>4. TabTypes'
    BY <1>1, <1>2, <2>1, <2>2, <2>3 DEF RunsInv, TabTypes, TabRequest, Asks, TabLoad, Deploy!NoNote
  <2>5. Followed'
    BY <1>1, <2>1, <2>2 DEF RunsInv, Followed
  <2> QED
    BY <1>1, <2>4, <2>5, ServerStays DEF RunsInv
<1>4. CASE q.stage # "done"
  <2>1. /\ doubt' = (doubt \/ q.stage = "lost")
        /\ UNCHANGED <<loads, loading, confirming, noting>>
    BY <1>4 DEF Deploy!Answered
  <2>2. {serial, loading, confirming, doubt}' \subseteq BOOLEAN
    BY <1>1, <2>1 DEF RunsInv, TabTypes
  <2>3. TabTypes'
    <3>1. \A p \in requests' : TabRequest(p)
      BY <1>1 DEF RunsInv, TabTypes
    <3>2. \A l \in loads' : TabLoad(l)
      BY <2>1 DEF RunsInv, TabTypes
    <3>3. noting' # Deploy!NoNote => noting'.status \in {"blocked", "postponed"}
      BY <2>1 DEF RunsInv, TabTypes
    <3>4. shown' \in [RunIds -> RunRow]
      BY <1>1 DEF RunsInv, TabTypes
    <3> QED
      BY <1>2, <2>2, <3>1, <3>2, <3>3, <3>4, TabTypesAfter
  <2>4. Followed'
    <3> SUFFICES ASSUME ~doubt, ~doubt' PROVE Followed'
      BY <2>1 DEF Followed
    <3>1. (\E p \in requests : p.stage = "done") => \E p \in requests' : p.stage = "done"
      BY <1>1, <1>4
    <3>2. requests' \subseteq requests /\ loads' = loads /\ shown' = shown /\ runs' = runs
      BY <1>1, <2>1
    <3> QED
      BY <3>1, <3>2 DEF RunsInv, Followed
  <2> QED
    BY <1>1, <2>3, <2>4, ServerStays DEF RunsInv
<1> QED
  BY <1>3, <1>4

\* A load is served: the list first, then each run.
LEMMA ServeLoadKeeps ==
  ASSUME RunsInv, Deploy!RunsAssumption, NEW l \in loads, Deploy!ServeLoad(l)
  PROVE  RunsInv'
<1>1. UNCHANGED <<serial, runs, release, record, shown, loading, confirming, noting, busy,
                  requests, spent, doubt>>
  BY DEF Deploy!ServeLoad
<1>2. TabLoad(l) /\ runs \in [RunIds -> RunRow]
  BY DEF RunsInv, TabTypes, Stored
<1>3. PICK m : /\ TabLoad(m) /\ m.stage = "detail" /\ loads' = (loads \ {l}) \cup {m}
               /\ m.rows = runs \/ (l.stage = "detail" /\ (l.rows = runs => m.rows = runs))
  <2>1. CASE l.stage = "list"
    <3> DEFINE m == [l EXCEPT !.stage = "detail", !.rows = runs,
                              !.todo = {r \in RunIds : Deploy!Active(r)}]
    <3>1. loads' = (loads \ {l}) \cup {m}
      BY <2>1 DEF Deploy!ServeLoad, Deploy!Runs, RunIds
    <3>2. TabLoad(m) /\ m.stage = "detail" /\ m.rows = runs
      BY <1>2 DEF TabLoad
    <3> QED
      BY <3>1, <3>2
  <2>2. CASE l.stage = "detail"
    <3>1. PICK r \in l.todo : loads' = (loads \ {l}) \cup
                                {[l EXCEPT !.todo = @ \ {r}, !.rows[r] = runs[r]]}
      BY <2>2 DEF Deploy!ServeLoad
    <3> DEFINE new == [l.rows EXCEPT ![r] = runs[r]]
               m == [l EXCEPT !.todo = @ \ {r}, !.rows = new]
    <3>2. r \in RunIds /\ new \in [RunIds -> RunRow] /\ (l.rows = runs => new = runs)
      BY <1>2 DEF TabLoad
    <3>3. loads' = (loads \ {l}) \cup {m}
      BY <1>2, <3>1 DEF TabLoad
    <3> HIDE DEF new
    <3>4. TabLoad(m) /\ m.stage = "detail" /\ m.rows = new
      BY <1>2, <2>2, <3>2 DEF TabLoad
    <3> QED
      BY <2>2, <3>2, <3>3, <3>4
  <2> QED
    BY <2>1, <2>2 DEF Deploy!ServeLoad
<1>4. \A k \in loads' : k = m \/ k \in loads \ {l}
  BY <1>3
<1>5. TabTypes'
  BY <1>1, <1>3, <1>4 DEF RunsInv, TabTypes, TabRequest, Asks, TabLoad, Deploy!NoNote
<1>6. Followed'
  <2> SUFFICES ASSUME ~doubt PROVE Followed'
    BY <1>1 DEF Followed
  <2>1. loads = {l}
    BY DEF RunsInv, Followed
  <2>2. loads' = {m}
    BY <1>3, <2>1
  <2> QED
    BY <1>1, <1>3, <2>1, <2>2 DEF RunsInv, Followed
<1> QED
  BY <1>1, <1>5, <1>6, ServerStays DEF RunsInv

\* The tab shows what it has loaded.
LEMMA RunsLoadedKeep ==
  ASSUME RunsInv, Deploy!RunsAssumption, NEW l \in loads, Deploy!Loaded(l)
  PROVE  RunsInv'
<1>1. /\ loads' = loads \ {l} /\ loading' = FALSE
      /\ UNCHANGED <<serial, runs, release, record, confirming, noting, busy, requests,
                     spent, doubt>>
      /\ \/ l.stage = "detail" /\ shown' = l.rows
         \/ l.stage = "lost" /\ shown' = shown
  BY DEF Deploy!Loaded
<1>2. shown' \in [RunIds -> RunRow]
  BY <1>1 DEF RunsInv, TabTypes, TabLoad
<1>3. {serial, loading, confirming, doubt}' \subseteq BOOLEAN
  BY <1>1 DEF RunsInv, TabTypes
<1>4. TabTypes'
  BY <1>1, <1>2, <1>3 DEF RunsInv, TabTypes, TabRequest, Asks, TabLoad, Deploy!NoNote
<1>5. Followed'
  BY <1>1 DEF RunsInv, Followed
<1> QED
  BY <1>1, <1>4, <1>5, ServerStays DEF RunsInv

\* An answer is lost on its way.
LEMMA LoseKeeps ==
  ASSUME RunsInv, Deploy!RunsAssumption, Deploy!Lose
  PROVE  RunsInv'
<1>1. /\ doubt' = TRUE
      /\ UNCHANGED <<serial, runs, release, record, shown, loading, confirming, noting, busy>>
  BY DEF Deploy!Lose
<1>2. {serial, loading, confirming, doubt}' \subseteq BOOLEAN
  BY <1>1 DEF RunsInv, TabTypes
<1>3. /\ shown' \in [RunIds -> RunRow]
      /\ noting' # Deploy!NoNote => noting'.status \in {"blocked", "postponed"}
  BY <1>1 DEF RunsInv, TabTypes
<1>4. ASSUME UNCHANGED loads,
             \E q \in requests : requests' = (requests \ {q}) \cup {[q EXCEPT !.stage = "lost"]}
      PROVE  TabTypes'
  <2>1. PICK q \in requests : requests' = (requests \ {q}) \cup {[q EXCEPT !.stage = "lost"]}
    BY <1>4
  <2>2. PICK x : x = [q EXCEPT !.stage = "lost"]
    OBVIOUS
  <2>3. TabRequest(x)
    BY <2>2, RequestMoved DEF RunsInv, TabTypes
  <2>4. IsFiniteSet(requests') /\ Cardinality(requests') <= Cardinality(requests)
    BY <2>1, <2>2, RequestReplaced DEF RunsInv, TabTypes
  <2>5. IsFiniteSet(requests') /\ Cardinality(requests') <= MaxTabRequests
    BY <2>4, RunBound, FS_CardinalityType DEF RunsInv, TabTypes
  <2>6. \A p \in requests' : p = x \/ p \in requests
    BY <2>1, <2>2
  <2>7. /\ \A p \in requests' : TabRequest(p)
        /\ \A l \in loads' : TabLoad(l)
    BY <1>4, <2>3, <2>6 DEF RunsInv, TabTypes
  <2> QED
    BY <1>3, <1>2, <2>5, <2>7, TabTypesAfter
<1>5. ASSUME UNCHANGED requests,
             \E l \in loads : loads' = (loads \ {l}) \cup {[l EXCEPT !.stage = "lost"]}
      PROVE  TabTypes'
  <2>1. PICK l \in loads : loads' = (loads \ {l}) \cup {[l EXCEPT !.stage = "lost"]}
    BY <1>5
  <2>2. TabLoad([l EXCEPT !.stage = "lost"])
    BY DEF RunsInv, TabTypes, TabLoad
  <2>3. PICK m : TabLoad(m) /\ loads' = (loads \ {l}) \cup {m}
    BY <2>1, <2>2
  <2>4. \A k \in loads' : TabLoad(k)
    BY <2>3 DEF RunsInv, TabTypes
  <2>5. /\ \A p \in requests' : TabRequest(p)
        /\ IsFiniteSet(requests') /\ Cardinality(requests') <= MaxTabRequests
    BY <1>5 DEF RunsInv, TabTypes
  <2> QED
    BY <1>3, <1>2, <2>4, <2>5, TabTypesAfter
<1>6. TabTypes'
  BY <1>4, <1>5 DEF Deploy!Lose
<1>7. Followed'
  BY <1>1 DEF Followed
<1> QED
  BY <1>1, <1>6, <1>7, ServerStays DEF RunsInv

\* Every step keeps the inductive invariant.
LEMMA RunsStep ==
  ASSUME Deploy!RunsAssumption, RunsInv, [Deploy!Next]_(Deploy!runVars) PROVE RunsInv'
<1>1. CASE UNCHANGED Deploy!runVars
  <2>1. UNCHANGED <<serial, runs, release, record, shown, loading, confirming, noting, busy,
                    requests, loads, spent, doubt>>
    BY <1>1 DEF Deploy!runVars, Deploy!tabVars
  <2>2. TabTypes'
    BY <2>1 DEF RunsInv, TabTypes, TabRequest, Asks, TabLoad, Deploy!NoNote
  <2>3. Followed'
    BY <2>1 DEF RunsInv, Followed
  <2> QED
    BY <2>1, <2>2, <2>3, ServerStays DEF RunsInv
<1>2. CASE Deploy!Next
  BY <1>2, ReadKeeps, RunCommitKeeps, AnsweredKeeps, OtherUserKeeps, ButtonsKeep, ServeLoadKeeps,
     RunsLoadedKeep, LoseKeeps DEF Deploy!Next, Deploy!Serve
<1> QED
  BY <1>1, <1>2

\* The inductive invariant: a request holds what it has read of the rows, a tab that is in
\* no doubt is on its way to what the server holds, and runs that were started one after
\* the other leave one active that was not re-opened.
THEOREM RunsAlwaysCoherent == ASSUME Deploy!RunsAssumption PROVE Deploy!Spec => []RunsInv
<1>1. Deploy!Init => RunsInv
  BY RunsStart
<1>2. RunsInv /\ [Deploy!Next]_(Deploy!runVars) => RunsInv'
  BY RunsStep
<1> QED
  BY <1>1, <1>2, PTL DEF Deploy!Spec

\* Every variable keeps to its domain; a run that was completed without force has no step
\* pending, in progress or blocked, and one aborted stays so; the record of the release
\* follows the runs that were closed.
THEOREM RunsAlwaysTrue ==
  ASSUME Deploy!RunsAssumption
  PROVE  Deploy!Spec => [](Deploy!TypeOK /\ Deploy!ClosedRunsAreTrue /\ Deploy!RecordsFollowRuns)
<1>1. RunsInv => Deploy!TypeOK
  BY CountsAlike DEF RunsInv, Stored, TabTypes, RunRow, Deploy!TypeOK, Deploy!Runs, RunIds
<1>2. RunsInv => Deploy!ClosedRunsAreTrue /\ Deploy!RecordsFollowRuns
  BY DEF RunsInv
<1> QED
  BY <1>1, <1>2, RunsAlwaysCoherent, PTL

\* start_deployment refuses while a run is active, so that two are active only where one
\* of them was re-opened, which does not look for another, or where requests overlapped.
THEOREM AlwaysOneActiveUnlessReopened ==
  ASSUME Deploy!RunsAssumption PROVE Deploy!Spec => []Deploy!OneActiveUnlessReopened
<1>1. RunsInv => Deploy!OneActiveUnlessReopened
  <2> SUFFICES ASSUME RunsInv, serial PROVE Deploy!OneActiveUnlessReopened
    BY DEF Deploy!OneActiveUnlessReopened
  <2> DEFINE active == {r \in RunIds : Deploy!Active(r) /\ ~runs[r].reopened}
  <2>1. active = {} \/ \E r : active = {r}
    BY DEF RunsInv, OneAtATime
  <2> HIDE DEF active
  <2>2. Cardinality(active) <= 1
    <3>1. CASE active = {}
      BY <3>1, FS_EmptySet
    <3>2. CASE \E r : active = {r}
      <4>1. PICK r : active = {r}
        BY <3>2
      <4>2. Cardinality({r}) = 1
        BY FS_Singleton
      <4> QED
        BY <4>1, <4>2
    <3> QED
      BY <2>1, <3>1, <3>2
  <2> QED
    BY <2>2, CountsAlike DEF active, Deploy!OneActiveUnlessReopened, Deploy!Runs, RunIds
<1> QED
  BY <1>1, RunsAlwaysCoherent, PTL

\* With nothing under way the tab is unlocked and shows the runs of the server, unless
\* another user acted or an answer was lost.
THEOREM QuietTabAlwaysCurrent ==
  ASSUME Deploy!RunsAssumption PROVE Deploy!Spec => []Deploy!QuietTabIsCurrent
<1>1. RunsInv => Deploy!QuietTabIsCurrent
  BY DEF RunsInv, Followed, Deploy!QuietTabIsCurrent
<1> QED
  BY <1>1, RunsAlwaysCoherent, PTL
=============================================================================

------------------------ MODULE ClassificationJob_proofs ------------------------
(***************************************************************************)
(* Proofs about ClassificationJob, for every bank, batch size and number   *)
(* of jobs and administrators: what a job counts, what it fills, and what  *)
(* its rollback restores, whichever batches fail, tasks die, and jobs,     *)
(* edits and rollbacks meet.  The second part is about an instance of      *)
(* EmployeeFlow, the page on which an assignment is worked through.        *)
(***************************************************************************)
EXTENDS ClassificationJob, FiniteSetTheorems, WellFoundedInduction, TLAPS

Places == {"none", "waiting", "loop", "asking", "ended", "lost"}

JobRow == [status : Active \cup {"absent", "completed", "failed", "canceled"},
           mode : {"unclassified_only", "reclassify_all"}, dry : BOOLEAN,
           cancel : BOOLEAN, pause : BOOLEAN, beat : BOOLEAN,
           total : 0 .. NQuestions, processed : Nat]

Types ==
  /\ questions \in [Questions -> Question]
  /\ listing \in [Questions -> {"awaited", "listed", "unlisted", "deleted"}]
  /\ jobs \in [Jobs -> JobRow] /\ copy \in [Jobs -> JobRow]
  /\ items \in [Jobs -> [Questions -> Item \cup {Nothing}]]
  /\ pc \in [Jobs -> Places] /\ last \in [Jobs -> 0 .. NQuestions]
  /\ batch = [j \in Jobs |-> batch[j]]
  /\ \A j \in Jobs : /\ DOMAIN batch[j] \subseteq Questions
                     /\ \A q \in DOMAIN batch[j] : batch[j][q] \in Question
  /\ base \in [Jobs -> [Questions -> Question]]
  /\ touched \in [Jobs -> SUBSET Questions] /\ moved \in [Jobs -> SUBSET Questions]
  /\ op = [a \in Admins |-> op[a]] /\ seen = [a \in Admins |-> seen[a]]

Begun(j) == copy[j].status # "absent"

\* What a request has read is of a job that was started, and a rollback's job has ended.
Request(a) ==
  /\ op[a].kind = "start" =>
       /\ op[a].order \in Orders
       /\ \/ seen[a].existing = 0
          \/ seen[a].existing \in Jobs /\ jobs[seen[a].existing].status # "absent"
  /\ op[a].kind \in {"cancel", "pause", "resume", "rollback"} =>
       op[a].job \in Jobs /\ jobs[op[a].job].status # "absent"
  /\ op[a].kind = "cancel" => seen[a].cancel \in BOOLEAN /\ seen[a].dead \in BOOLEAN
  /\ op[a].kind \in {"pause", "resume"} => seen[a].pause \in BOOLEAN
  /\ op[a].kind = "rollback" =>
       /\ seen[a] \in [Questions -> Question \cup {Nothing}]
       /\ pc[op[a].job] = "ended" /\ Begun(op[a].job)

Starting == {a \in Admins : op[a].kind = "start"}

\* There is an unused job for each request that may start one.
StartsFit == Cardinality(Starting) <= Cardinality(Unused)

\* The row of a job and its task: how far it is, and what the task writes alone.
Task(j) ==
  /\ jobs[j].status = "absent" <=> pc[j] = "none"
  /\ ~Begun(j) =>
       /\ copy[j] = NoJob /\ jobs[j].processed = 0 /\ jobs[j].total = 0
       /\ jobs[j].status # "completed" /\ pc[j] \notin {"loop", "asking"}
  /\ pc[j] \in {"none", "waiting"} =>
       ~Begun(j) /\ last[j] = 0 /\ \A q \in Questions : items[j][q] = Nothing
  /\ Begun(j) => /\ jobs[j].mode = copy[j].mode /\ jobs[j].total = copy[j].total
                 /\ jobs[j].processed = copy[j].processed
  /\ jobs[j].status = "completed" => pc[j] = "ended"

\* The first are the questions the job counted before its first batch, the passed ones
\* those it took since: those left over are still ahead of it, unless they moved.
Counts(j, first, passed) ==
  /\ copy[j].total = Cardinality(first)
  /\ passed \subseteq first \cup moved[j] /\ \A q \in passed : q <= last[j]
  /\ pc[j] \in {"loop", "asking"} =>
       /\ \A q \in Questions \ moved[j] : listing[q] = "listed" <=> q \in first
       /\ \A q \in first \ (passed \cup moved[j]) : last[j] < q
  /\ copy[j].processed <= Cardinality(passed)
  /\ pc[j] = "loop" => copy[j].processed = Cardinality(passed)
  /\ pc[j] = "asking" =>
       copy[j].processed + Cardinality(DOMAIN batch[j]) = Cardinality(passed)
  /\ jobs[j].status = "completed" =>
       copy[j].processed = Cardinality(passed) /\ first \subseteq passed \cup moved[j]

\* A job over the whole bank has counted the questions it took, but for those of the
\* batch it asks about.
Counted(j) ==
  Begun(j) /\ copy[j].mode = "reclassify_all" =>
    \E first, passed \in SUBSET Questions : Counts(j, first, passed)

\* A question is asked about once, and as it is unless somebody else touched it.
Asks(j) ==
  \A q \in Questions :
    /\ items[j][q] # Nothing => q <= last[j]
    /\ pc[j] = "asking" /\ q \in DOMAIN batch[j] =>
         /\ items[j][q] = Nothing /\ q <= last[j]
         /\ q \notin touched[j] => batch[j][q] = questions[q]

Keeps(first, value) ==
  /\ first.category # NoLabel => value.category = first.category
  /\ first.difficulty # NoLabel => value.difficulty = first.difficulty

\* What was there at first is there, and in what an item recorded.
Gaps(j) ==
  Begun(j) /\ copy[j].mode = "unclassified_only" =>
    \A q \in Questions \ touched[j] :
      /\ Keeps(base[j][q], questions[q])
      /\ items[j][q] # Nothing => Keeps(base[j][q], items[j][q].old)

\* A question is as it was at first, or as the item about it says.
Whole(j) ==
  Begun(j) /\ copy[j].mode = "reclassify_all" =>
    \A q \in Questions \ touched[j] :
      /\ items[j][q] = Nothing => questions[q] = base[j][q]
      /\ items[j][q] # Nothing =>
           /\ items[j][q].old = base[j][q]
           /\ \/ questions[q] = base[j][q]
              \/ items[j][q].applied /\ questions[q] = items[j][q].new

\* What a rollback has read is still so, or there is nothing left to restore, or no
\* question to restore it to.
Rolls(j) ==
  \A a \in Admins :
    op[a].kind = "rollback" /\ op[a].job = j /\ copy[j].mode = "reclassify_all" =>
      \A q \in Questions \ touched[j] :
        seen[a][q] = questions[q] \/ questions[q] = base[j][q] \/ listing[q] = "deleted"

Data(j) == Asks(j) /\ Gaps(j) /\ Whole(j) /\ Rolls(j)

IInv == /\ Types /\ StartsFit
        /\ \A a \in Admins : Request(a)
        /\ \A j \in Jobs : Task(j) /\ Counted(j) /\ Data(j)

-----------------------------------------------------------------------------
(* The numbers of the questions. *)

\* A set of natural numbers that is not empty has a least element.
LEMMA LeastExists ==
  ASSUME NEW S, S \subseteq Nat, S # {}
  PROVE  \E m \in S : \A k \in S : m <= k
<1>1. PICK m \in S : \A k \in S : ~ (<<k, m>> \in OpToRel(<, Nat))
  BY NatLessThanWellFounded, WFMin
<1>2. ASSUME NEW k \in S PROVE m <= k
  <2>1. k \in Nat /\ m \in Nat
    OBVIOUS
  <2>2. k < m => <<k, m>> \in OpToRel(<, Nat)
    BY <2>1 DEF OpToRel
  <2>3. ~(k < m)
    BY <1>1, <2>2
  <2> QED
    BY <2>1, <2>3
<1> QED
  BY <1>2

\* One that has a bound has a greatest element.
LEMMA GreatestExists ==
  ASSUME NEW n \in Nat, NEW S, S \subseteq 1 .. n, S # {}
  PROVE  \E m \in S : \A k \in S : k <= m
<1> DEFINE T == {n - k : k \in S}
<1>1. T \subseteq Nat
  <2> SUFFICES ASSUME NEW k \in S PROVE n - k \in Nat
    OBVIOUS
  <2>1. k \in 1 .. n
    OBVIOUS
  <2> QED
    BY <2>1
<1>2. T # {} /\ \A k \in S : n - k \in T
  OBVIOUS
<1>3. \A d \in T : \E k \in S : d = n - k
  OBVIOUS
<1> HIDE DEF T
<1>4. PICK d \in T : \A e \in T : d <= e
  BY <1>1, <1>2, LeastExists
<1>5. PICK m \in S : d = n - m
  BY <1>3
<1>6. ASSUME NEW k \in S PROVE k <= m
  <2>1. k \in Int /\ m \in Int
    OBVIOUS
  <2>2. d <= n - k
    BY <1>2, <1>4
  <2> QED
    BY <1>5, <2>1, <2>2
<1> QED
  BY <1>6

\* The bank is finite, and so is what a query selects from it.
LEMMA SubsetsOfTheBank ==
  ASSUME NEW S, S \subseteq Questions
  PROVE  IsFiniteSet(S) /\ Cardinality(S) \in 0 .. NQuestions
<1>1. IsFiniteSet(Questions) /\ Cardinality(Questions) = NQuestions
  BY FS_Interval, SizeAssumption DEF Questions
<1>2. IsFiniteSet(S) /\ Cardinality(S) <= NQuestions
  BY <1>1, FS_Subset
<1> QED
  BY <1>2, FS_CardinalityType, SizeAssumption

\* Questions that are all among two sets of them are no more than both.
LEMMA AtMostTogether ==
  ASSUME NEW S \in SUBSET Questions, NEW T \in SUBSET Questions, NEW U \in SUBSET Questions,
         S \subseteq T \cup U
  PROVE  Cardinality(S) <= Cardinality(T) + Cardinality(U)
<1>1. IsFiniteSet(T) /\ IsFiniteSet(U) /\ IsFiniteSet(T \cup U) /\ IsFiniteSet(T \cap U)
  BY SubsetsOfTheBank
<1>2. Cardinality(T \cup U) = Cardinality(T) + Cardinality(U) - Cardinality(T \cap U)
  BY <1>1, FS_Union
<1>3. Cardinality(S) <= Cardinality(T \cup U)
  BY <1>1, FS_Subset
<1>4. /\ Cardinality(S) \in Nat /\ Cardinality(T) \in Nat /\ Cardinality(U) \in Nat
      /\ Cardinality(T \cap U) \in Nat /\ Cardinality(T \cup U) \in Nat
  BY <1>1, SubsetsOfTheBank, FS_CardinalityType
<1> QED
  BY <1>2, <1>3, <1>4

\* The last question of a batch, which the task goes on from.
LEMMA LastOfBatch ==
  ASSUME NEW j \in Jobs, Types, NextBatch(j) # {}
  PROVE  LET m == CHOOSE q \in NextBatch(j) : \A p \in NextBatch(j) : p <= q
         IN  /\ m \in NextBatch(j) /\ \A p \in NextBatch(j) : p <= m
             /\ m \in 1 .. NQuestions /\ last[j] < m
<1>1. NextBatch(j) \subseteq 1 .. NQuestions
  BY DEF NextBatch, Matching, Questions
<1>2. \A q \in NextBatch(j) : last[j] < q
  BY <1>1, SizeAssumption DEF NextBatch, Types
<1>3. \E m \in NextBatch(j) : \A p \in NextBatch(j) : p <= m
  BY <1>1, GreatestExists, SizeAssumption
<1> HIDE DEF NextBatch
<1> QED
  BY <1>1, <1>2, <1>3

\* A batch takes the listed questions as they come: none that it leaves is before one it
\* takes, and it is empty only at their end.
LEMMA BatchInOrder ==
  ASSUME NEW j \in Jobs, Types
  PROVE  /\ NextBatch(j) \subseteq Questions
         /\ \A q \in NextBatch(j) : listing[q] = "listed" /\ last[j] < q
         /\ \A q \in Matching(jobs[j].mode), m \in NextBatch(j) :
              last[j] < q /\ q <= m => q \in NextBatch(j)
         /\ NextBatch(j) = {} => \A q \in Matching(jobs[j].mode) : q <= last[j]
<1> DEFINE left      == {q \in Matching(jobs[j].mode) : q > last[j]}
           before(q) == {p \in left : p < q}
<1>1. NextBatch(j) = {q \in left : Cardinality(before(q)) < BatchSize}
  BY DEF NextBatch
<1>2. left \subseteq Questions /\ Questions \subseteq Nat /\ last[j] \in Nat
  BY SizeAssumption DEF Matching, Types, Questions
<1>3. \A q \in left : listing[q] = "listed" /\ last[j] < q
  BY <1>2 DEF Matching
<1>4. ASSUME NEW q \in left, NEW m \in NextBatch(j), q <= m PROVE q \in NextBatch(j)
  <2>1. before(q) \subseteq before(m) /\ before(m) \subseteq Questions
    <3>1. m \in left
      BY <1>1
    <3>2. q \in Nat /\ m \in Nat /\ \A p \in left : p \in Nat
      BY <1>2, <3>1
    <3> HIDE DEF left
    <3>3. \A p \in left : p < q => p < m
      BY <1>4, <3>2
    <3> QED
      BY <1>2, <3>3
  <2>2. IsFiniteSet(before(m)) /\ Cardinality(before(m)) \in Nat
    BY <2>1, SubsetsOfTheBank, SizeAssumption
  <2>3. Cardinality(before(q)) <= Cardinality(before(m)) /\ Cardinality(before(q)) \in Nat
    BY <2>1, <2>2, FS_Subset, FS_CardinalityType
  <2>4. Cardinality(before(m)) < BatchSize
    BY <1>1
  <2> HIDE DEF before, left
  <2>5. Cardinality(before(q)) < BatchSize
    BY <2>2, <2>3, <2>4, SizeAssumption
  <2> QED
    BY <1>1, <2>5
<1>5. ASSUME left # {} PROVE NextBatch(j) # {}
  <2>1. PICK m \in left : \A k \in left : m <= k
    BY <1>2, <1>5, LeastExists
  <2>2. before(m) = {}
    <3>1. m \in Nat /\ \A p \in left : p \in Nat
      BY <1>2
    <3> HIDE DEF left
    <3>2. \A p \in left : ~(p < m)
      BY <2>1, <3>1
    <3> QED
      BY <3>2
  <2>3. Cardinality(before(m)) < BatchSize
    BY <2>2, FS_EmptySet, SizeAssumption
  <2> QED
    BY <1>1, <2>3
<1>6. ASSUME NEW q \in Matching(jobs[j].mode)
      PROVE  (q \notin left => q <= last[j]) /\ (last[j] < q => q \in left)
  <2>1. q \in Nat
    BY <1>2 DEF Matching
  <2> HIDE DEF Matching
  <2> QED
    BY <1>2, <2>1
<1> HIDE DEF left
<1> QED
  BY <1>1, <1>2, <1>3, <1>4, <1>5, <1>6

-----------------------------------------------------------------------------
(* What steps have in common. *)

\* Columns of a row or a question that are merged are of the old or the new one.
LEMMA MergedType ==
  ASSUME NEW current \in Question, NEW loaded \in Question, NEW new \in Question
  PROVE  MergedQuestion(current, loaded, new) \in Question
BY DEF MergedQuestion, Merged, Question

LEMMA ClassifiedType ==
  ASSUME NEW mode, NEW loaded \in Question, NEW label \in Labels
  PROVE  Classified(mode, loaded, label) \in Question /\ label \in Question
BY LabelAssumption DEF Classified, Question

\* The requests in flight do not notice a step of a task.
LEMMA RequestsKept ==
  ASSUME op' = op, seen' = seen, \A a \in Admins : Request(a), StartsFit,
         \A j \in Jobs : /\ jobs'[j].status = "absent" <=> jobs[j].status = "absent"
                         /\ pc[j] = "ended" => pc'[j] = "ended"
                         /\ Begun(j) => Begun(j)'
  PROVE  (\A a \in Admins : Request(a))' /\ StartsFit'
<1>1. Starting' = Starting /\ Unused' = Unused
  BY DEF Starting, Unused
<1>2. StartsFit'
  BY <1>1 DEF StartsFit
<1>3. ASSUME NEW a \in Admins PROVE Request(a)'
  <2>1. Request(a)
    OBVIOUS
  <2> QED
    BY <2>1 DEF Request
<1> QED
  BY <1>2, <1>3

\* What is said of the data of a job is kept by steps that do not change them, but for
\* questions that are then touched.
LEMMA DataKept ==
  ASSUME Types, NEW j \in Jobs, Task(j), Data(j),
         items'[j] = items[j], base'[j] = base[j], copy'[j].mode = copy[j].mode,
         Begun(j)' <=> Begun(j), last[j] <= last'[j], last'[j] \in Nat,
         pc'[j] = "asking" => pc[j] = "asking" /\ batch'[j] = batch[j],
         touched[j] \subseteq touched'[j],
         Begun(j) => \A q \in Questions \ touched'[j] : questions'[q] = questions[q],
         \A q \in Questions : listing[q] = "deleted" => listing'[q] = "deleted",
         \A a \in Admins : op'[a].kind = "rollback" /\ op'[a].job = j =>
            Begun(j) /\ op'[a] = op[a] /\ seen'[a] = seen[a]
  PROVE  Data(j)'
<1>1. Asks(j)'
  <2> SUFFICES ASSUME NEW q \in Questions
               PROVE  /\ items'[j][q] # Nothing => q <= last'[j]
                      /\ pc'[j] = "asking" /\ q \in DOMAIN batch'[j] =>
                           /\ items'[j][q] = Nothing /\ q <= last'[j]
                           /\ q \notin touched'[j] => batch'[j][q] = questions'[q]
    BY DEF Asks
  <2>1. q \in Nat /\ last[j] \in Nat
    BY SizeAssumption DEF Questions, Types
  <2>2. q <= last[j] => q <= last'[j]
    BY <2>1
  <2>3. pc'[j] = "asking" => Begun(j)
    BY DEF Task
  <2> QED
    BY <2>2, <2>3 DEF Data, Asks
<1>2. Gaps(j)'
  BY DEF Data, Gaps
<1>3. Whole(j)'
  BY DEF Data, Whole
<1>4. Rolls(j)'
  BY DEF Data, Rolls
<1> QED
  BY <1>1, <1>2, <1>3, <1>4 DEF Data

\* A task that has nothing in hand.
LEMMA BatchCleared ==
  ASSUME Types, NEW j \in Jobs, batch' = [batch EXCEPT ![j] = <<>>]
  PROVE  /\ batch' = [k \in Jobs |-> batch'[k]]
         /\ \A k \in Jobs : /\ DOMAIN batch'[k] \subseteq Questions
                            /\ \A q \in DOMAIN batch'[k] : batch'[k][q] \in Question
<1>1. batch' = [k \in Jobs |-> IF k = j THEN <<>> ELSE batch[k]]
  BY DEF Types
<1>2. DOMAIN <<>> = {}
  OBVIOUS
<1> QED
  BY <1>1, <1>2 DEF Types

\* Writing its row, a task changes its status, and what it counted if it says so.
LEMMA WriteRow ==
  ASSUME Types, NEW j \in Jobs, NEW new \in JobRow, Write(j, new)
  PROVE  /\ jobs' \in [Jobs -> JobRow] /\ copy' \in [Jobs -> JobRow]
         /\ copy'[j] = new
         /\ \A k \in Jobs \ {j} : copy'[k] = copy[k] /\ jobs'[k] = jobs[k]
         /\ jobs'[j].mode = jobs[j].mode /\ jobs'[j].total = jobs[j].total
         /\ jobs'[j].status = Merged(jobs[j].status, copy[j].status, new.status)
         /\ jobs'[j].processed = Merged(jobs[j].processed, copy[j].processed, new.processed)
<1> DEFINE row == WrittenRow(jobs[j], copy[j], new)
<1>1. jobs[j] \in JobRow /\ copy[j] \in JobRow
  BY DEF Types
<1>2. row \in JobRow
  BY <1>1 DEF WrittenRow, JobRow, Merged
<1>3. jobs' = [jobs EXCEPT ![j] = row] /\ copy' = [copy EXCEPT ![j] = new]
  BY DEF Write
<1>4. /\ row.mode = jobs[j].mode /\ row.total = jobs[j].total
      /\ row.status = Merged(jobs[j].status, copy[j].status, new.status)
      /\ row.processed = Merged(jobs[j].processed, copy[j].processed, new.processed)
  BY <1>1 DEF WrittenRow, JobRow, Merged
<1> HIDE DEF row
<1> QED
  BY <1>2, <1>3, <1>4 DEF Types

\* The row of a job and what it counted, for the other jobs.
LEMMA TaskKept ==
  ASSUME Types, NEW j \in Jobs, Task(j), Counted(j), listing' = listing,
         moved'[j] = moved[j], jobs'[j] = jobs[j], copy'[j] = copy[j], pc'[j] = pc[j], last'[j] = last[j],
         batch'[j] = batch[j], items'[j] = items[j]
  PROVE  Task(j)' /\ Counted(j)'
<1>1. Task(j)'
  BY DEF Task, Begun
<1>2. Counted(j)'
  BY DEF Counted, Counts, Begun
<1> QED
  BY <1>1, <1>2
-----------------------------------------------------------------------------
(* The task of a job. *)

\* The initial state satisfies the inductive invariant.
LEMMA InitIInv == Init => IInv
<1> SUFFICES ASSUME Init PROVE IInv
  OBVIOUS
<1> USE DEF Init
<1>1. Types
  <2>1. NoJob \in JobRow
    BY SizeAssumption DEF NoJob, JobRow
  <2>2. /\ questions \in [Questions -> Question]
        /\ listing \in [Questions -> {"awaited", "listed", "unlisted", "deleted"}]
    BY BankAssumption
  <2>3. \A j \in Jobs : DOMAIN batch[j] = {}
    OBVIOUS
  <2> QED
    BY <2>1, <2>2, <2>3, SizeAssumption DEF Types, Places
<1>2. \A a \in Admins : op[a].kind = "none"
  BY DEF Nothing
<1>3. StartsFit
  <2>1. Starting = {}
    BY <1>2 DEF Starting
  <2>2. IsFiniteSet(Jobs)
    BY SizeAssumption, FS_Interval DEF Jobs
  <2>3. IsFiniteSet(Unused)
    BY <2>2, FS_Subset DEF Unused
  <2> QED
    BY <2>1, <2>3, FS_EmptySet, FS_CardinalityType DEF StartsFit
<1>4. ASSUME NEW j \in Jobs PROVE Task(j) /\ Counted(j) /\ Data(j)
  <2>1. ~Begun(j) /\ jobs[j] = NoJob /\ copy[j] = NoJob
    BY DEF Begun, NoJob
  <2>2. Task(j) /\ Counted(j)
    BY <2>1 DEF Task, Counted, NoJob
  <2>3. Asks(j) /\ Gaps(j) /\ Whole(j)
    BY <2>1 DEF Asks, Gaps, Whole
  <2>4. Rolls(j)
    BY <1>2 DEF Rolls
  <2> QED
    BY <2>2, <2>3, <2>4 DEF Data
<1>5. \A a \in Admins : Request(a)
  BY <1>2 DEF Request
<1> QED
  BY <1>1, <1>3, <1>4, <1>5 DEF IInv

\* What a step of a task leaves alone.
Same(k) ==
  /\ jobs'[k] = jobs[k] /\ copy'[k] = copy[k] /\ pc'[k] = pc[k] /\ last'[k] = last[k]
  /\ batch'[k] = batch[k] /\ items'[k] = items[k] /\ base'[k] = base[k]
  /\ touched'[k] = touched[k] /\ moved'[k] = moved[k]

\* A step of a task that leaves the bank, the requests and the other jobs alone.
LEMMA TaskStep ==
  ASSUME IInv, NEW j \in Jobs, Types',
         questions' = questions, listing' = listing, op' = op, seen' = seen,
         \A k \in Jobs \ {j} : Same(k),
         jobs[j].status # "absent", jobs'[j].status # "absent",
         pc[j] = "ended" => pc'[j] = "ended", Begun(j) => Begun(j)',
         Task(j)', Counted(j)', Data(j)'
  PROVE  IInv'
<1>1. Types /\ StartsFit /\ \A a \in Admins : Request(a)
  BY DEF IInv
<1>2. StartsFit' /\ \A a \in Admins : Request(a)'
  <2>1. ASSUME NEW k \in Jobs
        PROVE  /\ jobs'[k].status = "absent" <=> jobs[k].status = "absent"
               /\ pc[k] = "ended" => pc'[k] = "ended"
               /\ Begun(k) => Begun(k)'
    BY DEF Same, Begun
  <2> QED
    BY <1>1, <2>1, RequestsKept
<1>3. ASSUME NEW k \in Jobs PROVE Task(k)' /\ Counted(k)' /\ Data(k)'
  <2>1. CASE k # j
    <3>1. Task(k) /\ Counted(k) /\ Data(k) /\ Same(k)
      BY <2>1 DEF IInv
    <3>2. Task(k)' /\ Counted(k)'
      BY <1>1, <3>1, TaskKept DEF Same
    <3>3. last[k] \in Nat
      BY <1>1, SizeAssumption DEF Types
    <3>4. \A a \in Admins : op[a].kind = "rollback" /\ op[a].job = k => Begun(k)
      BY <1>1 DEF Request
    <3>5. Data(k)'
      BY <1>1, <3>1, <3>3, <3>4, DataKept DEF Begun, Same
    <3> QED
      BY <3>2, <3>5
  <2> QED
    BY <2>1
<1> QED
  BY <1>2, <1>3 DEF IInv

\* What an earlier step of its task said of the data of a job is so after one that
\* changes none of them.
LEMMA OwnDataKept ==
  ASSUME IInv, NEW j \in Jobs, questions' = questions, listing' = listing, op' = op,
         seen' = seen, items' = items, base' = base, touched' = touched, last' = last,
         copy'[j].mode = copy[j].mode, Begun(j)' <=> Begun(j), pc'[j] # "asking"
  PROVE  Data(j)'
<1>1. Types /\ Task(j) /\ Data(j) /\ \A a \in Admins : Request(a)
  BY DEF IInv
<1>2. last[j] \in Nat
  BY <1>1, SizeAssumption DEF Types
<1>3. \A a \in Admins : op[a].kind = "rollback" /\ op[a].job = j => Begun(j)
  BY <1>1 DEF Request
<1> QED
  BY <1>1, <1>2, <1>3, DataKept

\* A task begins with the bank as it is, and with nothing recorded.
LEMMA BeginKeeps ==
  ASSUME IInv, NEW j \in Jobs, Begin(j)
  PROVE  IInv'
<1> DEFINE row == [jobs[j] EXCEPT
       !.status = "running", !.cancel = FALSE, !.beat = TRUE,
       !.total = Cardinality(Matching(jobs[j].mode)), !.processed = 0]
<1>1. Types /\ Task(j) /\ Data(j) /\ StartsFit /\ \A a \in Admins : Request(a)
  BY DEF IInv
<1>2. /\ pc[j] = "waiting" /\ pc' = [pc EXCEPT ![j] = "loop"]
      /\ copy' = [copy EXCEPT ![j] = row] /\ jobs' = [jobs EXCEPT ![j] = row]
      /\ base' = [base EXCEPT ![j] = questions] /\ touched' = [touched EXCEPT ![j] = {}]
      /\ moved' = [moved EXCEPT ![j] = {}]
      /\ UNCHANGED <<questions, listing, items, last, batch, op, seen>>
  BY <1>1 DEF Begin, Types
<1>3. ~Begun(j) /\ last[j] = 0 /\ \A q \in Questions : items[j][q] = Nothing
  BY <1>1, <1>2 DEF Task
<1>4. Matching(jobs[j].mode) \subseteq Questions
  BY DEF Matching
<1>5. /\ row \in JobRow /\ row.status = "running" /\ row.processed = 0
      /\ row.mode = jobs[j].mode
      /\ row.total = Cardinality(Matching(jobs[j].mode))
  <2>1. Cardinality(Matching(jobs[j].mode)) \in 0 .. NQuestions
    BY <1>4, SubsetsOfTheBank
  <2>2. jobs[j] \in JobRow
    BY <1>1 DEF Types
  <2> QED
    BY <2>1, <2>2 DEF JobRow, Active
<1> HIDE DEF row
<1>6. Types'
  BY <1>1, <1>2, <1>5 DEF Types, Places
<1>7. /\ jobs'[j] = row /\ copy'[j] = row /\ pc'[j] = "loop" /\ last'[j] = 0
      /\ base'[j] = questions /\ items'[j] = items[j] /\ moved'[j] = {}
  BY <1>1, <1>2, <1>3 DEF Types
<1>8. Begun(j)' /\ jobs[j].status # "absent" /\ jobs'[j].status # "absent"
  BY <1>1, <1>2, <1>5, <1>7 DEF Begun, Task
<1>9. Task(j)'
  BY <1>5, <1>7, <1>8 DEF Task
<1>10. Counted(j)'
  <2> SUFFICES ASSUME row.mode = "reclassify_all" PROVE Counted(j)'
    BY <1>7 DEF Counted
  <2>1. PICK first \in SUBSET Questions : first = Matching(row.mode)
    BY <1>4, <1>5
  <2>2. \A q \in Questions : listing[q] = "listed" <=> q \in first
    BY <2>1 DEF Matching
  <2>3. \A q \in first : 0 < q
    BY <2>1, SizeAssumption DEF Questions
  <2>4. Counts(j, first, {})'
    BY <1>2, <1>5, <1>7, <2>1, <2>2, <2>3, FS_EmptySet DEF Counts
  <2> QED
    BY <2>4 DEF Counted
<1>11. Asks(j)' /\ Gaps(j)' /\ Whole(j)'
  BY <1>2, <1>3, <1>7 DEF Asks, Gaps, Whole, Keeps
<1>12. Rolls(j)'
  BY <1>2, <1>7 DEF Rolls
<1>13. \A k \in Jobs \ {j} : Same(k)
  BY <1>1, <1>2 DEF Types, Same
<1> QED
  BY <1>2, <1>6, <1>8, <1>9, <1>10, <1>11, <1>12, <1>13, TaskStep DEF Data
\* A task that writes its row keeps it in step with its copy.
LEMMA WrittenTask ==
  ASSUME IInv, NEW j \in Jobs, NEW new \in JobRow, Write(j, new),
         pc[j] \in {"loop", "asking"}, pc'[j] \in {"loop", "asking", "ended"},
         new.status # "absent", new.mode = copy[j].mode, new.total = copy[j].total,
         new.status # copy[j].status /\ new.status = "completed" => pc'[j] = "ended"
  PROVE  /\ Task(j)' /\ Begun(j) /\ Begun(j)'
         /\ jobs[j].status # "absent" /\ jobs'[j].status # "absent"
         /\ jobs'[j].status = "completed" => new.status # copy[j].status /\ new.status = "completed"
<1>1. Types /\ Task(j)
  BY DEF IInv
<1>2. /\ copy'[j] = new
      /\ jobs'[j].mode = jobs[j].mode /\ jobs'[j].total = jobs[j].total
      /\ jobs'[j].status = Merged(jobs[j].status, copy[j].status, new.status)
      /\ jobs'[j].processed = Merged(jobs[j].processed, copy[j].processed, new.processed)
  BY <1>1, WriteRow
<1>3. Begun(j) /\ jobs[j].status # "absent" /\ jobs[j].status # "completed"
  BY <1>1 DEF Task
<1>4. Begun(j)'
  BY <1>2 DEF Begun
<1>5. jobs'[j].processed = new.processed
  BY <1>1, <1>2, <1>3 DEF Task, Merged
<1>6. Task(j)'
  BY <1>1, <1>2, <1>3, <1>4, <1>5 DEF Task, Merged
<1> QED
  BY <1>2, <1>3, <1>4, <1>6 DEF Merged

\* A batch that was asked about is counted.
LEMMA AskedRow ==
  ASSUME Types, NEW j \in Jobs
  PROVE  /\ Asked(j) \in JobRow /\ Asked(j).status = copy[j].status
         /\ Asked(j).mode = copy[j].mode /\ Asked(j).total = copy[j].total
         /\ Asked(j).processed = copy[j].processed + Cardinality(DOMAIN batch[j])
<1>1. copy[j] \in JobRow /\ DOMAIN batch[j] \subseteq Questions
  BY DEF Types
<1>2. Cardinality(DOMAIN batch[j]) \in 0 .. NQuestions
  BY <1>1, SubsetsOfTheBank
<1> QED
  BY <1>1, <1>2, SizeAssumption DEF Asked, JobRow

\* The questions of the batch are counted with the others.
LEMMA CountedAsked ==
  ASSUME Types, NEW j \in Jobs, pc[j] = "asking", Counted(j), Begun(j),
         pc'[j] = "loop", last'[j] = last[j], listing' = listing, moved'[j] = moved[j],
         jobs'[j].status # "completed",
         copy'[j].mode = copy[j].mode, copy'[j].total = copy[j].total,
         copy'[j].processed = copy[j].processed + Cardinality(DOMAIN batch[j])
  PROVE  Counted(j)'
<1> SUFFICES ASSUME copy[j].mode = "reclassify_all" PROVE Counted(j)'
  BY DEF Counted
<1>1. PICK first, passed \in SUBSET Questions : Counts(j, first, passed)
  BY DEF Counted
<1>2. Cardinality(passed) \in 0 .. NQuestions
  BY SubsetsOfTheBank
<1>3. Counts(j, first, passed)'
  BY <1>1, <1>2, SizeAssumption DEF Counts
<1> QED
  BY <1>3 DEF Counted

\* A batch the AI fails on is counted like the others.
LEMMA RefusedKeeps ==
  ASSUME IInv, NEW j \in Jobs, Refused(j)
  PROVE  IInv'
<1>1. Types /\ Counted(j)
  BY DEF IInv
<1>2. /\ pc[j] = "asking" /\ Write(j, Asked(j)) /\ pc' = [pc EXCEPT ![j] = "loop"]
      /\ batch' = [batch EXCEPT ![j] = <<>>]
      /\ UNCHANGED <<questions, listing, moved, items, last, op, seen, base, touched>>
  BY DEF Refused, ghost
<1>3. pc'[j] = "loop"
  BY <1>1, <1>2 DEF Types
<1>4. copy[j].status # "absent"
  BY <1>2 DEF IInv, Task, Begun
<1>5. /\ Task(j)' /\ Begun(j) /\ Begun(j)' /\ jobs[j].status # "absent"
      /\ jobs'[j].status # "absent" /\ jobs'[j].status # "completed"
  BY <1>1, <1>2, <1>3, <1>4, AskedRow, WrittenTask
<1>6. /\ jobs' \in [Jobs -> JobRow] /\ copy' \in [Jobs -> JobRow] /\ copy'[j] = Asked(j)
      /\ \A k \in Jobs \ {j} : copy'[k] = copy[k] /\ jobs'[k] = jobs[k]
  BY <1>1, <1>2, AskedRow, WriteRow
<1>7. Types'
  BY <1>1, <1>2, <1>6, BatchCleared DEF Types, Places
<1>8. Counted(j)'
  <2>1. /\ copy'[j].mode = copy[j].mode /\ copy'[j].total = copy[j].total
        /\ copy'[j].processed = copy[j].processed + Cardinality(DOMAIN batch[j])
    BY <1>1, <1>6, AskedRow
  <2> QED
    BY <1>1, <1>2, <1>3, <1>5, <2>1, CountedAsked
<1>9. Data(j)'
  BY <1>1, <1>2, <1>3, <1>5, <1>6, AskedRow, OwnDataKept
<1>10. \A k \in Jobs \ {j} : Same(k)
  BY <1>1, <1>2, <1>6 DEF Types, Same
<1> QED
  BY <1>2, <1>3, <1>5, <1>7, <1>8, <1>9, <1>10, TaskStep

\* A task that finds no question left has counted them all.
LEMMA CompleteKeeps ==
  ASSUME IInv, NEW j \in Jobs, Complete(j)
  PROVE  IInv'
<1> DEFINE new == [copy[j] EXCEPT !.status = "completed"]
<1>1. Types /\ Counted(j) /\ Task(j)
  BY DEF IInv
<1>2. /\ pc[j] = "loop" /\ NextBatch(j) = {} /\ Write(j, new) /\ pc' = [pc EXCEPT ![j] = "ended"]
      /\ UNCHANGED <<questions, listing, moved, items, last, batch, op, seen, base, touched>>
  BY DEF Complete, ghost
<1>3. /\ new \in JobRow /\ new.status = "completed" /\ new.mode = copy[j].mode
      /\ new.total = copy[j].total /\ new.processed = copy[j].processed
  <2>1. copy[j] \in JobRow
    BY <1>1 DEF Types
  <2> QED
    BY <2>1 DEF JobRow
<1> HIDE DEF new
<1>4. pc'[j] = "ended"
  BY <1>1, <1>2 DEF Types
<1>5. /\ Task(j)' /\ Begun(j) /\ Begun(j)' /\ jobs[j].status # "absent"
      /\ jobs'[j].status # "absent"
  BY <1>2, <1>3, <1>4, WrittenTask
<1>6. /\ jobs' \in [Jobs -> JobRow] /\ copy' \in [Jobs -> JobRow] /\ copy'[j] = new
      /\ \A k \in Jobs \ {j} : copy'[k] = copy[k] /\ jobs'[k] = jobs[k]
  BY <1>1, <1>2, <1>3, WriteRow
<1>7. Types'
  BY <1>1, <1>2, <1>6 DEF Types, Places
<1>8. Counted(j)'
  <2> SUFFICES ASSUME copy[j].mode = "reclassify_all" PROVE Counted(j)'
    BY <1>3, <1>6 DEF Counted
  <2>1. PICK first, passed \in SUBSET Questions : Counts(j, first, passed)
    BY <1>1, <1>5 DEF Counted
  <2>2. jobs[j].mode = "reclassify_all"
    BY <1>1, <1>5 DEF Task
  <2>3. \A q \in Questions : listing[q] = "listed" => q <= last[j]
    BY <1>1, <1>2, <2>2, BatchInOrder DEF Matching
  <2>4. last[j] \in Nat /\ first \subseteq Questions /\ \A q \in first : q \in Nat
    BY <1>1, <2>1, SizeAssumption DEF Types, Questions
  <2>5. first \subseteq passed \cup moved[j]
    <3> SUFFICES ASSUME NEW q \in first, q \notin passed \cup moved[j] PROVE FALSE
      OBVIOUS
    <3>1. listing[q] = "listed" /\ last[j] < q
      BY <1>2, <2>1 DEF Counts
    <3> QED
      BY <2>3, <2>4, <3>1
  <2>6. Counts(j, first, passed)'
    BY <1>2, <1>3, <1>4, <1>6, <2>1, <2>5 DEF Counts
  <2> QED
    BY <2>6 DEF Counted
<1>9. Data(j)'
  BY <1>2, <1>3, <1>4, <1>5, <1>6, OwnDataKept
<1>10. \A k \in Jobs \ {j} : Same(k)
  BY <1>1, <1>2, <1>6 DEF Types, Same
<1> QED
  BY <1>2, <1>4, <1>5, <1>7, <1>8, <1>9, <1>10, TaskStep

\* A task that fails, or dies, leaves what it has counted.
LEMMA EndKeeps ==
  ASSUME IInv, NEW j \in Jobs, StoreFails(j) \/ Fail(j) \/ Crash(j)
  PROVE  IInv'
<1>1. Types /\ Counted(j) /\ Task(j)
  BY DEF IInv
<1>2. /\ pc[j] \in {"waiting", "loop", "asking"} /\ batch' = [batch EXCEPT ![j] = <<>>]
      /\ UNCHANGED <<questions, listing, moved, items, copy, last, op, seen, base, touched>>
  BY DEF StoreFails, Fail, GiveUp, Crash, ghost, tables
<1>3. \/ jobs' = [jobs EXCEPT ![j].status = "failed"] /\ pc' = [pc EXCEPT ![j] = "ended"]
      \/ jobs' = jobs /\ pc' = [pc EXCEPT ![j] = "lost"]
  BY DEF StoreFails, Fail, GiveUp, Crash, tables
<1>4. /\ jobs' \in [Jobs -> JobRow] /\ \A k \in Jobs \ {j} : jobs'[k] = jobs[k]
      /\ jobs'[j].mode = jobs[j].mode /\ jobs'[j].total = jobs[j].total
      /\ jobs'[j].processed = jobs[j].processed
      /\ jobs'[j].status \in {"failed", jobs[j].status}
  <2> DEFINE row == [jobs[j] EXCEPT !.status = "failed"]
  <2>1. jobs[j] \in JobRow
    BY <1>1 DEF Types
  <2>2. /\ row \in JobRow /\ row.mode = jobs[j].mode /\ row.total = jobs[j].total
        /\ row.processed = jobs[j].processed /\ row.status = "failed"
    BY <2>1 DEF JobRow
  <2>3. jobs' = [jobs EXCEPT ![j] = row] \/ jobs' = jobs
    BY <1>3
  <2> HIDE DEF row
  <2> QED
    BY <1>1, <2>1, <2>2, <2>3 DEF Types
<1>5. pc'[j] \in {"ended", "lost"} /\ pc' \in [Jobs -> Places] /\ \A k \in Jobs \ {j} : pc'[k] = pc[k]
  BY <1>1, <1>3 DEF Types, Places
<1>6. /\ jobs[j].status # "absent" /\ jobs'[j].status # "absent"
      /\ jobs[j].status # "completed" /\ jobs'[j].status # "completed"
  BY <1>1, <1>2, <1>4 DEF Task
<1>7. Types'
  BY <1>1, <1>2, <1>4, <1>5, BatchCleared DEF Types
<1>8. Task(j)'
  BY <1>1, <1>2, <1>4, <1>5, <1>6 DEF Task, Begun
<1>9. Counted(j)'
  BY <1>1, <1>2, <1>5, <1>6 DEF Counted, Counts, Begun
<1>10. Data(j)'
  BY <1>2, <1>5, OwnDataKept DEF Begun
<1>11. \A k \in Jobs \ {j} : Same(k)
  BY <1>1, <1>2, <1>4, <1>5 DEF Types, Same
<1> QED
  BY <1>2, <1>5, <1>6, <1>7, <1>8, <1>9, <1>10, <1>11, TaskStep DEF Begun

\* A round that goes on to the next batch: what it asks about was not asked about.
LEMMA AskKeeps ==
  ASSUME IInv, NEW j \in Jobs, Round(j), ~Seen(j).cancel, ~Seen(j).pause
  PROVE  IInv'
<1> DEFINE m   == CHOOSE q \in NextBatch(j) : \A p \in NextBatch(j) : p <= q
           new == [copy[j] EXCEPT !.status = "running"]
<1>1. Types /\ Counted(j) /\ Task(j) /\ Data(j)
  BY DEF IInv
<1>2. /\ pc[j] = "loop" /\ pc' = [pc EXCEPT ![j] = "asking"]
      /\ UNCHANGED <<questions, listing, moved, items, op, seen, base, touched>>
      /\ NextBatch(j) # {} /\ (Write(j, new) \/ UNCHANGED <<jobs, copy>>)
      /\ last' = [last EXCEPT ![j] = m]
      /\ batch' = [batch EXCEPT ![j] = [q \in NextBatch(j) |-> questions[q]]]
  BY DEF Round, Seen, ghost
<1>3. /\ m \in NextBatch(j) /\ \A p \in NextBatch(j) : p <= m
      /\ m \in 1 .. NQuestions /\ last[j] < m
  BY <1>1, <1>2, LastOfBatch
<1>4. NextBatch(j) \subseteq Questions /\ \A q \in NextBatch(j) : last[j] < q
  BY <1>1, BatchInOrder
<1> HIDE DEF m
<1>5. last[j] \in Nat /\ m \in Nat /\ last'[j] = m /\ pc'[j] = "asking"
  BY <1>1, <1>2, <1>3, SizeAssumption DEF Types
<1>6. batch'[j] = [q \in NextBatch(j) |-> questions[q]] /\ DOMAIN batch'[j] = NextBatch(j)
  BY <1>1, <1>2 DEF Types
<1>7. /\ jobs' \in [Jobs -> JobRow] /\ copy' \in [Jobs -> JobRow]
      /\ \A k \in Jobs \ {j} : copy'[k] = copy[k] /\ jobs'[k] = jobs[k]
      /\ copy'[j].mode = copy[j].mode /\ copy'[j].total = copy[j].total
      /\ copy'[j].processed = copy[j].processed
      /\ Task(j)' /\ Begun(j) /\ Begun(j)' /\ jobs[j].status # "absent"
      /\ jobs'[j].status # "absent" /\ jobs'[j].status # "completed"
  <2>1. CASE Write(j, new)
    <3>1. /\ new \in JobRow /\ new.status = "running" /\ new.mode = copy[j].mode
          /\ new.total = copy[j].total /\ new.processed = copy[j].processed
      <4>1. copy[j] \in JobRow
        BY <1>1 DEF Types
      <4> QED
        BY <4>1 DEF JobRow, Active
    <3> HIDE DEF new
    <3>2. /\ Task(j)' /\ Begun(j) /\ Begun(j)' /\ jobs[j].status # "absent"
          /\ jobs'[j].status # "absent" /\ jobs'[j].status # "completed"
      BY <1>2, <1>5, <2>1, <3>1, WrittenTask
    <3> QED
      BY <1>1, <2>1, <3>1, <3>2, WriteRow
  <2>2. CASE UNCHANGED <<jobs, copy>>
    <3>1. Begun(j) /\ Begun(j)' /\ jobs[j].status # "absent" /\ jobs[j].status # "completed"
      BY <1>1, <1>2, <2>2 DEF Task, Begun
    <3>2. Task(j)'
      BY <1>1, <1>5, <2>2, <3>1 DEF Task
    <3> QED
      BY <1>1, <2>2, <3>1, <3>2 DEF Types
  <2> QED
    BY <1>2, <2>1, <2>2
<1>8. Types'
  <2>1. /\ batch' = [k \in Jobs |-> batch'[k]]
        /\ \A k \in Jobs : /\ DOMAIN batch'[k] \subseteq Questions
                           /\ \A q \in DOMAIN batch'[k] : batch'[k][q] \in Question
    <3>1. \A k \in Jobs \ {j} : batch'[k] = batch[k]
      BY <1>1, <1>2 DEF Types
    <3>2. batch' = [k \in Jobs |-> batch'[k]]
      BY <1>1, <1>2 DEF Types
    <3>3. \A q \in NextBatch(j) : batch'[j][q] \in Question
      BY <1>1, <1>4, <1>6 DEF Types
    <3> QED
      BY <1>1, <1>4, <1>6, <3>1, <3>2, <3>3 DEF Types
  <2>2. last' \in [Jobs -> 0 .. NQuestions] /\ pc' \in [Jobs -> Places]
    BY <1>1, <1>2, <1>3 DEF Types, Places
  <2> QED
    BY <1>1, <1>2, <1>7, <2>1, <2>2 DEF Types
<1>9. Counted(j)'
  <2> SUFFICES ASSUME copy[j].mode = "reclassify_all" PROVE Counted(j)'
    BY <1>7 DEF Counted
  <2>1. PICK first, passed \in SUBSET Questions : Counts(j, first, passed)
    BY <1>1, <1>7 DEF Counted
  <2> PICK next \in SUBSET Questions : next = NextBatch(j)
    BY <1>4
  <2> DEFINE now == passed \cup next
  <2>2. Matching(jobs[j].mode) = {q \in Questions : listing[q] = "listed"}
    BY <1>1, <1>7 DEF Task, Matching
  <2>3. /\ next \subseteq Questions /\ \A q \in next : listing[q] = "listed" /\ last[j] < q
        /\ \A q \in Questions : listing[q] = "listed" /\ last[j] < q /\ q <= m => q \in next
    BY <1>1, <1>3, <2>2, BatchInOrder
  <2>4. /\ passed \subseteq Questions /\ first \subseteq Questions
        /\ \A q \in Questions : q \in Nat
    BY <2>1, SizeAssumption DEF Questions
  <2>5. passed \cap next = {}
    <3> SUFFICES ASSUME NEW q \in passed, q \in next PROVE FALSE
      OBVIOUS
    <3>1. q <= last[j] /\ last[j] < q
      BY <2>1, <2>3 DEF Counts
    <3> QED
      BY <1>5, <2>4, <3>1
  <2>6. Cardinality(now) = Cardinality(passed) + Cardinality(next)
    <3>1. IsFiniteSet(passed) /\ IsFiniteSet(next)
      BY <2>3, SubsetsOfTheBank
    <3>2. Cardinality(now) = Cardinality(passed) + Cardinality(next) - Cardinality(passed \cap next)
      BY <3>1, FS_Union
    <3>3. Cardinality(passed) \in Nat /\ Cardinality(next) \in Nat /\ Cardinality(passed \cap next) = 0
      BY <2>5, <3>1, FS_CardinalityType, FS_EmptySet
    <3> QED
      BY <3>2, <3>3
  <2>7. Cardinality(passed) \in Nat /\ Cardinality(next) \in Nat
    BY <2>3, SubsetsOfTheBank, FS_CardinalityType
  <2>8. now \subseteq first \cup moved[j] /\ \A q \in now : q <= m
    <3>1. \A q \in passed : q \in Nat /\ q <= last[j]
      BY <2>1, <2>4 DEF Counts
    <3>2. \A q \in passed : q <= m
      BY <1>3, <1>5, <3>1
    <3>3. \A q \in next : q <= m /\ q \in first \cup moved[j]
      BY <1>2, <1>3, <2>1, <2>3 DEF Counts
    <3> QED
      BY <2>1, <3>2, <3>3 DEF Counts
  <2>9. ASSUME NEW q \in first \ (now \cup moved[j]) PROVE m < q
    <3>1. listing[q] = "listed" /\ last[j] < q
      BY <1>2, <2>1 DEF Counts
    <3>2. ~(q <= m)
      BY <2>3, <3>1
    <3> QED
      BY <1>5, <2>4, <3>2
  <2>10. copy[j].processed = Cardinality(passed)
    BY <1>2, <2>1 DEF Counts
  <2>11. Counts(j, first, now)'
    <3>1. DOMAIN batch'[j] = next
      BY <1>6
    <3> HIDE DEF now
    <3> QED
      BY <1>2, <1>5, <1>7, <2>1, <2>6, <2>7, <2>8, <2>9, <2>10, <3>1 DEF Counts
  <2> QED
    BY <2>3, <2>11 DEF Counted
<1>10. Asks(j)'
  <2> SUFFICES ASSUME NEW q \in Questions
               PROVE  /\ items[j][q] # Nothing => q <= m
                      /\ q \in NextBatch(j) => items[j][q] = Nothing /\ q <= m
                      /\ q \in NextBatch(j) => batch'[j][q] = questions[q]
    BY <1>2, <1>5, <1>6 DEF Asks
  <2>1. q \in Nat
    BY SizeAssumption DEF Questions
  <2>2. items[j][q] # Nothing => q <= last[j]
    BY <1>1 DEF Data, Asks
  <2> QED
    BY <1>3, <1>4, <1>5, <1>6, <2>1, <2>2
<1>11. Data(j)'
  <2>1. Gaps(j)' /\ Whole(j)' /\ Rolls(j)'
    BY <1>1, <1>2, <1>7 DEF Data, Gaps, Whole, Rolls
  <2> QED
    BY <1>10, <2>1 DEF Data
<1>12. \A k \in Jobs \ {j} : Same(k)
  BY <1>1, <1>2, <1>7 DEF Types, Same
<1> QED
  BY <1>2, <1>7, <1>8, <1>9, <1>11, <1>12, TaskStep

\* A round that stops, or waits, changes the status alone.
LEMMA StopKeeps ==
  ASSUME IInv, NEW j \in Jobs, Round(j), Seen(j).cancel \/ Seen(j).pause
  PROVE  IInv'
<1> DEFINE status == IF Seen(j).cancel THEN "canceled" ELSE "paused"
           new    == [copy[j] EXCEPT !.status = status]
<1>1. Types /\ Counted(j) /\ Task(j)
  BY DEF IInv
<1>2. /\ pc[j] = "loop" /\ Write(j, new) /\ UNCHANGED <<last, batch>>
      /\ UNCHANGED <<questions, listing, moved, items, op, seen, base, touched>>
      /\ pc' = pc \/ pc' = [pc EXCEPT ![j] = "ended"]
  BY DEF Round, Seen, ghost
<1>3. /\ new \in JobRow /\ new.status # "absent" /\ new.status # "completed"
      /\ new.mode = copy[j].mode
      /\ new.total = copy[j].total /\ new.processed = copy[j].processed
  <2>1. copy[j] \in JobRow
    BY <1>1 DEF Types
  <2> QED
    BY <2>1 DEF JobRow, Active
<1> HIDE DEF new
<1>4. pc'[j] \in {"loop", "ended"} /\ pc' \in [Jobs -> Places] /\ \A k \in Jobs \ {j} : pc'[k] = pc[k]
  BY <1>1, <1>2 DEF Types, Places
<1>5. /\ Task(j)' /\ Begun(j) /\ Begun(j)' /\ jobs[j].status # "absent"
      /\ jobs'[j].status # "absent" /\ jobs'[j].status # "completed"
  BY <1>2, <1>3, <1>4, WrittenTask
<1>6. /\ jobs' \in [Jobs -> JobRow] /\ copy' \in [Jobs -> JobRow] /\ copy'[j] = new
      /\ \A k \in Jobs \ {j} : copy'[k] = copy[k] /\ jobs'[k] = jobs[k]
  BY <1>1, <1>2, <1>3, WriteRow
<1>7. Types'
  BY <1>1, <1>2, <1>4, <1>6 DEF Types
<1>8. Counted(j)'
  BY <1>1, <1>2, <1>3, <1>4, <1>5, <1>6 DEF Counted, Counts
<1>9. Data(j)'
  BY <1>2, <1>3, <1>4, <1>5, <1>6, OwnDataKept
<1>10. \A k \in Jobs \ {j} : Same(k)
  BY <1>1, <1>2, <1>4, <1>6 DEF Types, Same
<1> QED
  BY <1>2, <1>4, <1>5, <1>7, <1>8, <1>9, <1>10, TaskStep

-----------------------------------------------------------------------------
(* What changes the bank. *)

\* An answer that is merged into the question it was asked about replaces it, or fills
\* what it lacks.
LEMMA MergedOwn ==
  ASSUME NEW loaded \in Question, NEW new \in Question
  PROVE  MergedQuestion(loaded, loaded, new) = new
<1> DEFINE merged == MergedQuestion(loaded, loaded, new)
<1>1. merged = [category |-> new.category, difficulty |-> new.difficulty]
  BY DEF MergedQuestion, Merged
<1>2. new = [category |-> new.category, difficulty |-> new.difficulty]
  BY DEF Question
<1> QED
  BY <1>1, <1>2

LEMMA GapsFilled ==
  ASSUME NEW loaded \in Question, NEW label \in Question, NEW first,
         Keeps(first, loaded)
  PROVE  Keeps(first, Classified("unclassified_only", loaded, label))
BY DEF Keeps, Classified

\* An item is not the absence of one.
LEMMA ItemIsRecorded ==
  ASSUME NEW old, NEW new, NEW applied
  PROVE  [old |-> old, new |-> new, applied |-> applied] # Nothing
BY DEF Nothing

\* What is said of the data of a job is kept by whoever changes the bank: what they
\* change counts as touched.
LEMMA OthersKept ==
  ASSUME Types, NEW k \in Jobs, Task(k), Data(k), NEW others, k \in others, listing' = listing,
         Touch(others, questions'), copy'[k] = copy[k], pc'[k] = pc[k], last'[k] = last[k],
         batch'[k] = batch[k], items'[k] = items[k], base'[k] = base[k],
         \A a \in Admins : op[a].kind = "rollback" /\ op[a].job = k => Begun(k),
         \A a \in Admins : op'[a].kind = "rollback" =>
            op'[a] = op[a] /\ seen'[a] = seen[a]
  PROVE  Data(k)'
<1>1. touched[k] \subseteq touched'[k]
  BY DEF Touch
<1>2. Begun(k) => touched'[k] = touched[k] \cup {q \in Questions : questions'[q] # questions[q]}
  BY DEF Touch, Begun, NoJob
<1>3. Begun(k) => \A q \in Questions \ touched'[k] : questions'[q] = questions[q]
  BY <1>2
<1>4. last[k] \in Nat
  BY SizeAssumption DEF Types
<1> QED
  BY <1>1, <1>3, <1>4, DataKept DEF Begun

\* Who changes the bank touches questions of it.
LEMMA TouchType ==
  ASSUME Types, NEW others, NEW new, Touch(others, new)
  PROVE  touched' \in [Jobs -> SUBSET Questions]
BY DEF Touch, Types

\* What Store makes of the bank and of the items of a job.
AnsweredIn(j, answer) == {q \in DOMAIN batch[j] : answer[q] # Nothing}

BankAfter(j, answer) ==
  [q \in Questions |->
     IF q \in AnsweredIn(j, answer) /\ ~copy[j].dry
     THEN MergedQuestion(questions[q], batch[j][q],
            Classified(copy[j].mode, batch[j][q], answer[q]))
     ELSE questions[q]]

ItemsAfter(j, answer) ==
  [q \in Questions |->
     IF q \in AnsweredIn(j, answer)
     THEN [old |-> batch[j][q], new |-> answer[q], applied |-> ~copy[j].dry]
     ELSE items[j][q]]

\* An answer is recorded, and classifies the questions the task still has to itself.
LEMMA StoreData ==
  ASSUME IInv, NEW j \in Jobs, pc[j] = "asking",
         NEW answer \in [DOMAIN batch[j] -> Labels \cup {Nothing}],
         questions' = BankAfter(j, answer), items'[j] = ItemsAfter(j, answer),
         touched'[j] = touched[j], base'[j] = base[j],
         last'[j] = last[j], copy'[j].mode = copy[j].mode, Begun(j)', pc'[j] = "loop",
         op' = op, seen' = seen
  PROVE  /\ BankAfter(j, answer) \in [Questions -> Question]
         /\ ItemsAfter(j, answer) \in [Questions -> Item \cup {Nothing}]
         /\ Data(j)'
<1> DEFINE answered == AnsweredIn(j, answer)
           new      == BankAfter(j, answer)
           found    == ItemsAfter(j, answer)
<1> USE DEF AnsweredIn, BankAfter, ItemsAfter
<1>1. Types /\ Task(j) /\ Data(j) /\ \A a \in Admins : Request(a)
  BY DEF IInv
<1>2. Begun(j) /\ copy[j] \in JobRow /\ copy[j].dry \in BOOLEAN
  BY <1>1 DEF Types, Task, JobRow
<1>3. ASSUME NEW q \in answered
      PROVE  /\ q \in Questions /\ batch[j][q] \in Question /\ questions[q] \in Question
             /\ answer[q] \in Labels /\ answer[q] \in Question
             /\ Classified(copy[j].mode, batch[j][q], answer[q]) \in Question
             /\ items[j][q] = Nothing /\ q <= last[j]
             /\ q \notin touched[j] => batch[j][q] = questions[q]
  <2>1. q \in Questions /\ batch[j][q] \in Question /\ questions[q] \in Question
    BY <1>1 DEF Types
  <2>2. answer[q] \in Labels
    OBVIOUS
  <2>3. /\ items[j][q] = Nothing /\ q <= last[j]
        /\ q \notin touched[j] => batch[j][q] = questions[q]
    BY <1>1, <2>1 DEF Data, Asks
  <2> QED
    BY <2>1, <2>2, <2>3, ClassifiedType
<1>4. new \in [Questions -> Question]
  <2>1. ASSUME NEW q \in answered
        PROVE  MergedQuestion(questions[q], batch[j][q],
                 Classified(copy[j].mode, batch[j][q], answer[q])) \in Question
    BY <1>3, MergedType
  <2> QED
    BY <1>1, <2>1 DEF Types
<1>5. found \in [Questions -> Item \cup {Nothing}]
  <2>1. ASSUME NEW q \in answered
        PROVE  [old |-> batch[j][q], new |-> answer[q], applied |-> ~copy[j].dry] \in Item
    BY <1>2, <1>3 DEF Item
  <2> QED
    BY <1>1, <2>1 DEF Types
<1>6. ASSUME NEW q \in answered
      PROVE  /\ found[q] # Nothing /\ found[q].old = batch[j][q] /\ found[q].new = answer[q]
             /\ found[q].applied = ~copy[j].dry
  BY <1>3, ItemIsRecorded
<1>7. \A q \in Questions \ answered : found[q] = items[j][q] /\ new[q] = questions[q]
  OBVIOUS
<1>8. Asks(j)'
  BY <1>1, <1>3, <1>7 DEF Data, Asks
<1>9. Gaps(j)'
  <2> SUFFICES ASSUME copy[j].mode = "unclassified_only", NEW q \in Questions \ touched[j]
               PROVE  /\ Keeps(base[j][q], new[q])
                      /\ found[q] # Nothing => Keeps(base[j][q], found[q].old)
    BY DEF Gaps
  <2>1. Keeps(base[j][q], questions[q])
    BY <1>1, <1>2 DEF Data, Gaps
  <2>2. CASE q \in answered
    <3>1. batch[j][q] = questions[q]
      BY <1>3, <2>2
    <3>2. Keeps(base[j][q], Classified(copy[j].mode, questions[q], answer[q]))
      BY <1>3, <2>1, <2>2, <3>1, GapsFilled
    <3>3. new[q] = questions[q] \/ new[q] = Classified(copy[j].mode, questions[q], answer[q])
      BY <1>3, <2>2, <3>1, MergedOwn
    <3> QED
      BY <1>6, <2>1, <2>2, <3>1, <3>2, <3>3
  <2>3. CASE q \notin answered
    BY <1>1, <1>2, <1>7, <2>3 DEF Data, Gaps
  <2> QED
    BY <2>2, <2>3
<1>10. Whole(j)'
  <2> SUFFICES ASSUME copy[j].mode = "reclassify_all", NEW q \in Questions \ touched[j]
               PROVE  /\ found[q] = Nothing => new[q] = base[j][q]
                      /\ found[q] # Nothing =>
                           /\ found[q].old = base[j][q]
                           /\ \/ new[q] = base[j][q]
                              \/ found[q].applied /\ new[q] = found[q].new
    BY DEF Whole
  <2>1. CASE q \in answered
    <3>1. batch[j][q] = questions[q] /\ questions[q] = base[j][q]
      BY <1>1, <1>2, <1>3, <2>1 DEF Data, Whole
    <3>2. Classified(copy[j].mode, questions[q], answer[q]) = answer[q]
      BY DEF Classified
    <3>3. copy[j].dry => new[q] = questions[q]
      OBVIOUS
    <3>4. ~copy[j].dry => new[q] = answer[q]
      BY <1>3, <2>1, <3>1, <3>2, MergedOwn
    <3> QED
      BY <1>6, <2>1, <3>1, <3>3, <3>4
  <2>2. CASE q \notin answered
    BY <1>1, <1>2, <1>7, <2>2 DEF Data, Whole
  <2> QED
    BY <2>1, <2>2
<1>11. Rolls(j)'
  BY <1>1 DEF Request, Rolls
<1> QED
  BY <1>4, <1>5, <1>8, <1>9, <1>10, <1>11 DEF Data

LEMMA StoreKeeps ==
  ASSUME IInv, NEW j \in Jobs, Store(j)
  PROVE  IInv'
<1>1. Types /\ Counted(j) /\ Task(j) /\ StartsFit /\ \A a \in Admins : Request(a)
  BY DEF IInv
<1>2. /\ pc[j] = "asking" /\ Write(j, Asked(j)) /\ pc' = [pc EXCEPT ![j] = "loop"]
      /\ batch' = [batch EXCEPT ![j] = <<>>]
      /\ UNCHANGED <<listing, moved, last, op, seen, base>>
  BY DEF Store
<1>3. PICK answer \in [DOMAIN batch[j] -> Labels \cup {Nothing}] :
        /\ questions' = BankAfter(j, answer)
        /\ items' = [items EXCEPT ![j] = ItemsAfter(j, answer)]
        /\ Touch(Jobs \ {j}, BankAfter(j, answer))
  BY <1>1 DEF Store, Types, AnsweredIn, BankAfter, ItemsAfter
<1> DEFINE new   == BankAfter(j, answer)
           found == ItemsAfter(j, answer)
<1>4. questions' = new /\ items' = [items EXCEPT ![j] = found] /\ Touch(Jobs \ {j}, new)
  BY <1>3
<1>5. items'[j] = found /\ \A k \in Jobs \ {j} : items'[k] = items[k]
  BY <1>1, <1>4 DEF Types
<1>6. pc'[j] = "loop" /\ touched'[j] = touched[j]
  BY <1>1, <1>2, <1>4 DEF Types, Touch
<1>7. copy[j].status # "absent"
  BY <1>1, <1>2 DEF Task, Begun
<1>8. /\ Task(j)' /\ Begun(j) /\ Begun(j)' /\ jobs[j].status # "absent"
      /\ jobs'[j].status # "absent" /\ jobs'[j].status # "completed"
  BY <1>1, <1>2, <1>6, <1>7, AskedRow, WrittenTask
<1>9. /\ jobs' \in [Jobs -> JobRow] /\ copy' \in [Jobs -> JobRow] /\ copy'[j] = Asked(j)
      /\ \A k \in Jobs \ {j} : copy'[k] = copy[k] /\ jobs'[k] = jobs[k]
  BY <1>1, <1>2, AskedRow, WriteRow
<1>10. copy'[j].mode = copy[j].mode
  BY <1>1, <1>9, AskedRow
<1>11. /\ new \in [Questions -> Question] /\ found \in [Questions -> Item \cup {Nothing}]
       /\ Data(j)'
  <2>1. last'[j] = last[j] /\ base'[j] = base[j]
    BY <1>2
  <2> QED
    BY <1>2, <1>4, <1>5, <1>6, <1>8, <1>10, <2>1, StoreData
<1>12. Types'
  <2>1. questions' \in [Questions -> Question] /\ items' \in [Jobs -> [Questions -> Item \cup {Nothing}]]
    BY <1>1, <1>4, <1>11 DEF Types
  <2>2. touched' \in [Jobs -> SUBSET Questions]
    BY <1>1, <1>4, TouchType
  <2> HIDE DEF new, found
  <2>3. pc' \in [Jobs -> Places]
    BY <1>1, <1>2 DEF Types, Places
  <2> QED
    BY <1>1, <1>2, <1>9, <2>1, <2>2, <2>3, BatchCleared DEF Types
<1> HIDE DEF new, found
<1>13. Counted(j)'
  <2>1. /\ copy'[j].mode = copy[j].mode /\ copy'[j].total = copy[j].total
        /\ copy'[j].processed = copy[j].processed + Cardinality(DOMAIN batch[j])
    BY <1>1, <1>9, AskedRow
  <2> QED
    BY <1>1, <1>2, <1>6, <1>8, <2>1, CountedAsked
<1>14. ASSUME NEW k \in Jobs \ {j} PROVE Task(k)' /\ Counted(k)' /\ Data(k)'
  <2>1. Task(k) /\ Counted(k) /\ Data(k)
    BY DEF IInv
  <2>2. /\ jobs'[k] = jobs[k] /\ copy'[k] = copy[k] /\ pc'[k] = pc[k] /\ last'[k] = last[k]
        /\ batch'[k] = batch[k] /\ items'[k] = items[k] /\ base'[k] = base[k]
    BY <1>1, <1>2, <1>5, <1>9 DEF Types
  <2>3. Task(k)' /\ Counted(k)'
    BY <1>1, <1>2, <2>1, <2>2, TaskKept
  <2>4. \A a \in Admins : op[a].kind = "rollback" /\ op[a].job = k => Begun(k)
    BY <1>1 DEF Request
  <2>5. Data(k)'
    BY <1>1, <1>2, <1>4, <2>1, <2>2, <2>4, OthersKept
  <2> QED
    BY <2>3, <2>5
<1>15. StartsFit' /\ \A a \in Admins : Request(a)'
  <2>1. ASSUME NEW k \in Jobs
        PROVE  /\ jobs'[k].status = "absent" <=> jobs[k].status = "absent"
               /\ pc[k] = "ended" => pc'[k] = "ended"
               /\ Begun(k) => Begun(k)'
    BY <1>1, <1>2, <1>8, <1>9 DEF Types, Begun
  <2> QED
    BY <1>1, <1>2, <2>1, RequestsKept
<1> QED
  BY <1>8, <1>11, <1>12, <1>13, <1>14, <1>15 DEF IInv

\* An edit of a question touches it for every job that began.
LEMMA EditQuestionKeeps ==
  ASSUME IInv, NEW q \in Questions, EditQuestion(q)
  PROVE  IInv'
<1>1. Types /\ StartsFit /\ \A a \in Admins : Request(a)
  BY DEF IInv
<1>2. /\ Touch(Jobs, questions')
      /\ UNCHANGED <<listing, moved, jobs, items, pc, copy, last, batch, op, seen, base>>
  BY DEF EditQuestion, task
<1>3. questions' \in [Questions -> Question]
  BY <1>1 DEF EditQuestion, Types
<1>4. Types'
  BY <1>1, <1>2, <1>3, TouchType DEF Types
<1>5. ASSUME NEW k \in Jobs PROVE Task(k)' /\ Counted(k)' /\ Data(k)'
  <2>1. Task(k) /\ Counted(k) /\ Data(k)
    BY DEF IInv
  <2>2. Task(k)' /\ Counted(k)'
    BY <1>1, <1>2, <2>1, TaskKept
  <2>3. \A a \in Admins : op[a].kind = "rollback" /\ op[a].job = k => Begun(k)
    BY <1>1 DEF Request
  <2>4. Data(k)'
    BY <1>1, <1>2, <2>1, <2>3, OthersKept
  <2> QED
    BY <2>2, <2>4
<1>6. StartsFit' /\ \A a \in Admins : Request(a)'
  BY <1>1, <1>2, RequestsKept DEF Begun
<1> QED
  BY <1>4, <1>5, <1>6 DEF IInv

\* A question that comes, or goes, counts as moved for every task that runs.
LEMMA MoveKeeps ==
  ASSUME IInv, NEW q \in Questions, Enter(q) \/ Leave(q) \/ DeleteQuestion(q)
  PROVE  IInv'
<1>1. Types /\ StartsFit /\ \A a \in Admins : Request(a)
  BY DEF IInv
<1>2. PICK to \in {"listed", "unlisted", "deleted"} :
        /\ listing[q] # "deleted" /\ listing' = [listing EXCEPT ![q] = to]
        /\ moved' = [j \in Jobs |->
                       IF pc[j] \in {"loop", "asking"} THEN moved[j] \cup {q} ELSE moved[j]]
        /\ UNCHANGED <<questions, jobs, items, pc, copy, last, batch, op, seen, base, touched>>
  BY DEF Enter, Leave, DeleteQuestion, There, Move, task
<1>3. Types'
  BY <1>1, <1>2 DEF Types
<1>4. ASSUME NEW k \in Jobs PROVE Task(k)' /\ Counted(k)' /\ Data(k)'
  <2>1. Task(k) /\ Counted(k) /\ Data(k)
    BY DEF IInv
  <2>2. Task(k)'
    BY <1>2, <2>1 DEF Task, Begun
  <2>3. Counted(k)'
    <3> SUFFICES ASSUME Begun(k), copy[k].mode = "reclassify_all" PROVE Counted(k)'
      BY <1>2 DEF Counted, Begun
    <3>1. PICK first, passed \in SUBSET Questions : Counts(k, first, passed)
      BY <2>1 DEF Counted
    <3>2. /\ moved[k] \subseteq moved'[k] /\ pc[k] \in {"loop", "asking"} => q \in moved'[k]
          /\ \A p \in Questions \ {q} : listing'[p] = listing[p]
      BY <1>1, <1>2 DEF Types
    <3>3. Counts(k, first, passed)'
      BY <1>2, <3>1, <3>2 DEF Counts
    <3> QED
      BY <3>3 DEF Counted
  <2>4. \A p \in Questions : listing[p] = "deleted" => listing'[p] = "deleted"
    BY <1>1, <1>2 DEF Types
  <2>5. last[k] \in Nat
    BY <1>1, SizeAssumption DEF Types
  <2>6. \A a \in Admins : op[a].kind = "rollback" /\ op[a].job = k => Begun(k)
    BY <1>1 DEF Request
  <2>7. Data(k)'
    BY <1>1, <1>2, <2>1, <2>4, <2>5, <2>6, DataKept DEF Begun
  <2> QED
    BY <2>2, <2>3, <2>7
<1>5. StartsFit' /\ \A a \in Admins : Request(a)'
  BY <1>1, <1>2, RequestsKept DEF Begun
<1> QED
  BY <1>3, <1>4, <1>5 DEF IInv

\* A request that is answered leaves the others.
LEMMA Answered ==
  ASSUME Types, NEW a \in Admins, Answer(a)
  PROVE  /\ op' = [b \in Admins |-> op'[b]] /\ seen' = [b \in Admins |-> seen'[b]]
         /\ op'[a].kind = "none" /\ Starting' \subseteq Starting \ {a}
         /\ \A b \in Admins \ {a} : op'[b] = op[b] /\ seen'[b] = seen[b]
<1>1. /\ op' = [b \in Admins |-> IF b = a THEN Nothing ELSE op[b]]
      /\ seen' = [b \in Admins |-> IF b = a THEN Nothing ELSE seen[b]]
  BY DEF Answer, Types
<1>2. Nothing.kind = "none"
  BY DEF Nothing
<1> QED
  BY <1>1, <1>2 DEF Starting

\* The requests in flight do not notice that another is answered.
LEMMA RequestsAnswered ==
  ASSUME IInv, NEW a \in Admins, Answer(a), UNCHANGED copy,
         \A j \in Jobs : /\ jobs[j].status # "absent" => jobs'[j].status # "absent"
                         /\ pc[j] = "ended" => pc'[j] = "ended"
  PROVE  \A b \in Admins : Request(b)'
<1>1. Types /\ \A b \in Admins : Request(b)
  BY DEF IInv
<1>2. SUFFICES ASSUME NEW b \in Admins PROVE Request(b)'
  OBVIOUS
<1>3. CASE b = a
  BY <1>1, <1>3, Answered DEF Request
<1>4. CASE b # a
  BY <1>1, <1>4, Answered DEF Request, Begun
<1> QED
  BY <1>3, <1>4

\* There are finitely many jobs and requests.
LEMMA Finite ==
  /\ IsFiniteSet(Unused) /\ Cardinality(Unused) \in Nat
  /\ IsFiniteSet(Starting) /\ Cardinality(Starting) \in Nat
<1>1. IsFiniteSet(Jobs)
  BY SizeAssumption, FS_Interval DEF Jobs
<1>2. Unused \subseteq Jobs /\ Starting \subseteq Admins
  BY DEF Unused, Starting
<1>3. IsFiniteSet(Unused) /\ IsFiniteSet(Starting)
  BY <1>1, <1>2, AdminAssumption, FS_Subset
<1> QED
  BY <1>3, FS_CardinalityType

\* Fewer jobs are about to start, so there is still one for each.
LEMMA StartsAnswered ==
  ASSUME IInv, NEW a \in Admins, Answer(a), Unused' = Unused
  PROVE  StartsFit'
<1>1. Types /\ StartsFit
  BY DEF IInv
<1>2. Starting' \subseteq Starting
  BY <1>1, Answered
<1>3. /\ IsFiniteSet(Starting') /\ Cardinality(Starting') <= Cardinality(Starting)
      /\ Cardinality(Starting') \in Nat
  BY <1>2, Finite, FS_Subset, FS_CardinalityType
<1> QED
  BY <1>1, <1>3, Finite DEF StartsFit

\* An answer that leaves the bank and the task of a job leaves what is said of its data.
LEMMA AnswerData ==
  ASSUME IInv, NEW a \in Admins, Answer(a), NEW j \in Jobs, questions' = questions,
         UNCHANGED <<listing, moved, items, base, copy, last, batch, touched>>,
         pc'[j] = "asking" => pc[j] = "asking"
  PROVE  Data(j)'
<1>1. Types /\ Task(j) /\ Data(j) /\ \A b \in Admins : Request(b)
  BY DEF IInv
<1>2. last[j] \in Nat
  BY <1>1, SizeAssumption DEF Types
<1>3. \A b \in Admins : op'[b].kind = "rollback" /\ op'[b].job = j =>
         Begun(j) /\ op'[b] = op[b] /\ seen'[b] = seen[b]
  BY <1>1, Answered DEF Request
<1> QED
  BY <1>1, <1>2, <1>3, DataKept DEF Begun

\* A row whose status or flags somebody else writes.
LEMMA RowKept ==
  ASSUME NEW j \in Jobs, Task(j), Counted(j), listing' = listing, moved'[j] = moved[j],
         copy'[j] = copy[j], pc'[j] = pc[j],
         last'[j] = last[j], batch'[j] = batch[j], items'[j] = items[j],
         jobs'[j].mode = jobs[j].mode, jobs'[j].total = jobs[j].total,
         jobs'[j].processed = jobs[j].processed,
         jobs'[j].status = "absent" <=> jobs[j].status = "absent",
         jobs'[j].status = "completed" => jobs[j].status = "completed"
  PROVE  Task(j)' /\ Counted(j)'
<1>1. Task(j)'
  BY DEF Task, Begun
<1>2. Counted(j)'
  BY DEF Counted, Counts, Begun
<1> QED
  BY <1>1, <1>2

\* Pausing and canceling write the flags of a row, or end it.
LEMMA ControlKeeps ==
  ASSUME IInv, NEW a \in Admins, Control(a)
  PROVE  IInv'
<1> DEFINE j   == op[a].job
           row == IF op[a].kind = "cancel" THEN CanceledRow(jobs[j], seen[a])
                  ELSE PausedRow(jobs[j], seen[a], op[a].kind = "pause")
<1>1. Types /\ Request(a)
  BY DEF IInv
<1>2. /\ op[a].kind \in {"cancel", "pause", "resume"} /\ jobs' = [jobs EXCEPT ![j] = row]
      /\ Answer(a)
      /\ UNCHANGED <<questions, listing, moved, items, pc, copy, last, batch, base, touched>>
  BY DEF Control, task, ghost
<1>3. j \in Jobs /\ jobs[j].status # "absent" /\ jobs[j] \in JobRow
  BY <1>1, <1>2 DEF Request, Types
<1>4. /\ row \in JobRow /\ row.mode = jobs[j].mode /\ row.total = jobs[j].total
      /\ row.processed = jobs[j].processed /\ row.status \in {jobs[j].status, "canceled"}
  <2>1. CASE op[a].kind = "cancel"
    <3>1. seen[a].dead \in BOOLEAN /\ seen[a].cancel \in BOOLEAN
      BY <1>1, <2>1 DEF Request
    <3> QED
      BY <1>3, <2>1, <3>1 DEF CanceledRow, JobRow, Merged
  <2>2. CASE op[a].kind # "cancel"
    <3>1. seen[a].pause \in BOOLEAN
      BY <1>1, <1>2, <2>2 DEF Request
    <3> QED
      BY <1>3, <2>2, <3>1 DEF PausedRow, JobRow, Merged
  <2> QED
    BY <2>1, <2>2
<1> HIDE DEF row, j
<1>5. /\ jobs' \in [Jobs -> JobRow] /\ jobs'[j] = row
      /\ \A k \in Jobs \ {j} : jobs'[k] = jobs[k]
  BY <1>1, <1>2, <1>3, <1>4 DEF Types
<1>6. Types'
  BY <1>1, <1>2, <1>5, Answered DEF Types
<1>7. \A k \in Jobs : jobs'[k].status = "absent" <=> jobs[k].status = "absent"
  BY <1>3, <1>4, <1>5
<1>8. StartsFit' /\ \A b \in Admins : Request(b)'
  <2>1. Unused' = Unused
    BY <1>7 DEF Unused
  <2> QED
    BY <1>2, <1>7, <2>1, StartsAnswered, RequestsAnswered
<1>9. ASSUME NEW k \in Jobs PROVE Task(k)' /\ Counted(k)' /\ Data(k)'
  <2>1. Task(k) /\ Counted(k)
    BY DEF IInv
  <2>2. /\ jobs'[k].mode = jobs[k].mode /\ jobs'[k].total = jobs[k].total
        /\ jobs'[k].processed = jobs[k].processed
        /\ jobs'[k].status = "completed" => jobs[k].status = "completed"
    BY <1>4, <1>5
  <2>3. Task(k)' /\ Counted(k)'
    BY <1>2, <1>7, <2>1, <2>2, RowKept
  <2> QED
    BY <1>2, <2>3, AnswerData
<1> QED
  BY <1>6, <1>8, <1>9 DEF IInv

\* A new job takes an unused row; the one taken for dead is failed.
LEMMA ReplaceKeeps ==
  ASSUME IInv, NEW a \in Admins, Start(a), ~(seen[a].existing # 0 /\ ~seen[a].dead)
  PROVE  IInv'
<1> DEFINE old == seen[a].existing
           new == CHOOSE j \in Unused : \A k \in Unused : j <= k
           row == [NoJob EXCEPT !.status = "queued",
                     !.mode = op[a].order.mode, !.dry = op[a].order.dry]
<1>1. Types /\ Request(a) /\ StartsFit
  BY DEF IInv
<1>2. /\ op[a].kind = "start" /\ Answer(a)
      /\ jobs' = [k \in Jobs |-> IF k = new THEN row
                                 ELSE IF k = old THEN [jobs[k] EXCEPT !.status = "failed"]
                                 ELSE jobs[k]]
      /\ pc' = [pc EXCEPT ![new] = "waiting"]
      /\ UNCHANGED <<questions, listing, moved, items, copy, last, batch, base, touched>>
  BY DEF Start, ghost
<1>3. a \in Starting
  BY <1>2 DEF Starting
<1>4. Unused # {}
  <2>1. Cardinality(Starting) # 0
    BY <1>3, Finite, FS_EmptySet
  <2>2. Cardinality(Unused) # 0
    BY <1>1, <2>1, Finite DEF StartsFit
  <2> QED
    BY <2>2, FS_EmptySet
<1>5. new \in Unused
  <2>1. Unused \subseteq Nat
    BY DEF Unused, Jobs
  <2> QED
    BY <1>4, <2>1, LeastExists
<1> HIDE DEF new
<1>6. new \in Jobs /\ jobs[new].status = "absent"
  BY <1>5 DEF Unused
<1>7. row \in JobRow /\ row.status = "queued" /\ row.processed = 0 /\ row.total = 0
  <2>1. op[a].order \in [mode : {"unclassified_only", "reclassify_all"}, dry : BOOLEAN]
    BY <1>1, <1>2, OrderAssumption DEF Request
  <2>2. NoJob \in JobRow /\ NoJob.processed = 0 /\ NoJob.total = 0
    BY SizeAssumption DEF JobRow, NoJob
  <2> QED
    BY <2>1, <2>2 DEF JobRow, Active
<1> HIDE DEF row
<1>8. ASSUME NEW k \in Jobs, k # new
      PROVE  /\ jobs'[k] \in JobRow
             /\ jobs'[k].mode = jobs[k].mode /\ jobs'[k].total = jobs[k].total
             /\ jobs'[k].processed = jobs[k].processed
             /\ jobs'[k].status \in {jobs[k].status, "failed"}
             /\ jobs'[k].status = "absent" <=> jobs[k].status = "absent"
             /\ pc'[k] = pc[k]
  <2>1. jobs[k] \in JobRow
    BY <1>1 DEF Types
  <2>2. pc'[k] = pc[k]
    BY <1>1, <1>2, <1>8 DEF Types
  <2>3. CASE k = old
    <3>1. jobs'[k] = [jobs[k] EXCEPT !.status = "failed"]
      BY <1>2, <1>8, <2>3
    <3>2. old # 0
      BY <2>3 DEF Jobs
    <3>3. jobs[k].status # "absent"
      BY <1>1, <1>2, <2>3, <3>2 DEF Request
    <3> QED
      BY <2>1, <2>2, <3>1, <3>3 DEF JobRow
  <2>4. CASE k # old
    <3>1. jobs'[k] = jobs[k]
      BY <1>2, <1>8, <2>4
    <3> QED
      BY <2>1, <2>2, <3>1
  <2> QED
    BY <2>3, <2>4
<1>9. jobs'[new] = row /\ pc'[new] = "waiting" /\ pc[new] = "none"
  <2>1. pc[new] = "none"
    BY <1>6 DEF IInv, Task
  <2> QED
    BY <1>1, <1>2, <1>6, <2>1 DEF Types
<1>10. Types'
  <2>1. jobs' \in [Jobs -> JobRow]
    <3>1. jobs' = [k \in Jobs |-> jobs'[k]]
      BY <1>2
    <3> QED
      BY <1>7, <1>8, <1>9, <3>1
  <2>2. pc' \in [Jobs -> Places]
    BY <1>1, <1>2 DEF Types, Places
  <2> QED
    BY <1>1, <1>2, <2>1, <2>2, Answered DEF Types
<1>11. \A b \in Admins : Request(b)'
  <2>1. ASSUME NEW k \in Jobs
        PROVE  /\ jobs[k].status # "absent" => jobs'[k].status # "absent"
               /\ pc[k] = "ended" => pc'[k] = "ended"
    BY <1>6, <1>8, <1>9
  <2> QED
    BY <1>2, <2>1, RequestsAnswered
<1>12. StartsFit'
  <2>1. Unused' = Unused \ {new}
    BY <1>6, <1>7, <1>8, <1>9 DEF Unused
  <2>2. Cardinality(Unused') = Cardinality(Unused) - 1
    BY <1>5, <2>1, Finite, FS_RemoveElement
  <2>3. Starting' \subseteq Starting \ {a}
    BY <1>1, <1>2, Answered
  <2>4. IsFiniteSet(Starting \ {a}) /\ Cardinality(Starting \ {a}) = Cardinality(Starting) - 1
    BY <1>3, Finite, FS_RemoveElement
  <2>5. Cardinality(Starting') <= Cardinality(Starting \ {a}) /\ Cardinality(Starting') \in Nat
    BY <2>3, <2>4, FS_Subset, FS_CardinalityType
  <2> QED
    BY <1>1, <2>2, <2>4, <2>5, Finite DEF StartsFit
<1>13. ASSUME NEW k \in Jobs PROVE Task(k)' /\ Counted(k)' /\ Data(k)'
  <2>1. Task(k) /\ Counted(k)
    BY DEF IInv
  <2>2. Data(k)'
    BY <1>2, <1>8, <1>9, AnswerData
  <2>3. CASE k = new
    <3>1. ~Begun(k) /\ ~Begun(k)'
      BY <1>2, <1>9, <2>1, <2>3 DEF Task, Begun
    <3>2. Task(k)'
      BY <1>2, <1>7, <1>9, <2>1, <2>3, <3>1 DEF Task
    <3> QED
      BY <2>2, <3>1, <3>2 DEF Counted
  <2>4. CASE k # new
    <3>1. jobs'[k].status = "completed" => jobs[k].status = "completed"
      BY <1>8, <2>4
    <3>2. Task(k)' /\ Counted(k)'
      BY <1>2, <1>8, <2>1, <2>4, <3>1, RowKept
    <3> QED
      BY <2>2, <3>2
  <2> QED
    BY <2>3, <2>4
<1> QED
  BY <1>10, <1>11, <1>12, <1>13 DEF IInv

\* A live job is returned instead of a new one, and a rollback that meets a deleted
\* question is refused.
LEMMA ReturnKeeps ==
  ASSUME IInv, NEW a \in Admins,
         RollbackFails(a) \/ (Start(a) /\ seen[a].existing # 0 /\ ~seen[a].dead)
  PROVE  IInv'
<1>1. Types /\ Answer(a) /\ UNCHANGED <<questions, listing, moved, jobs, pc, items, copy, last, batch,
                                    base, touched>>
  BY DEF IInv, Start, RollbackFails, tables, task, ghost
<1>2. Types'
  BY <1>1, Answered DEF Types
<1>3. StartsFit' /\ \A b \in Admins : Request(b)'
  <2>1. Unused' = Unused
    BY <1>1 DEF Unused
  <2> QED
    BY <1>1, <2>1, StartsAnswered, RequestsAnswered
<1>4. ASSUME NEW k \in Jobs PROVE Task(k)' /\ Counted(k)' /\ Data(k)'
  <2>1. Task(k) /\ Counted(k)
    BY DEF IInv
  <2>2. Task(k)' /\ Counted(k)'
    BY <1>1, <2>1, TaskKept
  <2> QED
    BY <1>1, <2>2, AnswerData
<1> QED
  BY <1>2, <1>3, <1>4 DEF IInv

\* The latest active job is one that was started.
LEMMA ExistingIsStarted ==
  ASSUME Types
  PROVE  Existing = 0 \/ (Existing \in Jobs /\ jobs[Existing].status # "absent")
<1> DEFINE active == {j \in Jobs : jobs[j].status \in Active}
<1>1. CASE active = {}
  BY <1>1 DEF Existing
<1>2. CASE active # {}
  <2>1. \E m \in active : \A k \in active : k <= m
    BY <1>2, GreatestExists, SizeAssumption DEF Jobs
  <2>2. Existing = CHOOSE j \in active : \A k \in active : k <= j
    BY <1>2 DEF Existing
  <2>3. Existing \in active
    BY <2>1, <2>2
  <2> QED
    BY <2>3 DEF Active
<1> QED
  BY <1>1, <1>2

\* The bank as a rollback finds it.
Reading == [q \in Questions |-> IF listing[q] = "deleted" THEN Nothing ELSE questions[q]]

\* What a request is for, and what it reads first.
LEMMA LookReads ==
  ASSUME IInv, NEW a \in Admins, Look(a)
  PROVE  /\ op' = [b \in Admins |-> op'[b]] /\ seen' = [b \in Admins |-> seen'[b]]
         /\ \A b \in Admins \ {a} : op'[b] = op[b] /\ seen'[b] = seen[b]
         /\ Request(a)'
         /\ op'[a].kind = "start" => Cardinality(Unused) > Cardinality(Starting)
         /\ op'[a].kind = "rollback" => seen'[a] = Reading
<1>1. Types /\ UNCHANGED <<questions, jobs, pc, copy>>
  BY DEF IInv, Look, tables, task
<1>2. PICK o \in Requests :
       /\ op' = [op EXCEPT ![a] = o]
       /\ CASE o.kind = "start" ->
                 \E dead \in IF Existing = 0 THEN {TRUE} ELSE PassesForDead(Existing) :
                   seen' = [seen EXCEPT ![a] = [existing |-> Existing, dead |-> dead]]
            [] o.kind = "rollback" ->
                 seen' = [seen EXCEPT ![a] = Reading]
            [] o.kind = "cancel" ->
                 \E dead \in PassesForDead(o.job) :
                   seen' = [seen EXCEPT ![a] = [cancel |-> jobs[o.job].cancel, dead |-> dead]]
            [] OTHER ->
                 seen' = [seen EXCEPT ![a] = [pause |-> jobs[o.job].pause]]
  BY DEF Look, Reading
<1>3. op' = [b \in Admins |-> IF b = a THEN o ELSE op[b]] /\ op'[a] = o
  BY <1>1, <1>2 DEF Types
<1>4. \/ /\ o.kind \in {"cancel", "pause", "resume"} /\ o.job \in Jobs
         /\ jobs[o.job].status \in Active
      \/ o.kind = "rollback" /\ o.job \in Jobs /\ jobs[o.job].status = "completed"
      \/ o.kind = "start" /\ o.order \in Orders /\ Cardinality(Unused) > Cardinality(Starting)
  BY DEF Requests, Starting
<1>5. CASE o.kind = "start"
  <2>1. PICK dead : seen' = [seen EXCEPT ![a] = [existing |-> Existing, dead |-> dead]]
    BY <1>2, <1>5
  <2>2. /\ seen' = [b \in Admins |-> seen'[b]] /\ seen'[a].existing = Existing
        /\ \A b \in Admins \ {a} : seen'[b] = seen[b]
    BY <1>1, <2>1 DEF Types
  <2>3. Request(a)'
    BY <1>1, <1>3, <1>4, <1>5, <2>2, ExistingIsStarted DEF Request
  <2> QED
    BY <1>3, <1>4, <1>5, <2>2, <2>3
<1>6. CASE o.kind = "rollback"
  <2>1. seen' = [seen EXCEPT ![a] = Reading]
    BY <1>2, <1>6
  <2>2. /\ seen' = [b \in Admins |-> seen'[b]] /\ seen'[a] = Reading
        /\ \A b \in Admins \ {a} : seen'[b] = seen[b]
    BY <1>1, <2>1 DEF Types
  <2>3. o.job \in Jobs /\ pc[o.job] = "ended" /\ Begun(o.job) /\ jobs[o.job].status # "absent"
    BY <1>4, <1>6 DEF IInv, Task
  <2>4. Reading \in [Questions -> Question \cup {Nothing}]
    BY <1>1 DEF Reading, Types
  <2>5. Request(a)'
    BY <1>1, <1>3, <1>6, <2>2, <2>3, <2>4 DEF Request, Begun
  <2> QED
    BY <1>3, <1>6, <2>2, <2>5
<1>7. CASE o.kind = "cancel"
  <2>1. o.job \in Jobs /\ jobs[o.job].status # "absent" /\ jobs[o.job] \in JobRow
    BY <1>1, <1>4, <1>7 DEF Active, Types
  <2>2. PICK dead \in BOOLEAN :
          seen' = [seen EXCEPT ![a] = [cancel |-> jobs[o.job].cancel, dead |-> dead]]
    BY <1>2, <1>7 DEF PassesForDead
  <2>3. /\ seen' = [b \in Admins |-> seen'[b]]
        /\ seen'[a].cancel = jobs[o.job].cancel /\ seen'[a].dead = dead
        /\ \A b \in Admins \ {a} : seen'[b] = seen[b]
    BY <1>1, <2>2 DEF Types
  <2>4. Request(a)'
    BY <1>1, <1>3, <1>7, <2>1, <2>2, <2>3 DEF Request, JobRow
  <2> QED
    BY <1>3, <1>7, <2>3, <2>4
<1>8. CASE o.kind \in {"pause", "resume"}
  <2>1. o.job \in Jobs /\ jobs[o.job].status # "absent" /\ jobs[o.job] \in JobRow
    BY <1>1, <1>4, <1>8 DEF Active, Types
  <2>2. seen' = [seen EXCEPT ![a] = [pause |-> jobs[o.job].pause]]
    BY <1>2, <1>8
  <2>3. /\ seen' = [b \in Admins |-> seen'[b]] /\ seen'[a].pause = jobs[o.job].pause
        /\ \A b \in Admins \ {a} : seen'[b] = seen[b]
    BY <1>1, <2>2 DEF Types
  <2>4. Request(a)'
    BY <1>1, <1>3, <1>8, <2>1, <2>3 DEF Request, JobRow
  <2> QED
    BY <1>3, <1>8, <2>3, <2>4
<1> QED
  BY <1>4, <1>5, <1>6, <1>7, <1>8

LEMMA LookKeeps ==
  ASSUME IInv, NEW a \in Admins, Look(a)
  PROVE  IInv'
<1>1. /\ Types /\ StartsFit /\ op[a] = Nothing
      /\ UNCHANGED <<questions, listing, moved, jobs, items, pc, copy, last, batch, base, touched>>
  BY DEF IInv, Look, tables, task, ghost
<1>2. Types'
  BY <1>1, LookReads DEF Types
<1>3. ASSUME NEW b \in Admins PROVE Request(b)'
  <2>1. CASE b = a
    BY <2>1, LookReads
  <2>2. CASE b # a
    <3>1. Request(b) /\ op'[b] = op[b] /\ seen'[b] = seen[b]
      BY <2>2, LookReads DEF IInv
    <3> QED
      BY <1>1, <3>1 DEF Request, Begun
  <2> QED
    BY <2>1, <2>2
<1>4. StartsFit'
  <2>1. Unused' = Unused /\ a \notin Starting
    BY <1>1 DEF Unused, Starting, Nothing
  <2>2. CASE op'[a].kind = "start"
    <3>1. Starting' = Starting \cup {a}
      BY <2>2, LookReads DEF Starting
    <3>2. Cardinality(Starting') = Cardinality(Starting) + 1
      BY <2>1, <3>1, Finite, FS_AddElement
    <3> QED
      BY <2>1, <2>2, <3>2, Finite, LookReads DEF StartsFit
  <2>3. CASE op'[a].kind # "start"
    <3>1. Starting' = Starting
      BY <2>1, <2>3, LookReads DEF Starting
    <3> QED
      BY <1>1, <2>1, <3>1 DEF StartsFit
  <2> QED
    BY <2>2, <2>3
<1>5. ASSUME NEW k \in Jobs PROVE Task(k)' /\ Counted(k)' /\ Data(k)'
  <2>1. Task(k) /\ Counted(k) /\ Data(k)
    BY DEF IInv
  <2>2. Task(k)' /\ Counted(k)'
    BY <1>1, <2>1, TaskKept
  <2>3. Asks(k)' /\ Gaps(k)' /\ Whole(k)'
    BY <1>1, <2>1 DEF Data, Asks, Gaps, Whole, Begun
  <2>4. \A q \in Questions : Reading[q] = questions[q] \/ listing[q] = "deleted"
    BY DEF Reading
  <2>5. Rolls(k)'
    BY <1>1, <2>1, <2>4, LookReads DEF Data, Rolls
  <2> QED
    BY <2>2, <2>3, <2>5 DEF Data
<1> QED
  BY <1>2, <1>3, <1>4, <1>5 DEF IInv

\* The bank after a rollback of a job.
RolledBack(j, read) ==
  [q \in Questions |->
     IF RollsBack(items[j][q], read[q])
     THEN MergedQuestion(questions[q], read[q], items[j][q].old)
     ELSE questions[q]]

LEMMA RollbackStep ==
  ASSUME IInv, NEW a \in Admins, Rollback(a)
  PROVE  /\ op[a].kind = "rollback" /\ op[a].job \in Jobs /\ Answer(a)
         /\ pc[op[a].job] = "ended" /\ Begun(op[a].job)
         /\ \A q \in Questions : RollsBack(items[op[a].job][q], seen[a][q]) => There(q)
         /\ questions' = RolledBack(op[a].job, seen[a])
         /\ questions' \in [Questions -> Question]
         /\ Touch(Jobs \ {op[a].job}, questions')
         /\ UNCHANGED <<listing, moved, jobs, items, pc, copy, last, batch, base>>
<1> DEFINE j == op[a].job
<1>1. Types /\ Request(a)
  BY DEF IInv
<1>2. /\ op[a].kind = "rollback" /\ Answer(a) /\ questions' = RolledBack(j, seen[a])
      /\ Touch(Jobs \ {j}, questions')
      /\ \A q \in Questions : RollsBack(items[j][q], seen[a][q]) => There(q)
      /\ UNCHANGED <<listing, moved, jobs, items, pc, copy, last, batch, base>>
  BY DEF Rollback, RolledBack, ToRestore, task
<1>3. j \in Jobs /\ pc[j] = "ended" /\ Begun(j)
  BY <1>1, <1>2 DEF Request
<1>4. ASSUME NEW q \in Questions, RollsBack(items[j][q], seen[a][q])
      PROVE  MergedQuestion(questions[q], seen[a][q], items[j][q].old) \in Question
  <2>1. items[j][q] \in Item
    BY <1>1, <1>3, <1>4 DEF Types, RollsBack
  <2>2. items[j][q].old \in Question /\ questions[q] \in Question /\ seen[a][q] \in Question
    BY <1>1, <1>3, <1>4, <2>1 DEF Item, Types, RollsBack
  <2> QED
    BY <2>2, MergedType
<1>5. questions' \in [Questions -> Question]
  <2>1. \A q \in Questions : RolledBack(j, seen[a])[q] \in Question
    BY <1>1, <1>4 DEF RolledBack, Types
  <2> QED
    BY <1>2, <2>1 DEF RolledBack
<1> QED
  BY <1>2, <1>3, <1>5

\* What a rollback writes it writes back, and it writes to no deleted question.
LEMMA RollbackWritesBack ==
  ASSUME IInv, NEW a \in Admins, Rollback(a), copy[op[a].job].mode = "reclassify_all",
         NEW q \in Questions \ touched[op[a].job], listing[q] # "deleted"
  PROVE  questions'[q] = base[op[a].job][q]
<1> DEFINE j == op[a].job
           item == items[j][q]
<1>1. /\ Types /\ j \in Jobs /\ Begun(j) /\ Whole(j) /\ Rolls(j)
      /\ op[a].kind = "rollback" /\ copy[j].mode = "reclassify_all"
      /\ questions' = RolledBack(j, seen[a])
  BY RollbackStep DEF IInv, Data
<1>2. questions[q] \in Question /\ base[j][q] \in Question
  BY <1>1 DEF Types
<1>3. seen[a][q] = questions[q] \/ questions[q] = base[j][q]
  BY <1>1 DEF Rolls
<1>4. CASE RollsBack(item, seen[a][q])
  <2>1. item.old = base[j][q]
    BY <1>1, <1>4 DEF Whole, RollsBack
  <2>2. questions'[q] = MergedQuestion(questions[q], seen[a][q], base[j][q])
    BY <1>1, <1>4, <2>1 DEF RolledBack
  <2>3. CASE seen[a][q] = questions[q]
    BY <1>2, <2>2, <2>3, MergedOwn
  <2>4. CASE questions[q] = base[j][q]
    <3>1. questions'[q] = [category |-> base[j][q].category, difficulty |-> base[j][q].difficulty]
      BY <2>2, <2>4 DEF MergedQuestion, Merged
    <3> QED
      BY <1>2, <3>1 DEF Question
  <2> QED
    BY <1>3, <2>3, <2>4
<1>5. CASE ~RollsBack(item, seen[a][q])
  <2>1. questions'[q] = questions[q]
    BY <1>1, <1>5 DEF RolledBack
  <2>2. questions[q] = base[j][q] \/ (item # Nothing /\ item.applied /\ questions[q] = item.new)
    BY <1>1 DEF Whole
  <2> QED
    BY <1>3, <1>5, <2>1, <2>2 DEF RollsBack
<1> QED
  BY <1>4, <1>5

\* A rollback keeps what the job did not fill.
LEMMA RollbackKeepsGaps ==
  ASSUME IInv, NEW a \in Admins, Rollback(a), NEW j \in Jobs, j = op[a].job
  PROVE  Gaps(j)'
<1>1. /\ Types /\ Gaps(j) /\ questions' = RolledBack(j, seen[a])
      /\ UNCHANGED <<items, copy, base>> /\ touched'[j] = touched[j]
  BY RollbackStep DEF IInv, Data, Touch
<1> SUFFICES ASSUME Begun(j), copy[j].mode = "unclassified_only", NEW q \in Questions \ touched[j]
             PROVE  Keeps(base[j][q], questions'[q])
  BY <1>1 DEF Gaps, Begun
<1>2. Keeps(base[j][q], questions[q]) /\ (items[j][q] # Nothing => Keeps(base[j][q], items[j][q].old))
  BY <1>1 DEF Gaps
<1>3. CASE RollsBack(items[j][q], seen[a][q])
  <2>1. questions'[q] = MergedQuestion(questions[q], seen[a][q], items[j][q].old)
    BY <1>1, <1>3 DEF RolledBack
  <2> QED
    BY <1>2, <1>3, <2>1 DEF RollsBack, Keeps, MergedQuestion, Merged
<1>4. CASE ~RollsBack(items[j][q], seen[a][q])
  BY <1>1, <1>2, <1>4 DEF RolledBack
<1> QED
  BY <1>3, <1>4

LEMMA RollbackKeeps ==
  ASSUME IInv, NEW a \in Admins, Rollback(a)
  PROVE  IInv'
<1> PICK j \in Jobs : j = op[a].job
  BY RollbackStep
<1>1. /\ Types /\ Answer(a) /\ pc[j] = "ended" /\ Begun(j)
      /\ questions' \in [Questions -> Question] /\ Touch(Jobs \ {j}, questions')
      /\ UNCHANGED <<listing, moved, jobs, items, pc, copy, last, batch, base>>
      /\ \A q \in Questions : listing[q] = "deleted" => questions'[q] = questions[q]
      /\ \A b \in Admins : Request(b)
  <2>1. \A q \in Questions : listing[q] = "deleted" => questions'[q] = questions[q]
    BY RollbackStep DEF RolledBack, There
  <2> QED
    BY <2>1, RollbackStep DEF IInv
<1>2. touched'[j] = touched[j]
  BY <1>1 DEF Touch
<1>3. Types'
  <2>1. touched' \in [Jobs -> SUBSET Questions]
    BY <1>1, TouchType
  <2> QED
    BY <1>1, <2>1, Answered DEF Types
<1>4. StartsFit' /\ \A b \in Admins : Request(b)'
  <2>1. Unused' = Unused
    BY <1>1 DEF Unused
  <2> QED
    BY <1>1, <2>1, StartsAnswered, RequestsAnswered
<1>5. ASSUME NEW k \in Jobs PROVE Task(k)' /\ Counted(k)'
  <2>1. Task(k) /\ Counted(k)
    BY DEF IInv
  <2> QED
    BY <1>1, <2>1, TaskKept
<1>6. ASSUME NEW k \in Jobs, k # j PROVE Data(k)'
  <2>1. Task(k) /\ Data(k)
    BY DEF IInv
  <2>2. \A b \in Admins : op[b].kind = "rollback" /\ op[b].job = k => Begun(k)
    BY <1>1 DEF Request
  <2>3. \A b \in Admins : op'[b].kind = "rollback" => op'[b] = op[b] /\ seen'[b] = seen[b]
    BY <1>1, Answered
  <2> QED
    BY <1>1, <1>6, <2>1, <2>2, <2>3, OthersKept
<1>7. Data(j)'
  <2>1. Data(j)
    BY DEF IInv
  <2>2. Asks(j)'
    BY <1>1, <2>1 DEF Data, Asks
  <2>3. Gaps(j)'
    BY RollbackKeepsGaps
  <2>4. copy[j].mode = "reclassify_all" =>
          \A q \in Questions \ touched[j] : listing[q] # "deleted" => questions'[q] = base[j][q]
    BY RollbackWritesBack
  <2>5. Whole(j)'
    BY <1>1, <1>2, <2>1, <2>4 DEF Data, Whole
  <2>6. Rolls(j)'
    BY <1>1, <1>2, <2>4 DEF Rolls
  <2> QED
    BY <2>2, <2>3, <2>5, <2>6 DEF Data
<1> QED
  BY <1>3, <1>4, <1>5, <1>6, <1>7 DEF IInv

-----------------------------------------------------------------------------
(* The theorems. *)

\* Every step keeps the inductive invariant.
LEMMA NextKeeps == IInv /\ [Next]_vars => IInv'
<1> SUFFICES ASSUME IInv, [Next]_vars PROVE IInv'
  OBVIOUS
<1>1. ASSUME NEW j \in Jobs, Begin(j) PROVE IInv'
  BY <1>1, BeginKeeps
<1>2. ASSUME NEW j \in Jobs, Work(j) PROVE IInv'
  BY <1>2, AskKeeps, StopKeeps, RefusedKeeps, StoreKeeps, CompleteKeeps, EndKeeps DEF Work
<1>3. ASSUME NEW j \in Jobs, Fail(j) \/ Crash(j) PROVE IInv'
  BY <1>3, EndKeeps
<1>4. ASSUME NEW a \in Admins,
             Look(a) \/ Start(a) \/ Control(a) \/ Rollback(a) \/ RollbackFails(a)
      PROVE  IInv'
  BY <1>4, LookKeeps, ReplaceKeeps, ReturnKeeps, ControlKeeps, RollbackKeeps
<1>5. ASSUME NEW q \in Questions,
             EditQuestion(q) \/ Enter(q) \/ Leave(q) \/ DeleteQuestion(q)
      PROVE  IInv'
  BY <1>5, EditQuestionKeeps, MoveKeeps
<1>6. CASE UNCHANGED vars
  <2>1. UNCHANGED <<questions, listing, moved, jobs, items, pc, copy, last, batch, op, seen, base,
                  touched>>
    BY <1>6 DEF vars, tables, task, ghost
  <2>2. Types /\ StartsFit /\ \A a \in Admins : Request(a)
    BY DEF IInv
  <2>3. Types' /\ StartsFit' /\ \A a \in Admins : Request(a)'
    BY <2>1, <2>2 DEF Types, StartsFit, Starting, Unused, Request, Begun
  <2>4. ASSUME NEW k \in Jobs PROVE Task(k)' /\ Counted(k)' /\ Data(k)'
    BY <2>1 DEF IInv, Task, Counted, Counts, Data, Asks, Gaps, Whole, Rolls, Begun
  <2> QED
    BY <2>3, <2>4 DEF IInv
<1> QED
  BY <1>1, <1>2, <1>3, <1>4, <1>5, <1>6 DEF Next

\* Whatever batches fail, tasks die and requests meet, what a job has counted and
\* recorded says where its task is and what it did to the bank.
THEOREM JobsAlwaysCoherent == Spec => []IInv
<1>1. Init => IInv
  BY InitIInv
<1>2. IInv /\ [Next]_vars => IInv'
  BY NextKeeps
<1> QED
  BY <1>1, <1>2, PTL DEF Spec

\* Every column holds a value its CHECK constraint allows.
THEOREM TypeCorrect == Spec => []TypeOK
<1>1. IInv => TypeOK
  BY DEF IInv, Types, TypeOK, JobRow, Places
<1> QED
  BY <1>1, JobsAlwaysCoherent, PTL

\* What a job over the whole bank has processed, and what it counted before its first
\* batch, never differ by more questions than came, left or were deleted while its task
\* ran: it never shows more beyond that, and one that completes has left no others out,
\* whichever of its batches the AI failed on.
THEOREM ProgressAlwaysAddsUp == Spec => []ProgressAddsUp
<1>1. IInv => ProgressAddsUp
  <2> SUFFICES ASSUME IInv, NEW j \in Jobs, jobs[j].mode = "reclassify_all"
               PROVE  /\ jobs[j].processed <= jobs[j].total + Cardinality(moved[j])
                      /\ jobs[j].status = "completed" =>
                           jobs[j].total <= jobs[j].processed + Cardinality(moved[j])
    BY DEF ProgressAddsUp
  <2>1. Types /\ Task(j) /\ Counted(j) /\ moved[j] \subseteq Questions
    BY DEF IInv, Types
  <2>2. Cardinality(moved[j]) \in Nat
    BY <2>1, SubsetsOfTheBank, FS_CardinalityType
  <2>3. CASE Begun(j)
    <3>1. /\ copy[j].mode = "reclassify_all" /\ jobs[j].total = copy[j].total
          /\ jobs[j].processed = copy[j].processed
      BY <2>1, <2>3 DEF Task
    <3>2. PICK first, passed \in SUBSET Questions : Counts(j, first, passed)
      BY <2>1, <2>3, <3>1 DEF Counted
    <3>3. /\ Cardinality(first) \in Nat /\ Cardinality(passed) \in Nat
          /\ copy[j].processed \in Nat
      BY <2>1, SubsetsOfTheBank, FS_CardinalityType DEF Types, JobRow
    <3>4. Cardinality(passed) <= Cardinality(first) + Cardinality(moved[j])
      BY <2>1, <3>2, AtMostTogether DEF Counts
    <3>5. jobs[j].status = "completed" =>
            Cardinality(first) <= Cardinality(passed) + Cardinality(moved[j])
      BY <2>1, <3>2, AtMostTogether DEF Counts
    <3> QED
      BY <2>2, <3>1, <3>2, <3>3, <3>4, <3>5 DEF Counts
  <2>4. CASE ~Begun(j)
    BY <2>1, <2>2, <2>4 DEF Task
  <2> QED
    BY <2>3, <2>4
<1> QED
  BY <1>1, JobsAlwaysCoherent, PTL

\* A job for unclassified questions never replaces what a question had when the job
\* began, unless somebody else has changed the question since.
THEOREM OnlyGapsAreAlwaysFilled == Spec => []OnlyGapsAreFilled
<1>1. IInv => OnlyGapsAreFilled
  <2> SUFFICES ASSUME IInv, NEW j \in Jobs, jobs[j].mode = "unclassified_only", copy[j] # NoJob,
                      NEW q \in Questions \ touched[j]
               PROVE  /\ base[j][q].category # NoLabel
                            => questions[q].category = base[j][q].category
                      /\ base[j][q].difficulty # NoLabel
                            => questions[q].difficulty = base[j][q].difficulty
    BY DEF OnlyGapsAreFilled
  <2>1. Begun(j) /\ copy[j].mode = "unclassified_only"
    BY DEF IInv, Task
  <2> QED
    BY <2>1 DEF IInv, Data, Gaps, Keeps
<1> QED
  BY <1>1, JobsAlwaysCoherent, PTL

\* Rolling back a job over the whole bank restores every question nobody else has
\* changed or deleted, whatever was answered, stored or left out, and whatever was edited,
\* came or went between its reading and its writing.
THEOREM RollbackAlwaysRestores == Spec => RollbackRestores
<1>1. IInv /\ [Next]_vars =>
        [\A a \in Admins :
           Rollback(a) /\ jobs[op[a].job].mode = "reclassify_all" => Restored(op[a].job)]_vars
  <2> SUFFICES ASSUME IInv, NEW a \in Admins, Rollback(a),
                      jobs[op[a].job].mode = "reclassify_all"
               PROVE  Restored(op[a].job)
    OBVIOUS
  <2>1. copy[op[a].job].mode = "reclassify_all"
    BY RollbackStep DEF IInv, Task
  <2> QED
    BY <2>1, RollbackWritesBack DEF Restored
<1> QED
  BY <1>1, JobsAlwaysCoherent, PTL DEF Spec, RollbackRestores

-----------------------------------------------------------------------------
(* The page on which an employee works through an assignment, for any tasks and items,    *)
(* any kinds of tasks, and any number of gestures, reviews and losses: what is submitted,  *)
(* what the page shows of the tasks, and what becomes of the items that were clicked.      *)

CONSTANTS Tasks, Kinds, Boxes, MaxGestures, MaxTurns, MaxRequests, MaxReviews, MaxLost
VARIABLES kind, tasks, received, clicked, view, selected, typed, attempts, loading, submitting,
          updating, requests, tally, doubt

\* The page on which an employee works through an assignment.
Flow == INSTANCE EmployeeFlow

\* A task as the server has it, and as the page shows it.
FlowRow == [status : {"not_started", "in_progress", "pending_review", "revision_requested",
                      "completed"},
            saved : BOOLEAN, ticked : SUBSET Boxes]

\* A request of the page.
FlowRequest(q) ==
  /\ q = [id |-> q.id, op |-> q.op, task |-> q.task, text |-> q.text, box |-> q.box,
          checked |-> q.checked, then |-> q.then, again |-> q.again, mixed |-> q.mixed,
          answer |-> q.answer, view |-> q.view]
  /\ q.op \in {"load", "attempts", "submit", "tick"}
  /\ q.op # "load" => q.task \in Tasks
  /\ q.op = "submit" => q.text \in {0, q.task}
  /\ q.op = "tick" => q.box \in Boxes
  /\ q.checked \in BOOLEAN /\ q.again \in BOOLEAN /\ q.mixed \in BOOLEAN
  /\ q.then \in {"none", "submit", "tick"} /\ q.answer \in {"none", "ok", "error"}
  /\ q.view \in [Tasks -> FlowRow]

\* The domains of the variables.
FlowTypes ==
  /\ tasks \in [Tasks -> FlowRow] /\ view \in [Tasks -> FlowRow]
  /\ clicked \in [Tasks -> SUBSET Boxes]
  /\ selected \in Tasks \cup {0} /\ typed \in {0, selected} /\ attempts \in Tasks \cup {0}
  /\ loading \in BOOLEAN /\ submitting \in BOOLEAN /\ doubt \in BOOLEAN
  /\ \A q \in requests : FlowRequest(q)

\* A request that met no other is the only one, and has read the tasks as they are, unless
\* it is a tick, whose answer has the mark that may not be stored.
FlowAlone == \A q, r \in requests : ~q.mixed => r = q
FlowFresh == \A q \in requests : ~q.mixed /\ q.answer = "ok" /\ q.op # "tick" => q.view = tasks

\* What disables a button, or hides the page, is under way.
FlowWaits ==
  /\ loading => \E q \in requests : q.op = "load"
  /\ submitting => \E q \in requests : q.op = "submit" \/ (q.op = "load" /\ q.then = "submit")
  /\ updating # "none" => \E q \in requests : q.op = "tick" \/ (q.op = "load" /\ q.then = "tick")

\* Requests that the page is brought up to date by.
Bringing(set) == \E q \in set : q.op \in {"load", "submit", "tick"}

\* The page shows what there is, or will.
FlowShows == ~doubt => view = tasks \/ Bringing(requests)

\* In these rows the marks of a checklist were clicked, and all of them if it is completed.
FlowClickedIn(rows) ==
  \A t \in Tasks : kind[t] = "checklist" =>
    /\ rows[t].ticked \subseteq clicked[t]
    /\ rows[t].status = "completed" => Boxes \subseteq clicked[t]
    /\ rows[t].status # "pending_review"

\* A tick is for a checklist and, unless it takes a mark away, for a box that was clicked;
\* a submission is for another task; and the answer has marks that were clicked.
FlowAsks(q) ==
  /\ q.op = "tick" => /\ kind[q.task] = "checklist"
                      /\ q.checked => q.box \in clicked[q.task]
  /\ q.op = "submit" => kind[q.task] # "checklist"
  /\ FlowClickedIn(q.view)

\* Every mark was clicked: those of the server, of the page, and of the requests.
FlowClicked ==
  /\ FlowClickedIn(tasks) /\ FlowClickedIn(view)
  /\ \A q \in requests : FlowAsks(q)

\* The inductive invariant.
FlowInv == /\ FlowTypes /\ Flow!TextsReachTheirTask /\ FlowAlone /\ FlowFresh
           /\ FlowWaits /\ FlowShows /\ FlowClicked

\* A request keeps all but whom it met, and its answer.
Alike(r, q) ==
  /\ r.op = q.op /\ r.task = q.task /\ r.text = q.text /\ r.box = q.box
  /\ r.checked = q.checked /\ r.then = q.then

\* The initial state satisfies the inductive invariant.
LEMMA FlowStart == ASSUME Flow!FlowAssumption PROVE Flow!Init => FlowInv
<1> SUFFICES ASSUME Flow!Init PROVE FlowInv
  OBVIOUS
<1>1. Flow!Untouched \in [Tasks -> FlowRow]
  BY DEF Flow!Untouched, FlowRow
<1>2. PICK q : q = Flow!FirstLoad
  OBVIOUS
<1>3. FlowRequest(q) /\ q.op = "load" /\ q.answer = "none" /\ q.view = Flow!Untouched
  BY <1>1, <1>2 DEF Flow!FirstLoad, FlowRequest
<1>4. /\ tasks = Flow!Untouched /\ view = tasks /\ received = {} /\ selected = 0 /\ typed = 0
      /\ attempts = 0 /\ loading = TRUE /\ submitting = FALSE /\ updating = "none"
      /\ requests = {q} /\ doubt = FALSE
      /\ clicked = [t \in Tasks |-> {}]
  BY <1>2 DEF Flow!Init
<1>5. \A t \in Tasks : /\ Flow!Untouched[t].ticked = {}
                       /\ Flow!Untouched[t].status = "not_started"
  BY DEF Flow!Untouched
<1>6. clicked \in [Tasks -> SUBSET Boxes]
  BY <1>4
<1>7. FlowTypes
  BY <1>1, <1>3, <1>4, <1>6 DEF FlowTypes
<1>8. Flow!TextsReachTheirTask /\ FlowAlone /\ FlowFresh /\ FlowWaits
  BY <1>3, <1>4 DEF Flow!TextsReachTheirTask, FlowAlone, FlowFresh, FlowWaits
<1>9. FlowShows /\ FlowClicked
  BY <1>3, <1>4, <1>5 DEF FlowShows, FlowClicked, FlowAsks, FlowClickedIn
<1> QED
  BY <1>7, <1>8, <1>9 DEF FlowInv

\* A request that meets another keeps the rest.
LEMMA MixedAlike ==
  ASSUME NEW q, FlowRequest(q), NEW r, r = [q EXCEPT !.mixed = TRUE]
  PROVE  /\ FlowRequest(r) /\ Alike(r, q) /\ r.mixed = TRUE
         /\ r.answer = q.answer /\ r.view = q.view
BY DEF FlowRequest, Alike

\* What is known of the requests when one goes out and those of S stay under way.
LEMMA FlowSends ==
  ASSUME NEW S, \A q \in S : FlowRequest(q), NEW n, FlowRequest(n), n.answer # "ok",
         requests' = Flow!Sent(S, n), ~n.mixed => S = {}
  PROVE  /\ \A r \in requests' : FlowRequest(r)
         /\ FlowAlone' /\ FlowFresh'
         /\ n \in requests'
         /\ \A q \in S : \E r \in requests' : Alike(r, q)
         /\ \A r \in requests' : r = n \/ \E q \in S : Alike(r, q) /\ r.view = q.view
<1>1. requests' = {[q EXCEPT !.mixed = TRUE] : q \in S} \cup {n}
  BY DEF Flow!Sent
<1>2. \A q \in S : \E r \in requests' : r = [q EXCEPT !.mixed = TRUE]
  BY <1>1
<1>3. \A r \in requests' : r = n \/ \E q \in S : r = [q EXCEPT !.mixed = TRUE]
  BY <1>1
<1>4. \A r \in requests' : r = n \/ \E q \in S : /\ r = [q EXCEPT !.mixed = TRUE]
                                                 /\ FlowRequest(r) /\ Alike(r, q)
                                                 /\ r.view = q.view /\ r.mixed = TRUE
  <2> SUFFICES ASSUME NEW r \in requests', r # n
               PROVE  \E q \in S : /\ r = [q EXCEPT !.mixed = TRUE]
                                   /\ FlowRequest(r) /\ Alike(r, q)
                                   /\ r.view = q.view /\ r.mixed = TRUE
    OBVIOUS
  <2>1. PICK q \in S : r = [q EXCEPT !.mixed = TRUE]
    BY <1>3
  <2>2. FlowRequest(q)
    OBVIOUS
  <2>3. FlowRequest(r) /\ Alike(r, q) /\ r.view = q.view /\ r.mixed = TRUE
    BY <2>1, <2>2, MixedAlike
  <2> QED
    BY <2>1, <2>3
<1>5. n \in requests'
  BY <1>1
<1>6. \A r \in requests' : FlowRequest(r)
  BY <1>4
<1>7. ASSUME NEW q \in requests', NEW r \in requests', ~q.mixed PROVE r = q
  <2>1. q = n
    BY <1>4, <1>7
  <2>2. S = {}
    BY <1>7, <2>1
  <2> QED
    BY <1>1, <2>1, <2>2
<1>8. FlowAlone'
  BY <1>7 DEF FlowAlone
<1>9. \A r \in requests' : ~r.mixed => r = n
  BY <1>4
<1>10. FlowFresh'
  BY <1>9 DEF FlowFresh
<1>11. \A q \in S : \E r \in requests' : Alike(r, q)
  BY <1>2, MixedAlike
<1>12. \A r \in requests' : r = n \/ \E q \in S : Alike(r, q) /\ r.view = q.view
  BY <1>4
<1> QED
  BY <1>5, <1>6, <1>8, <1>10, <1>11, <1>12

\* A new request, before it is filled in.
FlowAsked(n, o, t) ==
  /\ n = [id |-> n.id, op |-> n.op, task |-> n.task, text |-> n.text, box |-> n.box,
          checked |-> n.checked, then |-> n.then, again |-> n.again, mixed |-> n.mixed,
          answer |-> n.answer, view |-> n.view]
  /\ n.op = o /\ n.task = t /\ n.text = 0 /\ n.box = "none" /\ n.checked = FALSE
  /\ n.then = "none" /\ n.again = FALSE /\ n.answer = "none"
  /\ n.mixed \in BOOLEAN /\ (n.mixed <=> requests # {})
  /\ n.view \in [Tasks -> FlowRow] /\ FlowClickedIn(n.view)

\* Ask makes such a request.
LEMMA FlowAsk ==
  ASSUME NEW o, NEW t, NEW n, n = Flow!Ask(o, t)
  PROVE  FlowAsked(n, o, t)
<1>1. PICK m \in BOOLEAN : m = (requests # {})
  OBVIOUS
<1>2. PICK k : Flow!Ask(o, t) = [id |-> k, op |-> o, task |-> t, text |-> 0, box |-> "none",
                                 checked |-> FALSE, then |-> "none", again |-> FALSE,
                                 mixed |-> m, answer |-> "none", view |-> Flow!Untouched]
  BY <1>1 DEF Flow!Ask
<1>3. Flow!Untouched \in [Tasks -> FlowRow] /\ FlowClickedIn(Flow!Untouched)
  BY DEF Flow!Untouched, FlowRow, FlowClickedIn
<1>4. n = [id |-> k, op |-> o, task |-> t, text |-> 0, box |-> "none", checked |-> FALSE,
           then |-> "none", again |-> FALSE, mixed |-> m, answer |-> "none",
           view |-> Flow!Untouched]
  BY <1>2
<1>5. n = [id |-> n.id, op |-> n.op, task |-> n.task, text |-> n.text, box |-> n.box,
           checked |-> n.checked, then |-> n.then, again |-> n.again, mixed |-> n.mixed,
           answer |-> n.answer, view |-> n.view]
  BY <1>4
<1>6. /\ n.op = o /\ n.task = t /\ n.text = 0 /\ n.box = "none" /\ n.checked = FALSE
      /\ n.then = "none" /\ n.again = FALSE /\ n.answer = "none" /\ n.mixed = m
      /\ n.view = Flow!Untouched
  BY <1>4
<1>7. n.mixed \in BOOLEAN /\ (n.mixed <=> requests # {})
  BY <1>1, <1>6
<1> QED
  BY <1>3, <1>5, <1>6, <1>7 DEF FlowAsked

\* What disables a button is still under way, when the requests of S, and what follows them,
\* are there.
LEMMA WaitsStay ==
  ASSUME FlowWaits,
         loading' => loading, submitting' => submitting, updating' # "none" => updating # "none",
         \A q \in requests : \E r \in requests' : Alike(r, q)
  PROVE  FlowWaits'
<1>1. \A q \in requests : \E r \in requests' : r.op = q.op /\ r.then = q.then
  BY DEF Alike
<1> QED
  BY <1>1 DEF FlowWaits

\* The page still shows what there is, when the requests stay.
LEMMA ShowsStay ==
  ASSUME FlowShows, ~doubt' => ~doubt,
         (view' = view /\ tasks' = tasks) \/ Bringing(requests'),
         \A q \in requests : q.op # "attempts" => \E r \in requests' : Alike(r, q)
  PROVE  FlowShows'
<1>1. \A q \in requests : q.op # "attempts" => \E r \in requests' : r.op = q.op
  BY DEF Alike
<1>2. Bringing(requests) => Bringing(requests')
  BY <1>1 DEF Bringing
<1> QED
  BY <1>2 DEF FlowShows

\* What was clicked stays clicked: only rows that change, and new requests, matter.
LEMMA ClicksStay ==
  ASSUME FlowClicked, kind' = kind, \A t \in Tasks : clicked[t] \subseteq clicked'[t],
         \A q \in requests : q.op = "tick" => q.task \in Tasks,
         tasks' = tasks \/ FlowClickedIn(tasks)', view' = view \/ FlowClickedIn(view)',
         \A r \in requests' :
           FlowAsks(r)' \/ \E q \in requests : Alike(r, q) /\ r.view = q.view
  PROVE  FlowClicked'
<1>1. FlowClickedIn(tasks)'
  BY DEF FlowClicked, FlowClickedIn
<1>2. FlowClickedIn(view)'
  BY DEF FlowClicked, FlowClickedIn
<1>3. ASSUME NEW r \in requests', NEW q \in requests, Alike(r, q), r.view = q.view
      PROVE  FlowAsks(r)'
  <2>1. FlowAsks(q)
    BY DEF FlowClicked
  <2>2. FlowClickedIn(r.view)'
    BY <1>3, <2>1 DEF FlowAsks, FlowClickedIn
  <2> QED
    BY <1>3, <2>1, <2>2 DEF FlowAsks, Alike
<1> QED
  BY <1>1, <1>2, <1>3 DEF FlowClicked

\* One request is served or lost.
LEMMA FlowGoesOn ==
  ASSUME FlowInv, NEW q \in requests, NEW s, FlowRequest(s), Alike(s, q), s.mixed = q.mixed,
         requests' = (requests \ {q}) \cup {s}
  PROVE  /\ \A r \in requests' : FlowRequest(r)
         /\ FlowAlone'
         /\ \A p \in requests : \E r \in requests' : Alike(r, p)
<1>1. \A r \in requests' : FlowRequest(r)
  BY DEF FlowInv, FlowTypes
<1>2. FlowAlone'
  BY DEF FlowInv, FlowAlone
<1>3. \A p \in requests : \E r \in requests' : Alike(r, p)
  BY DEF Alike
<1> QED
  BY <1>1, <1>2, <1>3

\* A request fails, or its answer is lost.
LEMMA FlowLost ==
  ASSUME FlowInv, NEW q \in requests, Flow!Lose(q)
  PROVE  FlowInv'
<1>1. PICK s : s = [q EXCEPT !.answer = "error"]
  OBVIOUS
<1>2. /\ requests' = (requests \ {q}) \cup {s}
      /\ UNCHANGED <<kind, tasks, received, clicked, view, selected, typed, attempts, loading,
                     submitting, updating, doubt>>
  BY <1>1 DEF Flow!Lose, Flow!pageVars
<1>3. FlowRequest(q)
  BY DEF FlowInv, FlowTypes
<1>4. FlowRequest(s) /\ Alike(s, q) /\ s.mixed = q.mixed /\ s.answer = "error"
  BY <1>1, <1>3 DEF FlowRequest, Alike
<1>5. /\ \A r \in requests' : FlowRequest(r)
      /\ FlowAlone'
      /\ \A p \in requests : \E r \in requests' : Alike(r, p)
  BY <1>2, <1>4, FlowGoesOn
<1>6. FlowTypes' /\ Flow!TextsReachTheirTask'
  BY <1>2, <1>5 DEF FlowInv, FlowTypes, Flow!TextsReachTheirTask
<1>7. FlowFresh'
  BY <1>2, <1>4 DEF FlowInv, FlowFresh
<1>8. FlowWaits' /\ FlowShows'
  BY <1>2, <1>5, WaitsStay, ShowsStay DEF FlowInv
<1>9. \A r \in requests' : \E p \in requests : Alike(r, p) /\ r.view = p.view
  BY <1>1, <1>2, <1>3, <1>4 DEF Alike, FlowRequest
<1>10. \A p \in requests : p.op = "tick" => p.task \in Tasks
  BY DEF FlowInv, FlowTypes, FlowRequest
<1>11. FlowClicked'
  BY <1>2, <1>9, <1>10, ClicksStay DEF FlowInv
<1> QED
  BY <1>5, <1>6, <1>7, <1>8, <1>11 DEF FlowInv

\* A task gets another status.
LEMMA StatusSet ==
  ASSUME NEW f \in [Tasks -> FlowRow], NEW t \in Tasks,
         NEW st \in {"not_started", "in_progress", "pending_review", "revision_requested", "completed"},
         NEW g, g = [f EXCEPT ![t].status = st]
  PROVE  /\ g \in [Tasks -> FlowRow]
         /\ \A u \in Tasks : u # t => g[u] = f[u]
<1>1. PICK row : row = [f[t] EXCEPT !.status = st]
  OBVIOUS
<1>2. row \in FlowRow
  BY <1>1 DEF FlowRow
<1>3. g = [f EXCEPT ![t] = row]
  BY <1>1
<1> QED
  BY <1>2, <1>3

\* What a submission may make of a task is a status.
LEMMA SubmittedStatus ==
  ASSUME NEW t PROVE Flow!Submitted(t) \subseteq {"completed", "revision_requested", "pending_review"}
<1>1. CASE kind[t] = "quiz"
  BY <1>1 DEF Flow!Submitted
<1>2. CASE kind[t] = "review"
  BY <1>2 DEF Flow!Submitted
<1>3. CASE kind[t] # "quiz" /\ kind[t] # "review"
  BY <1>3 DEF Flow!Submitted
<1> QED
  BY <1>1, <1>2, <1>3

\* The row of a tick keeps to what was clicked: of its marks, all were.
LEMMA TickedRow ==
  ASSUME tasks \in [Tasks -> FlowRow], FlowClickedIn(tasks),
         NEW q, FlowRequest(q), FlowAsks(q), q.op = "tick",
         tasks' = [tasks EXCEPT ![q.task] = Flow!Ticked(q)], kind' = kind, clicked' = clicked
  PROVE  tasks' \in [Tasks -> FlowRow] /\ FlowClickedIn(tasks)'
<1>1. q.task \in Tasks /\ q.box \in Boxes /\ kind[q.task] = "checklist"
  BY DEF FlowRequest, FlowAsks
<1>2. PICK old : old = tasks[q.task]
  OBVIOUS
<1>3. old \in FlowRow /\ old.ticked \subseteq clicked[q.task]
  BY <1>1, <1>2 DEF FlowClickedIn
<1>4. PICK marks : marks = IF q.checked THEN old.ticked \cup {q.box} ELSE old.ticked \ {q.box}
  OBVIOUS
<1>5. marks \in SUBSET Boxes /\ marks \subseteq clicked[q.task]
  BY <1>1, <1>3, <1>4 DEF FlowAsks, FlowRow
<1>6. PICK row : row = [status |-> IF marks = {} THEN "not_started"
                                   ELSE IF marks = Boxes THEN "completed" ELSE "in_progress",
                        saved |-> TRUE, ticked |-> IF old.saved THEN old.ticked ELSE marks]
  OBVIOUS
<1>7. row = Flow!Ticked(q)
  BY <1>2, <1>4, <1>6 DEF Flow!Ticked, Flow!Marked
<1>8. /\ row \in FlowRow /\ row.ticked \subseteq clicked[q.task]
      /\ row.status = "completed" => Boxes \subseteq clicked[q.task]
      /\ row.status # "pending_review"
  BY <1>3, <1>5, <1>6 DEF FlowRow
<1>9. tasks' = [tasks EXCEPT ![q.task] = row]
  BY <1>7
<1>10. \A t \in Tasks : tasks'[t] = IF t = q.task THEN row ELSE tasks[t]
  BY <1>1, <1>9
<1>11. tasks' \in [Tasks -> FlowRow]
  BY <1>8, <1>9
<1>12. ASSUME NEW t \in Tasks, kind'[t] = "checklist"
       PROVE  /\ tasks'[t].ticked \subseteq clicked'[t]
              /\ tasks'[t].status = "completed" => Boxes \subseteq clicked'[t]
              /\ tasks'[t].status # "pending_review"
  <2>1. CASE t = q.task
    BY <1>8, <1>10, <2>1
  <2>2. CASE t # q.task
    BY <1>10, <1>12, <2>2 DEF FlowClickedIn
  <2> QED
    BY <2>1, <2>2
<1> QED
  BY <1>11, <1>12 DEF FlowClickedIn

\* The answer to a tick has the mark, which was clicked.
LEMMA MarkedRow ==
  ASSUME tasks \in [Tasks -> FlowRow], FlowClickedIn(tasks),
         tasks' \in [Tasks -> FlowRow], FlowClickedIn(tasks)',
         NEW q, FlowRequest(q), FlowAsks(q), q.op = "tick", kind' = kind, clicked' = clicked,
         NEW v, v = [tasks' EXCEPT ![q.task].ticked = Flow!Marked(q)]
  PROVE  v \in [Tasks -> FlowRow] /\ FlowClickedIn(v)'
<1>1. q.task \in Tasks /\ q.box \in Boxes /\ kind[q.task] = "checklist"
  BY DEF FlowRequest, FlowAsks
<1>2. PICK marks : marks = Flow!Marked(q)
  OBVIOUS
<1>3. marks \in SUBSET Boxes /\ marks \subseteq clicked[q.task]
  <2>1. tasks[q.task].ticked \in SUBSET Boxes /\ tasks[q.task].ticked \subseteq clicked[q.task]
    BY <1>1 DEF FlowClickedIn, FlowRow
  <2> QED
    BY <1>1, <1>2, <2>1 DEF FlowAsks, Flow!Marked
<1>4. PICK row : row = [tasks'[q.task] EXCEPT !.ticked = marks]
  OBVIOUS
<1>5. row \in FlowRow /\ row.ticked = marks /\ row.status = tasks'[q.task].status
  BY <1>1, <1>3, <1>4 DEF FlowRow
<1>6. v = [tasks' EXCEPT ![q.task] = row]
  BY <1>2, <1>4
<1>7. \A t \in Tasks : v[t] = IF t = q.task THEN row ELSE tasks'[t]
  BY <1>1, <1>6
<1>8. v \in [Tasks -> FlowRow]
  BY <1>5, <1>6
<1>9. ASSUME NEW t \in Tasks, kind'[t] = "checklist"
      PROVE  /\ v[t].ticked \subseteq clicked'[t]
             /\ v[t].status = "completed" => Boxes \subseteq clicked'[t]
             /\ v[t].status # "pending_review"
  <2>1. /\ tasks'[t].ticked \subseteq clicked'[t]
        /\ tasks'[t].status = "completed" => Boxes \subseteq clicked'[t]
        /\ tasks'[t].status # "pending_review"
    BY <1>9 DEF FlowClickedIn
  <2> QED
    BY <1>3, <1>5, <1>7, <2>1
<1> QED
  BY <1>8, <1>9 DEF FlowClickedIn

\* The service does what is asked.
LEMMA FlowServed ==
  ASSUME FlowInv, NEW q \in requests, Flow!Serve(q)
  PROVE  FlowInv'
<1>1. FlowRequest(q) /\ q.answer = "none"
  BY DEF FlowInv, FlowTypes, Flow!Serve
<1>2. PICK v : v = IF q.op = "tick" THEN [tasks' EXCEPT ![q.task].ticked = Flow!Marked(q)]
                 ELSE tasks'
  OBVIOUS
<1>3. PICK s : s = [q EXCEPT !.answer = "ok", !.view = v]
  OBVIOUS
<1>4. /\ requests' = (requests \ {q}) \cup {s}
      /\ UNCHANGED <<kind, clicked, view, selected, typed, attempts, loading,
                     submitting, updating, doubt>>
  BY <1>2, <1>3 DEF Flow!Serve, Flow!pageVars
<1>5. \/ /\ q.op = "submit"
         /\ \E st \in Flow!Submitted(q.task) : tasks' = [tasks EXCEPT ![q.task].status = st]
         /\ received' = received \cup {[task |-> q.task, text |-> q.text]}
      \/ /\ q.op = "tick" /\ tasks' = [tasks EXCEPT ![q.task] = Flow!Ticked(q)] /\ received' = received
      \/ q.op \notin {"submit", "tick"} /\ tasks' = tasks /\ received' = received
  <2>1. CASE q.op = "submit"
    BY <2>1 DEF Flow!Serve
  <2>2. CASE q.op = "tick"
    BY <2>2 DEF Flow!Serve
  <2>3. CASE q.op \notin {"submit", "tick"}
    BY <2>3 DEF Flow!Serve
  <2> QED
    BY <2>1, <2>2, <2>3
<1>6. /\ tasks \in [Tasks -> FlowRow] /\ FlowClickedIn(tasks)
      /\ FlowAsks(q) /\ clicked \in [Tasks -> SUBSET Boxes]
  BY DEF FlowInv, FlowTypes, FlowClicked
<1>7. tasks' \in [Tasks -> FlowRow] /\ FlowClickedIn(tasks)'
  <2>1. CASE q.op = "submit"
    <3>1. PICK st \in Flow!Submitted(q.task) : tasks' = [tasks EXCEPT ![q.task].status = st]
      BY <1>5, <2>1
    <3>2. st \in {"not_started", "in_progress", "pending_review", "revision_requested", "completed"}
      BY SubmittedStatus
    <3>3. /\ q.task \in Tasks /\ kind[q.task] # "checklist"
      BY <1>1, <1>6, <2>1 DEF FlowRequest, FlowAsks
    <3>4. tasks' \in [Tasks -> FlowRow] /\ \A u \in Tasks : u # q.task => tasks'[u] = tasks[u]
      BY <1>6, <3>1, <3>2, <3>3, StatusSet
    <3> QED
      BY <1>4, <1>6, <3>3, <3>4 DEF FlowClickedIn
  <2>2. CASE q.op = "tick"
    BY <1>1, <1>4, <1>5, <1>6, <2>2, TickedRow
  <2>3. CASE q.op \notin {"submit", "tick"}
    BY <1>4, <1>5, <1>6, <2>3 DEF FlowClickedIn
  <2> QED
    BY <2>1, <2>2, <2>3
<1>8. /\ v \in [Tasks -> FlowRow] /\ FlowClickedIn(v)'
      /\ q.op # "tick" => v = tasks'
  <2>1. CASE q.op = "tick"
    <3>1. v = [tasks' EXCEPT ![q.task].ticked = Flow!Marked(q)]
      BY <1>2, <2>1
    <3> QED
      BY <1>1, <1>4, <1>6, <1>7, <2>1, <3>1, MarkedRow
  <2>2. CASE q.op # "tick"
    BY <1>2, <1>7, <2>2
  <2> QED
    BY <2>1, <2>2
<1>9. /\ FlowRequest(s) /\ Alike(s, q) /\ s.mixed = q.mixed /\ s.answer = "ok" /\ s.view = v
      /\ FlowAsks(s)'
  <2>1. FlowRequest(s) /\ Alike(s, q) /\ s.mixed = q.mixed /\ s.answer = "ok" /\ s.view = v
    BY <1>1, <1>3, <1>8 DEF FlowRequest, Alike
  <2>2. FlowClickedIn(s.view)'
    BY <1>8, <2>1
  <2> QED
    BY <1>4, <1>6, <2>1, <2>2 DEF FlowAsks, Alike
<1>10. /\ \A r \in requests' : FlowRequest(r)
       /\ FlowAlone'
       /\ \A p \in requests : \E r \in requests' : Alike(r, p)
  BY <1>4, <1>9, FlowGoesOn
<1>11. FlowTypes'
  BY <1>4, <1>7, <1>10 DEF FlowInv, FlowTypes
<1>12. Flow!TextsReachTheirTask'
  BY <1>1, <1>5 DEF FlowInv, Flow!TextsReachTheirTask, FlowRequest
<1>13. FlowFresh'
  <2>1. \A r \in requests' : r = s \/ r \in requests
    BY <1>4
  <2>2. s.op # "tick" => s.view = tasks'
    BY <1>8, <1>9 DEF Alike
  <2>3. ASSUME NEW r \in requests', ~r.mixed PROVE r = s
    <3>1. s \in requests'
      BY <1>4
    <3> QED
      BY <1>10, <2>3, <3>1 DEF FlowAlone
  <2> QED
    BY <2>2, <2>3 DEF FlowFresh
<1>14. FlowWaits'
  BY <1>4, <1>10, WaitsStay DEF FlowInv
<1>15. FlowShows'
  <2>1. q.op \in {"submit", "tick"} => Bringing(requests')
    BY <1>4, <1>9 DEF Bringing, Alike
  <2>2. (view' = view /\ tasks' = tasks) \/ Bringing(requests')
    BY <1>4, <1>5, <2>1
  <2> QED
    BY <1>4, <1>10, <2>2, ShowsStay DEF FlowInv
<1>16. FlowClicked'
  <2>1. \A r \in requests' : FlowAsks(r)' \/ \E p \in requests : Alike(r, p) /\ r.view = p.view
    BY <1>4, <1>9 DEF Alike
  <2>2. \A p \in requests : p.op = "tick" => p.task \in Tasks
    BY DEF FlowInv, FlowTypes, FlowRequest
  <2> QED
    BY <1>4, <1>7, <2>1, <2>2, ClicksStay DEF FlowInv
<1> QED
  BY <1>10, <1>11, <1>12, <1>13, <1>14, <1>15, <1>16 DEF FlowInv

\* The mentor decides on a submission.
LEMMA FlowReviewed ==
  ASSUME FlowInv, NEW t \in Tasks, Flow!Review(t)
  PROVE  FlowInv'
<1>1. PICK st \in {"completed", "revision_requested"} : tasks' = [tasks EXCEPT ![t].status = st]
  BY DEF Flow!Review
<1>2. /\ doubt' = TRUE /\ requests' = {[q EXCEPT !.mixed = TRUE] : q \in requests}
      /\ UNCHANGED <<kind, received, clicked, view, selected, typed, attempts, loading,
                     submitting, updating>>
  BY DEF Flow!Review, Flow!pageVars
<1>3. /\ tasks' \in [Tasks -> FlowRow]
      /\ \A u \in Tasks : u # t => tasks'[u] = tasks[u]
  <2>1. tasks \in [Tasks -> FlowRow]
    BY DEF FlowInv, FlowTypes
  <2>2. st \in {"not_started", "in_progress", "pending_review", "revision_requested", "completed"}
    OBVIOUS
  <2>3. PICK g : g = [tasks EXCEPT ![t].status = st]
    OBVIOUS
  <2>4. g \in [Tasks -> FlowRow] /\ \A u \in Tasks : u # t => g[u] = tasks[u]
    BY <2>1, <2>2, <2>3, StatusSet
  <2> QED
    BY <1>1, <2>3, <2>4
<1>4. \A q \in requests : FlowRequest(q)
  BY DEF FlowInv, FlowTypes
<1>5. \A r \in requests' : \E q \in requests :
        /\ r = [q EXCEPT !.mixed = TRUE]
        /\ FlowRequest(r) /\ Alike(r, q) /\ r.view = q.view /\ r.mixed = TRUE
  BY <1>2, <1>4, MixedAlike
<1>6. \A q \in requests : \E r \in requests' : Alike(r, q)
  BY <1>2, <1>4, MixedAlike
<1>7. FlowTypes'
  <2>1. \A r \in requests' : FlowRequest(r)
    BY <1>5
  <2> QED
    BY <1>2, <1>3, <2>1 DEF FlowInv, FlowTypes
<1>8. FlowAlone' /\ FlowFresh'
  BY <1>5 DEF FlowAlone, FlowFresh
<1>9. FlowWaits'
  BY <1>2, <1>6, WaitsStay DEF FlowInv
<1>10. FlowShows'
  BY <1>2 DEF FlowShows
<1>11. FlowClicked'
  <2>1. kind[t] # "checklist"
    BY DEF FlowInv, FlowClicked, FlowClickedIn, Flow!Review
  <2>2. FlowClickedIn(tasks)'
    BY <1>2, <1>3, <2>1 DEF FlowInv, FlowClicked, FlowClickedIn
  <2>3. \A r \in requests' : \E q \in requests : Alike(r, q) /\ r.view = q.view
    BY <1>5
  <2>4. \A p \in requests : p.op = "tick" => p.task \in Tasks
    BY <1>4 DEF FlowRequest
  <2> QED
    BY <1>2, <2>2, <2>3, <2>4, ClicksStay DEF FlowInv
<1> QED
  BY <1>2, <1>7, <1>8, <1>9, <1>10, <1>11 DEF FlowInv, Flow!TextsReachTheirTask

\* A request that is no tick goes out while those of S stay, the page waits for nothing
\* that is not under way, and shows the tasks as before or will be brought up to date.
LEMMA FlowSent ==
  ASSUME FlowInv, NEW S \in SUBSET requests, NEW n, FlowRequest(n), FlowAsks(n), n.op # "tick",
         n.answer = "none", requests' = Flow!Sent(S, n), ~n.mixed => S = {},
         \A q \in requests \ S : q.op = "attempts" \/ n.op = "load",
         UNCHANGED <<tasks, received, kind, clicked>>, ~doubt' => ~doubt, doubt' \in BOOLEAN,
         view' \in [Tasks -> FlowRow], view' = view \/ FlowClickedIn(view)',
         view' = view \/ n.op \in {"load", "submit"},
         selected' \in Tasks \cup {0}, typed' \in {0, selected'}, attempts' \in Tasks \cup {0},
         loading' \in BOOLEAN, submitting' \in BOOLEAN, FlowWaits'
  PROVE  FlowInv'
<1>1. \A q \in S : FlowRequest(q)
  BY DEF FlowInv, FlowTypes
<1>2. /\ \A r \in requests' : FlowRequest(r)
      /\ FlowAlone' /\ FlowFresh'
      /\ n \in requests'
      /\ \A q \in S : \E r \in requests' : Alike(r, q)
      /\ \A r \in requests' : r = n \/ \E q \in S : Alike(r, q) /\ r.view = q.view
  BY <1>1, FlowSends
<1>3. FlowTypes' /\ Flow!TextsReachTheirTask'
  BY <1>2 DEF FlowInv, FlowTypes, Flow!TextsReachTheirTask
<1>4. FlowClicked'
  <2>1. FlowAsks(n)'
    BY DEF FlowAsks, FlowClickedIn
  <2>2. \A r \in requests' : FlowAsks(r)' \/ \E q \in requests : Alike(r, q) /\ r.view = q.view
    BY <1>2, <2>1
  <2>3. \A p \in requests : p.op = "tick" => p.task \in Tasks
    BY DEF FlowInv, FlowTypes, FlowRequest
  <2> QED
    BY <2>2, <2>3, ClicksStay DEF FlowInv
<1>5. FlowShows'
  <2>1. CASE n.op \in {"load", "submit"}
    BY <1>2, <2>1 DEF FlowShows, Bringing
  <2>2. CASE n.op \notin {"load", "submit"}
    <3>1. view' = view /\ tasks' = tasks
      BY <2>2
    <3>2. \A q \in requests \ S : q.op = "attempts"
      BY <2>2
    <3>3. \A q \in requests : q.op # "attempts" => \E r \in requests' : Alike(r, q)
      BY <1>2, <3>2
    <3> QED
      BY <3>1, <3>3, ShowsStay DEF FlowInv
  <2> QED
    BY <2>1, <2>2
<1> QED
  BY <1>2, <1>3, <1>4, <1>5 DEF FlowInv

\* Another access token.
LEMMA FlowRenewed ==
  ASSUME FlowInv, Flow!Renew
  PROVE  FlowInv'
<1>1. /\ loading' = TRUE /\ requests' = Flow!Sent(requests, Flow!Ask("load", 0))
      /\ UNCHANGED <<kind, tasks, received, clicked, view, selected, typed, attempts,
                     submitting, updating, doubt>>
  BY DEF Flow!Renew
<1>2. FlowTypes
  BY DEF FlowInv
<1>3. PICK n : n = Flow!Ask("load", 0)
  OBVIOUS
<1>4. FlowAsked(n, "load", 0)
  BY <1>3, FlowAsk
<1>5. /\ FlowRequest(n) /\ FlowAsks(n) /\ n.op = "load" /\ n.answer = "none"
      /\ n.mixed <=> requests # {}
  BY <1>4 DEF FlowRequest, FlowAsked, FlowAsks
<1>6. requests' = Flow!Sent(requests, n)
  BY <1>1, <1>3
<1>7. \A q \in requests : FlowRequest(q)
  BY DEF FlowInv, FlowTypes
<1>8. n \in requests' /\ \A q \in requests : \E r \in requests' : Alike(r, q)
  BY <1>5, <1>6, <1>7, FlowSends
<1>9. FlowWaits'
  BY <1>1, <1>5, <1>8 DEF FlowInv, FlowWaits, Alike
<1>10. requests \in SUBSET requests
  OBVIOUS
<1> QED
  BY <1>1, <1>2, <1>5, <1>6, <1>9, <1>10, FlowSent DEF FlowTypes

\* The attempts of a quiz are listed.
LEMMA FlowAttemptsLoaded ==
  ASSUME FlowInv, NEW q \in requests, q.op = "attempts", Flow!AttemptsLoaded(q)
  PROVE  FlowInv'
<1>1. /\ attempts' \in {q.task, 0} /\ requests' = requests \ {q}
      /\ UNCHANGED <<kind, tasks, received, clicked, view, selected, typed, loading, submitting,
                     updating, tally, doubt>>
  BY DEF Flow!AttemptsLoaded
<1>2. q.task \in Tasks
  BY DEF FlowInv, FlowTypes, FlowRequest
<1>3. FlowTypes' /\ Flow!TextsReachTheirTask'
  BY <1>1, <1>2 DEF FlowInv, FlowTypes, Flow!TextsReachTheirTask
<1>4. FlowAlone' /\ FlowFresh'
  BY <1>1 DEF FlowInv, FlowAlone, FlowFresh
<1>5. FlowWaits'
  BY <1>1 DEF FlowInv, FlowWaits
<1>6. FlowShows'
  BY <1>1, ShowsStay DEF FlowInv, Alike
<1>7. FlowClicked'
  <2>1. \A p \in requests : p.op = "tick" => p.task \in Tasks
    BY DEF FlowInv, FlowTypes, FlowRequest
  <2>2. \A r \in requests' : \E p \in requests : Alike(r, p) /\ r.view = p.view
    BY <1>1 DEF Alike
  <2> QED
    BY <1>1, <2>1, <2>2, ClicksStay DEF FlowInv
<1> QED
  BY <1>3, <1>4, <1>5, <1>6, <1>7 DEF FlowInv

\* Another task is selected while the requests of S are under way: those, and perhaps the
\* question for the attempts of a quiz, which meets another if there is one.
LEMMA FlowSelects ==
  ASSUME FlowTypes, NEW S \in SUBSET requests, NEW t \in Tasks, Flow!Select(t, S)
  PROVE  /\ selected' = t /\ typed' \in {0, selected'} /\ attempts' \in Tasks \cup {0}
         /\ \/ requests' = S
            \/ \E n : /\ requests' = Flow!Sent(S, n) /\ FlowRequest(n) /\ FlowAsks(n)
                      /\ n.op = "attempts" /\ n.answer = "none" /\ (n.mixed <=> requests # {})
<1>1. selected' = t /\ typed' \in {0, selected'} /\ attempts' \in Tasks \cup {0}
  BY DEF Flow!Select, FlowTypes
<1>2. requests' = S \/ requests' = Flow!Sent(S, Flow!Ask("attempts", t))
  BY DEF Flow!Select
<1>3. PICK n : n = Flow!Ask("attempts", t)
  OBVIOUS
<1>4. FlowAsked(n, "attempts", t)
  BY <1>3, FlowAsk
<1>5. /\ FlowRequest(n) /\ FlowAsks(n) /\ n.op = "attempts" /\ n.answer = "none"
      /\ n.mixed <=> requests # {}
  BY <1>4 DEF FlowRequest, FlowAsked, FlowAsks
<1> QED
  BY <1>1, <1>2, <1>3, <1>5

\* The employee turns to another task.
LEMMA FlowTurned ==
  ASSUME FlowInv, NEW t \in Tasks, Flow!TurnTo(t)
  PROVE  FlowInv'
<1>1. /\ Flow!Select(t, requests)
      /\ UNCHANGED <<kind, tasks, received, clicked, view, loading, submitting, updating, doubt>>
  BY DEF Flow!TurnTo
<1>2. FlowTypes /\ requests \in SUBSET requests
  BY DEF FlowInv
<1>3. /\ selected' = t /\ typed' \in {0, selected'} /\ attempts' \in Tasks \cup {0}
      /\ \/ requests' = requests
         \/ \E n : /\ requests' = Flow!Sent(requests, n) /\ FlowRequest(n) /\ FlowAsks(n)
                   /\ n.op = "attempts" /\ n.answer = "none" /\ (n.mixed <=> requests # {})
  BY <1>1, <1>2, FlowSelects
<1>4. CASE requests' = requests
  <2>1. FlowTypes'
    BY <1>1, <1>3, <1>4 DEF FlowInv, FlowTypes
  <2> QED
    BY <1>1, <1>4, <2>1 DEF FlowInv, Flow!TextsReachTheirTask, FlowAlone, FlowFresh, FlowWaits,
                            FlowShows, FlowClicked, FlowAsks, FlowClickedIn, Bringing
<1>5. ASSUME NEW n, requests' = Flow!Sent(requests, n), FlowRequest(n), FlowAsks(n),
             n.op = "attempts", n.answer = "none", n.mixed <=> requests # {}
      PROVE  FlowInv'
  <2>1. \A q \in requests : FlowRequest(q)
    BY DEF FlowInv, FlowTypes
  <2>2. \A q \in requests : \E r \in requests' : Alike(r, q)
    BY <1>5, <2>1, FlowSends
  <2>3. FlowWaits'
    BY <1>1, <2>2, WaitsStay DEF FlowInv
  <2> QED
    BY <1>1, <1>2, <1>3, <1>5, <2>3, FlowSent DEF FlowTypes
<1> QED
  BY <1>3, <1>4, <1>5

\* A text is typed.
LEMMA FlowTyped ==
  ASSUME FlowInv, Flow!Type
  PROVE  FlowInv'
<1>1. /\ typed' = selected
      /\ UNCHANGED <<kind, tasks, received, clicked, view, selected, attempts, loading, submitting,
                     updating, requests, doubt>>
  BY DEF Flow!Type
<1>2. FlowTypes'
  BY <1>1 DEF FlowInv, FlowTypes
<1> QED
  BY <1>1, <1>2 DEF FlowInv, Flow!TextsReachTheirTask, FlowAlone, FlowFresh, FlowWaits,
                    FlowShows, FlowClicked, FlowAsks, FlowClickedIn, Bringing

\* A task is submitted.
LEMMA FlowSubmitted ==
  ASSUME FlowInv, Flow!Submit
  PROVE  FlowInv'
<1>1. /\ selected # 0 /\ submitting' = TRUE /\ kind[selected] # "checklist"
      /\ view' = IF kind[selected] = "quiz" THEN view
                 ELSE [view EXCEPT ![selected].status =
                         IF kind[selected] = "review" THEN "pending_review" ELSE "completed"]
      /\ requests' = Flow!Sent(requests, [Flow!Ask("submit", selected) EXCEPT !.text = typed])
      /\ UNCHANGED <<kind, tasks, received, clicked, selected, typed, attempts, loading, updating,
                     doubt>>
  BY DEF Flow!Submit, Flow!Working
<1>2. FlowTypes /\ selected \in Tasks
  BY <1>1 DEF FlowInv, FlowTypes
<1>3. PICK a : a = Flow!Ask("submit", selected)
  OBVIOUS
<1>4. FlowAsked(a, "submit", selected)
  BY <1>3, FlowAsk
<1>5. PICK n : n = [a EXCEPT !.text = typed]
  OBVIOUS
<1>6. /\ FlowRequest(n) /\ FlowAsks(n) /\ n.op = "submit" /\ n.answer = "none"
      /\ n.mixed <=> requests # {}
  <2>1. typed \in {0, selected}
    BY <1>2 DEF FlowTypes
  <2> QED
    BY <1>1, <1>2, <1>4, <1>5, <2>1 DEF FlowRequest, FlowAsked, FlowAsks
<1>7. requests' = Flow!Sent(requests, n)
  BY <1>1, <1>3, <1>5
<1>8. view' \in [Tasks -> FlowRow] /\ FlowClickedIn(view)'
  <2>1. PICK st \in {"pending_review", "completed"} :
          view' = view \/ view' = [view EXCEPT ![selected].status = st]
    BY <1>1
  <2>2. view \in [Tasks -> FlowRow] /\ FlowClickedIn(view)
    BY DEF FlowInv, FlowTypes, FlowClicked
  <2>3. st \in {"not_started", "in_progress", "pending_review", "revision_requested", "completed"}
    OBVIOUS
  <2>4. CASE view' = view
    BY <1>1, <2>2, <2>4 DEF FlowClickedIn
  <2>5. CASE view' = [view EXCEPT ![selected].status = st]
    <3>1. view' \in [Tasks -> FlowRow] /\ \A u \in Tasks : u # selected => view'[u] = view[u]
      BY <1>2, <2>2, <2>3, <2>5, StatusSet
    <3> QED
      BY <1>1, <1>2, <2>2, <3>1 DEF FlowClickedIn
  <2> QED
    BY <2>1, <2>4, <2>5
<1>9. \A q \in requests : FlowRequest(q)
  BY <1>2 DEF FlowTypes
<1>10. n \in requests' /\ \A q \in requests : \E r \in requests' : Alike(r, q)
  BY <1>6, <1>7, <1>9, FlowSends
<1>11. FlowWaits'
  BY <1>1, <1>6, <1>10 DEF FlowInv, FlowWaits, Alike
<1>12. requests \in SUBSET requests
  OBVIOUS
<1>13. /\ doubt' \in BOOLEAN /\ selected' \in Tasks \cup {0} /\ typed' \in {0, selected'}
       /\ attempts' \in Tasks \cup {0} /\ loading' \in BOOLEAN /\ submitting' \in BOOLEAN
  BY <1>1, <1>2 DEF FlowTypes
<1> QED
  BY <1>1, <1>6, <1>7, <1>8, <1>11, <1>12, <1>13, FlowSent

\* A submission is answered: a load follows it.
LEMMA FlowSubmitAnswered ==
  ASSUME FlowInv, NEW q \in requests, q.op = "submit", Flow!SubmitAnswered(q)
  PROVE  FlowInv'
<1>1. /\ typed' \in {0, typed}
      /\ UNCHANGED <<kind, tasks, received, clicked, view, selected, attempts, loading, submitting,
                     updating, tally, doubt>>
      /\ requests' = Flow!Sent(requests \ {q}, [Flow!Ask("load", 0) EXCEPT
                        !.mixed = requests # {q}, !.then = "submit", !.again = q.answer = "ok"])
  BY DEF Flow!SubmitAnswered
<1>2. PICK a : a = Flow!Ask("load", 0)
  OBVIOUS
<1>3. FlowAsked(a, "load", 0)
  BY <1>2, FlowAsk
<1>4. PICK m \in BOOLEAN, g \in BOOLEAN : m = (requests # {q}) /\ g = (q.answer = "ok")
  OBVIOUS
<1>5. PICK n : n = [a EXCEPT !.mixed = m, !.then = "submit", !.again = g]
  OBVIOUS
<1>6. requests' = Flow!Sent(requests \ {q}, n)
  BY <1>1, <1>2, <1>4, <1>5
<1>7. /\ FlowRequest(n) /\ FlowAsks(n) /\ n.op = "load" /\ n.answer = "none" /\ n.then = "submit"
      /\ n.mixed <=> requests # {q}
  BY <1>3, <1>4, <1>5 DEF FlowRequest, FlowAsked, FlowAsks
<1>8. ~n.mixed => requests \ {q} = {}
  BY <1>7
<1>9. \A p \in requests \ {q} : FlowRequest(p)
  BY DEF FlowInv, FlowTypes
<1>10. n \in requests' /\ \A p \in requests \ {q} : \E r \in requests' : Alike(r, p)
  BY <1>6, <1>7, <1>8, <1>9, FlowSends
<1>11. FlowWaits'
  <2>1. loading' = loading /\ submitting' = submitting /\ updating' = updating
    BY <1>1
  <2> QED
    BY <1>7, <1>10, <2>1 DEF FlowInv, FlowWaits, Alike
<1>12. requests \ {q} \in SUBSET requests /\ n.op = "load"
  BY <1>7
<1>13. /\ doubt' \in BOOLEAN /\ selected' \in Tasks \cup {0} /\ typed' \in {0, selected'}
       /\ attempts' \in Tasks \cup {0} /\ loading' \in BOOLEAN /\ submitting' \in BOOLEAN
       /\ view' \in [Tasks -> FlowRow]
  BY <1>1 DEF FlowInv, FlowTypes
<1> QED
  BY <1>1, <1>6, <1>7, <1>8, <1>11, <1>12, <1>13, FlowSent

\* An item is clicked, or its note saved.
LEMMA FlowTicked ==
  ASSUME FlowInv, NEW box \in Boxes, NEW note \in BOOLEAN, Flow!Tick(box, note)
  PROVE  FlowInv'
<1>1. selected # 0 /\ updating' = box
  BY DEF Flow!Tick, Flow!Working
<1>2. UNCHANGED <<doubt, kind, tasks, received, view, selected, typed, attempts, loading, submitting>>
  BY DEF Flow!Tick
<1>3. PICK t \in Tasks : t = selected
  BY <1>1 DEF FlowInv, FlowTypes
<1>4. PICK c \in BOOLEAN : c = ((box \in view[selected].ticked) <=> note)
  OBVIOUS
<1>5. PICK set : set = clicked[t] \cup {box}
  OBVIOUS
<1>6. clicked' = IF note \/ ~c THEN clicked ELSE [clicked EXCEPT ![t] = set]
  BY <1>3, <1>4, <1>5 DEF Flow!Tick
<1>7. kind[t] = "checklist"
  BY <1>3 DEF Flow!Tick
<1>8. clicked \in [Tasks -> SUBSET Boxes] /\ FlowClickedIn(view)
  BY DEF FlowInv, FlowTypes, FlowClicked
<1>9. PICK a : a = Flow!Ask("tick", t)
  OBVIOUS
<1>10. PICK n : n = [a EXCEPT !.box = box, !.checked = c]
  OBVIOUS
<1>11. requests' = Flow!Sent(requests, n)
  BY <1>3, <1>4, <1>9, <1>10 DEF Flow!Tick
<1>12. FlowAsked(a, "tick", t)
  BY <1>9, FlowAsk
<1>13. FlowRequest(n)
  BY <1>10, <1>12 DEF FlowRequest, FlowAsked
<1>14. /\ n.op = "tick" /\ n.task = t /\ n.box = box /\ n.checked = c /\ n.answer = "none"
       /\ n.mixed <=> requests # {}
  BY <1>10, <1>12 DEF FlowAsked
<1>15. \A q \in requests : FlowRequest(q)
  BY DEF FlowInv, FlowTypes
<1>16. /\ \A r \in requests' : FlowRequest(r)
       /\ FlowAlone' /\ FlowFresh'
       /\ n \in requests'
       /\ \A q \in requests : \E r \in requests' : Alike(r, q)
       /\ \A r \in requests' : r = n \/ \E q \in requests : Alike(r, q) /\ r.view = q.view
  BY <1>11, <1>13, <1>14, <1>15, FlowSends
<1>17. /\ clicked' \in [Tasks -> SUBSET Boxes]
       /\ \A u \in Tasks : clicked[u] \subseteq clicked'[u]
       /\ c => box \in clicked'[t]
  <2>1. set \in SUBSET Boxes /\ clicked[t] \subseteq set /\ box \in set
    BY <1>5, <1>8
  <2>2. c /\ note => box \in clicked[t]
    BY <1>3, <1>4, <1>7, <1>8 DEF FlowClickedIn
  <2> QED
    BY <1>6, <1>8, <2>1, <2>2
<1>18. FlowTypes'
  BY <1>2, <1>16, <1>17 DEF FlowInv, FlowTypes
<1>19. FlowWaits'
  <2>1. loading' = loading /\ submitting' = submitting
    BY <1>2
  <2> QED
    BY <1>14, <1>16, <2>1 DEF FlowInv, FlowWaits, Alike
<1>20. FlowShows'
  BY <1>2, <1>16, ShowsStay DEF FlowInv
<1>21. FlowClicked'
  <2>1. FlowClickedIn(n.view)'
    BY <1>2, <1>10, <1>12, <1>17 DEF FlowAsked, FlowClickedIn
  <2>2. FlowAsks(n)'
    BY <1>2, <1>7, <1>14, <1>17, <2>1 DEF FlowAsks
  <2>3. \A p \in requests : p.op = "tick" => p.task \in Tasks
    BY <1>15 DEF FlowRequest
  <2>4. \A r \in requests' : FlowAsks(r)' \/ \E q \in requests : Alike(r, q) /\ r.view = q.view
    BY <1>16, <2>2
  <2> QED
    BY <1>2, <1>17, <2>3, <2>4, ClicksStay DEF FlowInv
<1> QED
  BY <1>2, <1>16, <1>18, <1>19, <1>20, <1>21 DEF FlowInv, Flow!TextsReachTheirTask

\* A tick is answered: the page takes the task of the answer, and a load follows.
LEMMA FlowTickAnswered ==
  ASSUME FlowInv, NEW q \in requests, q.op = "tick", Flow!TickAnswered(q)
  PROVE  FlowInv'
<1>1. UNCHANGED <<kind, tasks, received, clicked, selected, typed, attempts, loading, submitting,
                  updating, tally>>
  BY DEF Flow!TickAnswered
<1>2. FlowRequest(q) /\ q.task \in Tasks /\ q.box \in Boxes
  BY DEF FlowInv, FlowTypes, FlowRequest
<1>3. view' = IF q.answer = "ok" THEN [view EXCEPT ![q.task] = q.view[q.task]] ELSE view
  BY DEF Flow!TickAnswered
<1>6. PICK d \in BOOLEAN : d = (doubt \/ q.mixed \/ q.answer # "ok")
  OBVIOUS
<1>7. doubt' = d
  BY <1>6 DEF Flow!TickAnswered
<1>8. PICK a : a = Flow!Ask("load", 0)
  OBVIOUS
<1>9. FlowAsked(a, "load", 0)
  BY <1>8, FlowAsk
<1>10. PICK m \in BOOLEAN, g \in BOOLEAN : m = (requests # {q}) /\ g = (q.answer = "ok")
  OBVIOUS
<1>11. PICK n : n = [a EXCEPT !.mixed = m, !.then = "tick", !.again = g]
  OBVIOUS
<1>12. requests' = Flow!Sent(requests \ {q}, n)
  BY <1>8, <1>10, <1>11 DEF Flow!TickAnswered
<1>13. /\ FlowRequest(n) /\ FlowAsks(n) /\ n.op = "load" /\ n.answer = "none" /\ n.then = "tick"
       /\ n.mixed <=> requests # {q}
  BY <1>9, <1>10, <1>11 DEF FlowRequest, FlowAsked, FlowAsks
<1>14. ~n.mixed => requests \ {q} = {}
  BY <1>13
<1>15. \A p \in requests \ {q} : FlowRequest(p)
  BY DEF FlowInv, FlowTypes
<1>16. /\ \A r \in requests' : FlowRequest(r)
       /\ FlowAlone' /\ FlowFresh'
       /\ n \in requests'
       /\ \A p \in requests \ {q} : \E r \in requests' : Alike(r, p)
       /\ \A r \in requests' : r = n \/ \E p \in requests \ {q} : Alike(r, p) /\ r.view = p.view
  BY <1>12, <1>13, <1>14, <1>15, FlowSends
<1>17. view' \in [Tasks -> FlowRow]
  BY <1>2, <1>3 DEF FlowInv, FlowTypes, FlowRequest
<1>18. FlowTypes'
  BY <1>1, <1>7, <1>16, <1>17 DEF FlowInv, FlowTypes
<1>19. FlowWaits'
  <2>1. loading' = loading /\ submitting' = submitting /\ updating' = updating
    BY <1>1
  <2> QED
    BY <1>13, <1>16, <2>1 DEF FlowInv, FlowWaits, Alike
<1>20. FlowShows'
  BY <1>13, <1>16 DEF FlowShows, Bringing
<1>21. FlowClicked'
  <2>1. FlowClickedIn(view) /\ FlowClickedIn(q.view)
    BY DEF FlowInv, FlowClicked, FlowAsks
  <2>2. FlowClickedIn(view)'
    <3>1. \A t \in Tasks : view'[t] = view[t] \/ view'[t] = q.view[t]
      BY <1>2, <1>3 DEF FlowInv, FlowTypes
    <3> QED
      BY <1>1, <2>1, <3>1 DEF FlowClickedIn
  <2>3. FlowAsks(n)'
    BY <1>1, <1>13 DEF FlowAsks, FlowClickedIn
  <2>4. \A r \in requests' : FlowAsks(r)' \/ \E p \in requests : Alike(r, p) /\ r.view = p.view
    BY <1>16, <2>3
  <2>5. \A p \in requests : p.op = "tick" => p.task \in Tasks
    BY DEF FlowInv, FlowTypes, FlowRequest
  <2> QED
    BY <1>1, <2>2, <2>4, <2>5, ClicksStay DEF FlowInv
<1> QED
  BY <1>1, <1>16, <1>18, <1>19, <1>20, <1>21 DEF FlowInv, Flow!TextsReachTheirTask

\* A load is answered, refused or lost, with what follows it.
LEMMA FlowLoaded ==
  ASSUME FlowInv, NEW q \in requests, q.op = "load", Flow!Loaded(q)
  PROVE  FlowInv'
<1>1. loading' = FALSE /\ UNCHANGED <<kind, tasks, received, clicked, tally>>
  BY DEF Flow!Loaded
<1>2. FlowRequest(q) /\ FlowTypes
  BY DEF FlowInv, FlowTypes
<1>3. PICK d \in BOOLEAN : d = (q.answer # "ok" \/ q.mixed \/ \E r \in requests \ {q} : r.op # "attempts")
  OBVIOUS
<1>4. doubt' = d
  BY <1>3 DEF Flow!Loaded
<1>5. PICK s \in BOOLEAN : s = (submitting /\ q.then # "submit")
  OBVIOUS
<1>6. \/ q.again /\ q.answer # "ok" /\ submitting' = submitting /\ updating' = updating
      \/ submitting' = s /\ updating' = IF q.then = "tick" THEN "none" ELSE updating
  BY <1>5 DEF Flow!Loaded
<1>7. submitting' \in BOOLEAN
  BY <1>2, <1>6 DEF FlowTypes
<1>8. PICK S : S = requests \ {q}
  OBVIOUS
<1>9. S \in SUBSET requests /\ \A p \in S : FlowRequest(p)
  BY <1>2, <1>8 DEF FlowTypes
<1>10. /\ selected' \in Tasks \cup {0} /\ typed' \in {0, selected'} /\ attempts' \in Tasks \cup {0}
       /\ view' = IF q.answer = "ok" THEN q.view ELSE view
       /\ \/ requests' = S /\ ~(q.again /\ q.answer # "ok")
          \/ \E n : /\ requests' = Flow!Sent(S, n) /\ FlowRequest(n) /\ FlowAsks(n)
                    /\ n.mixed /\ n.answer = "none"
                    /\ \/ n.op = "attempts" /\ q.answer = "ok"
                       \/ n.op = "load" /\ n.then = q.then
  <2>1. CASE q.answer = "ok"
    <3>1. PICK t \in Tasks : Flow!Select(t, S)
      BY <1>8, <2>1 DEF Flow!Loaded
    <3>2. /\ selected' = t /\ typed' \in {0, selected'} /\ attempts' \in Tasks \cup {0}
          /\ \/ requests' = S
             \/ \E n : /\ requests' = Flow!Sent(S, n) /\ FlowRequest(n) /\ FlowAsks(n)
                       /\ n.op = "attempts" /\ n.answer = "none" /\ (n.mixed <=> requests # {})
      BY <1>2, <1>9, <3>1, FlowSelects
    <3>3. view' = q.view
      BY <2>1 DEF Flow!Loaded
    <3> QED
      BY <2>1, <3>2, <3>3
  <2>2. CASE q.answer # "ok"
    <3>1. UNCHANGED <<view, selected, typed, attempts>>
      BY <2>2 DEF Flow!Loaded
    <3>2. requests' = IF q.again THEN Flow!Sent(S, [Flow!Ask("load", 0) EXCEPT !.then = q.then]) ELSE S
      BY <1>8, <2>2 DEF Flow!Loaded
    <3>3. PICK a : a = Flow!Ask("load", 0)
      OBVIOUS
    <3>4. FlowAsked(a, "load", 0)
      BY <3>3, FlowAsk
    <3>5. PICK n : n = [a EXCEPT !.then = q.then]
      OBVIOUS
    <3>6. /\ FlowRequest(n) /\ FlowAsks(n) /\ n.op = "load" /\ n.then = q.then
          /\ n.answer = "none" /\ n.mixed
      BY <1>2, <3>4, <3>5 DEF FlowAsked, FlowRequest, FlowAsks
    <3>7. requests' = IF q.again THEN Flow!Sent(S, n) ELSE S
      BY <3>2, <3>3, <3>5
    <3> QED
      BY <1>2, <2>2, <3>1, <3>6, <3>7 DEF FlowTypes
  <2> QED
    BY <2>1, <2>2
<1>11. /\ \A r \in requests' : FlowRequest(r)
       /\ FlowAlone' /\ FlowFresh'
       /\ \A p \in S : \E r \in requests' : Alike(r, p)
       /\ \A r \in requests' : FlowAsks(r) \/ \E p \in requests : Alike(r, p) /\ r.view = p.view
       /\ q.again /\ q.answer # "ok" => \E r \in requests' : r.op = "load" /\ r.then = q.then
  <2>1. CASE requests' = S /\ ~(q.again /\ q.answer # "ok")
    <3>1. \A p \in S : Alike(p, p)
      BY DEF Alike
    <3>2. FlowAlone' /\ FlowFresh'
      BY <1>1, <1>8, <2>1 DEF FlowInv, FlowAlone, FlowFresh
    <3> QED
      BY <1>8, <1>9, <2>1, <3>1, <3>2
  <2>2. ASSUME NEW n, requests' = Flow!Sent(S, n), FlowRequest(n), FlowAsks(n), n.mixed,
               n.answer = "none",
               \/ n.op = "attempts" /\ q.answer = "ok"
               \/ n.op = "load" /\ n.then = q.then
        PROVE  /\ \A r \in requests' : FlowRequest(r)
               /\ FlowAlone' /\ FlowFresh'
               /\ \A p \in S : \E r \in requests' : Alike(r, p)
               /\ \A r \in requests' : FlowAsks(r) \/ \E p \in requests : Alike(r, p) /\ r.view = p.view
               /\ q.again /\ q.answer # "ok" => \E r \in requests' : r.op = "load" /\ r.then = q.then
    <3>1. /\ \A r \in requests' : FlowRequest(r)
          /\ FlowAlone' /\ FlowFresh'
          /\ n \in requests'
          /\ \A p \in S : \E r \in requests' : Alike(r, p)
          /\ \A r \in requests' : r = n \/ \E p \in S : Alike(r, p) /\ r.view = p.view
      BY <1>9, <2>2, FlowSends
    <3>2. q.again /\ q.answer # "ok" => \E r \in requests' : r.op = "load" /\ r.then = q.then
      BY <2>2, <3>1
    <3>3. \A r \in requests' : FlowAsks(r) \/ \E p \in requests : Alike(r, p) /\ r.view = p.view
      BY <1>9, <2>2, <3>1
    <3> QED
      BY <3>1, <3>2, <3>3
  <2> QED
    BY <1>10, <2>1, <2>2
<1>12. view' \in [Tasks -> FlowRow]
  BY <1>2, <1>10 DEF FlowTypes, FlowRequest
<1>13. FlowTypes'
  BY <1>1, <1>2, <1>4, <1>7, <1>10, <1>11, <1>12 DEF FlowTypes
<1>14. FlowWaits'
  <2>1. \A p \in requests : p # q => \E r \in requests' : r.op = p.op /\ r.then = p.then
    BY <1>8, <1>11 DEF Alike
  <2>2. submitting' => \E r \in requests' : r.op = "submit" \/ (r.op = "load" /\ r.then = "submit")
    <3>1. submitting' => submitting /\ ((q.again /\ q.answer # "ok") \/ q.then # "submit")
      BY <1>5, <1>6
    <3>2. submitting =>
            \/ q.then = "submit"
            \/ \E p \in requests : p # q /\ (p.op = "submit" \/ (p.op = "load" /\ p.then = "submit"))
      BY DEF FlowInv, FlowWaits
    <3>3. q.again /\ q.answer # "ok" /\ q.then = "submit" =>
            \E r \in requests' : r.op = "load" /\ r.then = "submit"
      BY <1>11
    <3> QED
      BY <2>1, <3>1, <3>2, <3>3
  <2>3. updating' # "none" => \E r \in requests' : r.op = "tick" \/ (r.op = "load" /\ r.then = "tick")
    BY <1>6, <1>11, <2>1 DEF FlowInv, FlowWaits
  <2> QED
    BY <1>1, <2>2, <2>3 DEF FlowWaits
<1>15. FlowShows'
  <2> SUFFICES ASSUME ~d PROVE FlowShows'
    BY <1>4 DEF FlowShows
  <2>1. q.answer = "ok" /\ ~q.mixed
    BY <1>3
  <2>2. view' = tasks /\ tasks' = tasks
    <3>1. q.op # "tick"
      OBVIOUS
    <3>2. q.view = tasks
      BY <2>1, <3>1 DEF FlowInv, FlowFresh
    <3> QED
      BY <1>1, <1>10, <2>1, <3>2
  <2> QED
    BY <2>2 DEF FlowShows
<1>16. FlowClicked'
  <2>1. \A p \in requests : p.op = "tick" => p.task \in Tasks
    BY <1>2 DEF FlowTypes, FlowRequest
  <2>2. view' = view \/ FlowClickedIn(view)'
    <3>1. FlowClickedIn(q.view)
      BY DEF FlowInv, FlowClicked, FlowAsks
    <3> QED
      BY <1>1, <1>10, <3>1 DEF FlowClickedIn
  <2>3. \A r : FlowAsks(r) => FlowAsks(r)'
    BY <1>1 DEF FlowAsks, FlowClickedIn
  <2>4. \A r \in requests' : FlowAsks(r)' \/ \E p \in requests : Alike(r, p) /\ r.view = p.view
    BY <1>11, <2>3
  <2> QED
    BY <1>1, <2>1, <2>2, <2>4, ClicksStay DEF FlowInv
<1> QED
  BY <1>1, <1>11, <1>13, <1>14, <1>15, <1>16 DEF FlowInv, Flow!TextsReachTheirTask

\* Every step keeps the inductive invariant.
LEMMA FlowStep == FlowInv /\ [Flow!Next]_Flow!flowVars => FlowInv'
<1> SUFFICES ASSUME FlowInv, [Flow!Next]_Flow!flowVars PROVE FlowInv'
  OBVIOUS
<1>1. CASE UNCHANGED Flow!flowVars
  <2>1. UNCHANGED <<kind, tasks, received, clicked, view, selected, typed, attempts, loading, submitting,
                    updating, requests, doubt>>
    BY <1>1 DEF Flow!flowVars, Flow!pageVars
  <2>2. FlowTypes' /\ Flow!TextsReachTheirTask'
    BY <2>1 DEF FlowInv, FlowTypes, Flow!TextsReachTheirTask
  <2>3. FlowAlone' /\ FlowFresh' /\ FlowWaits'
    BY <2>1 DEF FlowInv, FlowAlone, FlowFresh, FlowWaits
  <2>4. FlowShows' /\ FlowClicked'
    BY <2>1 DEF FlowInv, FlowShows, FlowClicked, FlowAsks, FlowClickedIn, Bringing
  <2> QED
    BY <2>2, <2>3, <2>4 DEF FlowInv
<1>2. ASSUME NEW q \in requests, Flow!Answered(q)
      PROVE  FlowInv'
  <2>1. q.op \in {"load", "attempts", "submit", "tick"}
    BY DEF FlowInv, FlowTypes, FlowRequest
  <2>2. CASE q.op = "load"
    <3>1. Flow!Loaded(q)
      BY <1>2, <2>2 DEF Flow!Answered
    <3> QED
      BY <2>2, <3>1, FlowLoaded
  <2>3. CASE q.op = "attempts"
    <3>1. Flow!AttemptsLoaded(q)
      BY <1>2, <2>3 DEF Flow!Answered
    <3> QED
      BY <2>3, <3>1, FlowAttemptsLoaded
  <2>4. CASE q.op = "submit"
    <3>1. Flow!SubmitAnswered(q)
      BY <1>2, <2>4 DEF Flow!Answered
    <3> QED
      BY <2>4, <3>1, FlowSubmitAnswered
  <2>5. CASE q.op = "tick"
    <3>1. Flow!TickAnswered(q)
      BY <1>2, <2>5 DEF Flow!Answered
    <3> QED
      BY <2>5, <3>1, FlowTickAnswered
  <2> QED
    BY <2>1, <2>2, <2>3, <2>4, <2>5
<1>3. CASE Flow!Renew \/ Flow!Type \/ Flow!Submit
  BY <1>3, FlowRenewed, FlowTyped, FlowSubmitted
<1>4. CASE \E t \in Tasks : Flow!Review(t) \/ Flow!TurnTo(t)
  BY <1>4, FlowReviewed, FlowTurned
<1>5. CASE \E box \in Boxes, note \in BOOLEAN : Flow!Tick(box, note)
  BY <1>5, FlowTicked
<1>6. CASE \E q \in requests : Flow!Serve(q) \/ Flow!Lose(q)
  BY <1>6, FlowServed, FlowLost
<1> QED
  BY <1>1, <1>2, <1>3, <1>4, <1>5, <1>6 DEF Flow!Next

\* The inductive invariant: a request that met no other has read the tasks as they are, what
\* disables a button is under way, and every mark, stored, shown or under way, was clicked.
THEOREM FlowAlwaysCoherent ==
  ASSUME Flow!FlowAssumption PROVE Flow!Spec => []FlowInv
<1>1. Flow!Init => FlowInv
  BY FlowStart
<1>2. FlowInv /\ [Flow!Next]_Flow!flowVars => FlowInv'
  BY FlowStep
<1> QED
  BY <1>1, <1>2, PTL DEF Flow!Spec

\* Every variable keeps to its domain, and what is submitted for a task was typed for it,
\* whatever task is selected when an earlier submission is answered, reviewed or loaded.
THEOREM TextsAlwaysReachTheirTask ==
  ASSUME Flow!FlowAssumption PROVE Flow!Spec => [](Flow!TypeOK /\ Flow!TextsReachTheirTask)
<1>1. FlowInv => Flow!TypeOK
  <2> SUFFICES ASSUME FlowInv PROVE Flow!TypeOK
    OBVIOUS
  <2>1. \A t \in Tasks :
          /\ tasks[t].ticked \subseteq Boxes
          /\ tasks[t].status \in {"not_started", "in_progress", "pending_review",
                                  "revision_requested", "completed"}
    BY DEF FlowInv, FlowTypes, FlowRow
  <2>2. selected \in Tasks \cup {0} /\ typed \in {0, selected} /\ attempts \in Tasks \cup {0}
    BY DEF FlowInv, FlowTypes
  <2>3. loading \in BOOLEAN /\ submitting \in BOOLEAN /\ doubt \in BOOLEAN
    BY DEF FlowInv, FlowTypes
  <2>4. {loading, submitting, doubt} \subseteq BOOLEAN
    BY <2>3
  <2> QED
    BY <2>1, <2>2, <2>4 DEF Flow!TypeOK
<1>2. FlowInv => Flow!TextsReachTheirTask
  BY DEF FlowInv
<1> QED
  BY <1>1, <1>2, FlowAlwaysCoherent, PTL

\* When nothing is under way the page shows the tasks as they are, unless it was told too
\* late or not at all; no button stays disabled.
THEOREM QuietFlowAlwaysCurrent ==
  ASSUME Flow!FlowAssumption PROVE Flow!Spec => []Flow!QuietFlowIsCurrent
<1>1. FlowInv => Flow!QuietFlowIsCurrent
  BY DEF FlowInv, FlowWaits, FlowShows, Bringing, Flow!QuietFlowIsCurrent
<1> QED
  BY <1>1, FlowAlwaysCoherent, PTL

\* A box that the server has ticked or the page shows ticked was clicked, and a checklist is
\* completed only when each of its boxes was, whatever requests overtake each other or fail.
THEOREM MarksWereAlwaysClicked ==
  ASSUME Flow!FlowAssumption PROVE Flow!Spec => []Flow!MarksWereClicked
<1>1. FlowInv => Flow!MarksWereClicked
  BY DEF FlowInv, FlowClicked, FlowClickedIn, Flow!MarksWereClicked
<1> QED
  BY <1>1, FlowAlwaysCoherent, PTL

=============================================================================

--------------------------- MODULE TextImport_proofs ---------------------------
(***************************************************************************)
(* Proofs about TextImport, for any number of jobs, chunks and faults:     *)
(* what the page reports of a job is so.  The second part is about an      *)
(* instance of TestBuilder, which makes tests of the questions of the      *)
(* bank, the third about one of CategoriesPage, which keeps the categories *)
(* that the questions are in.                                              *)
(***************************************************************************)
EXTENDS TextImport, Sequences, FiniteSetTheorems, WellFoundedInduction, TLAPS

Writers  == {"thread", "request"}
Record   == [status : {"none", "running"} \cup Final, cancel_requested : BOOLEAN]
Patch    == {Idle} \cup [stage : {"read", "write"}, status : {"same", "cancel"} \cup Final,
                         copy : Record]
Work     == [pc : {"none", "check", "generate", "checkAgain", "next", "save", "over", "caught"},
             chunk : 0 .. Chunks, some : BOOLEAN]
Kinds    == {"start", "poll", "peek", "cancel"}
Replies  == {"", "ok", "not ok", "lost", "none", "running"} \cup Final
Request  == [kind : Kinds, job : 0 .. MaxJobs, reply : Replies]

\* A status that says whether the questions of a job are in the bank says so rightly, and
\* it will be so: the thread of a job that was cancelled or failed has ended.  Only where it
\* ended in the except clause may a job that failed have saved its questions.
Says(j, s) ==
  /\ s = "done" => saved[j]
  /\ s = "cancelled" => ~saved[j] /\ Ended(j)
  /\ s = "error" => Ended(j) /\ (saved[j] => thread[j].pc = "caught")

Types ==
  /\ thread \in [Jobs -> Work]
  /\ patch \in [Jobs -> [Writers -> Patch]]
  /\ asked \subseteq Request
  /\ told \in [Jobs -> SUBSET Replies]

\* A thread that checks or generates has a chunk left, and requests about a job name one.
Bounded ==
  /\ \A j \in Jobs : /\ thread[j].pc \in {"check", "generate"} => thread[j].chunk < Chunks
                     /\ thread[j].pc = "none" => thread[j].chunk = 0
  /\ \A r \in asked : r.kind # "start" => r.job \in Jobs

\* Whatever holds a status - the record, an update that is under way and the copy it has
\* read, an answer of the server, what the page has told - says what is so.
Honest ==
  /\ \A j \in Jobs : saved[j] => Ended(j)
  /\ \A j \in Jobs : Says(j, job[j].status)
  /\ \A j \in Jobs, w \in Writers : Says(j, patch[j][w].status) /\ Says(j, patch[j][w].copy.status)
  /\ \A r \in asked : r.kind \in {"poll", "peek"} => Says(r.job, r.reply)
  /\ \A j \in Jobs : \A s \in told[j] : Says(j, s)

IInv == TypeOK /\ Types /\ Bounded /\ Honest

-----------------------------------------------------------------------------
(* What steps have in common. *)

\* A thread that has ended stays so, and what it has saved, or not, is settled.
Onward ==
  \A j \in Jobs : /\ Ended(j) => Ended(j)' /\ saved'[j] = saved[j]
                  /\ thread[j].pc = "caught" => thread'[j].pc = "caught"
                  /\ saved[j] => saved'[j]
                  /\ saved'[j] => Ended(j)'

LEMMA OnwardSame == ASSUME Honest, UNCHANGED <<thread, saved>> PROVE Onward
BY DEF Honest, Onward, Ended

\* Statuses that go on being said are still true; new ones have to be.
LEMMA HonestKept ==
  ASSUME Honest, Onward,
         \A j \in Jobs : job'[j].status = job[j].status \/ Says(j, job[j].status)',
         \A j \in Jobs, w \in Writers :
           /\ patch'[j][w].status = patch[j][w].status \/ Says(j, patch[j][w].status)'
           /\ patch'[j][w].copy.status = patch[j][w].copy.status \/ Says(j, patch[j][w].copy.status)',
         \A r \in asked' : r \in asked \/ (r.kind \in {"poll", "peek"} => r.job \in Jobs /\ Says(r.job, r.reply)'),
         \A r \in asked : r.kind # "start" => r.job \in Jobs,
         \A j \in Jobs : \A s \in told'[j] : s \in told[j] \/ Says(j, s)'
  PROVE  Honest'
<1>1. ASSUME NEW j \in Jobs, NEW s, Says(j, s) PROVE Says(j, s)'
  BY <1>1 DEF Onward, Says
<1>2. ASSUME NEW j \in Jobs PROVE (saved[j] => Ended(j))'
  BY <1>2 DEF Onward
<1>3. ASSUME NEW j \in Jobs PROVE Says(j, job[j].status)'
  BY <1>3 DEF Honest, Onward, Says, Ended
<1>4. ASSUME NEW j \in Jobs, NEW w \in Writers
      PROVE  Says(j, patch[j][w].status)' /\ Says(j, patch[j][w].copy.status)'
  <2>1. Says(j, patch[j][w].status) /\ Says(j, patch[j][w].copy.status)
    BY <1>4 DEF Honest
  <2> QED
    BY <1>4, <2>1 DEF Onward, Says, Ended
<1>5. ASSUME NEW r \in asked', r.kind \in {"poll", "peek"} PROVE Says(r.job, r.reply)'
  <2>1. CASE r \in asked
    <3>1. r.job \in Jobs /\ Says(r.job, r.reply)
      BY <1>5, <2>1 DEF Honest
    <3> QED
      BY <3>1 DEF Onward, Says, Ended
  <2>2. CASE r \notin asked
    BY <1>5, <2>2
  <2> QED
    BY <2>1, <2>2
<1>6. ASSUME NEW j \in Jobs, NEW s \in told'[j] PROVE Says(j, s)'
  <2>1. s \in told[j] => Says(j, s)
    BY DEF Honest
  <2> QED
    BY <1>1, <2>1
<1> QED
  BY <1>2, <1>3, <1>4, <1>5, <1>6 DEF Honest

\* The records hold statuses that are none of a text, or say something.
LEMMA AbsentIs == Absent.status = "none" /\ Absent \in Record
BY DEF Absent, Record

LEMMA IdleIs ==
  Idle.stage = "idle" /\ Idle.status = "" /\ Idle.copy = Absent /\ Idle \in Patch
BY DEF Idle, Patch

\* An update begins: what it sets is said, the copy is still absent.
LEMMA UpdateSet ==
  ASSUME Types, NEW j \in Jobs, NEW w \in Writers, NEW s \in {"same", "cancel"} \cup Final,
         Update(j, w, s)
  PROVE  /\ patch' \in [Jobs -> [Writers -> Patch]]
         /\ patch'[j][w].status = s /\ patch'[j][w].copy.status = "none"
         /\ \A i \in Jobs, v \in Writers : i # j \/ v # w => patch'[i][v] = patch[i][v]
<1> DEFINE u == [stage |-> "read", status |-> s, copy |-> Absent]
<1>1. u \in Patch /\ u.status = s /\ u.copy.status = "none"
  BY AbsentIs DEF Patch
<1>2. patch' = [patch EXCEPT ![j][w] = u]
  BY DEF Update
<1> HIDE DEF u
<1>3. /\ patch' \in [Jobs -> [Writers -> Patch]] /\ patch'[j][w] = u
      /\ \A i \in Jobs, v \in Writers : i # j \/ v # w => patch'[i][v] = patch[i][v]
  BY <1>1, <1>2 DEF Types
<1> QED
  BY <1>1, <1>3

\* The pc of a thread moves, and nothing else of it.
LEMMA GoSet ==
  ASSUME Types, NEW j \in Jobs,
         NEW pc \in {"none", "check", "generate", "checkAgain", "next", "save", "over", "caught"},
         Go(j, pc)
  PROVE  /\ thread' \in [Jobs -> Work] /\ thread'[j].pc = pc
         /\ thread'[j].chunk = thread[j].chunk
         /\ \A i \in Jobs \ {j} : thread'[i] = thread[i]
<1> DEFINE e == [thread[j] EXCEPT !.pc = pc]
<1>1. thread[j] \in Work
  BY DEF Types
<1>2. e \in Work /\ e.pc = pc /\ e.chunk = thread[j].chunk
  BY <1>1 DEF Work
<1>3. thread' = [thread EXCEPT ![j] = e]
  BY DEF Go
<1> HIDE DEF e
<1> QED
  BY <1>2, <1>3 DEF Types

-----------------------------------------------------------------------------
(* The record. *)

LEMMA ReadJobKeeps ==
  ASSUME IInv, NEW j \in Jobs, NEW w \in Writers, ReadJob(j, w)
  PROVE  IInv'
<1> DEFINE e == IF job[j] = Absent THEN Idle
                ELSE [patch[j][w] EXCEPT !.stage = "write", !.copy = job[j]]
<1>1. TypeOK /\ Types /\ Bounded /\ Honest
  BY DEF IInv
<1>2. /\ patch' = [patch EXCEPT ![j][w] = e] /\ patch[j][w].stage = "read"
      /\ UNCHANGED <<job, thread, saved, importing, jobId, interval, key, cancelling, asked, told>>
  BY DEF ReadJob, sheet
<1>3. job[j] \in Record /\ patch[j][w] \in Patch
  BY <1>1 DEF TypeOK, Types, Record
<1>4. /\ e \in Patch /\ e.status \in {"", patch[j][w].status}
      /\ e.copy.status \in {"none", job[j].status}
  <2>1. CASE job[j] = Absent
    BY <2>1, AbsentIs, IdleIs
  <2>2. CASE job[j] # Absent
    <3>1. patch[j][w] # Idle
      BY <1>2, IdleIs
    <3>2. patch[j][w] \in [stage : {"read", "write"}, status : {"same", "cancel"} \cup Final,
                           copy : Record]
      BY <1>3, <3>1 DEF Patch
    <3>3. e = [patch[j][w] EXCEPT !.stage = "write", !.copy = job[j]]
      BY <2>2
    <3>4. /\ e \in [stage : {"read", "write"}, status : {"same", "cancel"} \cup Final, copy : Record]
          /\ e.status = patch[j][w].status /\ e.copy = job[j]
      BY <1>3, <3>2, <3>3
    <3> HIDE DEF e
    <3> QED
      BY <3>4 DEF Patch
  <2> QED
    BY <2>1, <2>2
<1> HIDE DEF e
<1>5. /\ patch' \in [Jobs -> [Writers -> Patch]] /\ patch'[j][w] = e
      /\ \A i \in Jobs, v \in Writers : i # j \/ v # w => patch'[i][v] = patch[i][v]
  BY <1>1, <1>2, <1>4 DEF Types
<1>6. TypeOK' /\ Types' /\ Bounded'
  BY <1>1, <1>2, <1>5 DEF TypeOK, Types, Bounded
<1>7. Honest'
  <2>1. ASSUME NEW i \in Jobs, NEW v \in Writers
        PROVE  /\ patch'[i][v].status = patch[i][v].status \/ Says(i, patch[i][v].status)'
               /\ patch'[i][v].copy.status = patch[i][v].copy.status \/ Says(i, patch[i][v].copy.status)'
    <3>1. CASE i = j /\ v = w
      <4>1. /\ patch'[i][v].status \in {"", patch[i][v].status}
            /\ patch'[i][v].copy.status \in {"none", job[i].status}
        BY <1>4, <1>5, <3>1
      <4>2. Says(i, job[i].status)
        BY <1>1 DEF Honest
      <4> QED
        BY <1>2, <4>1, <4>2 DEF Says, Ended
    <3>2. CASE i # j \/ v # w
      BY <1>5, <3>2
    <3> QED
      BY <3>1, <3>2
  <2> QED
    BY <1>1, <1>2, <2>1, OnwardSame, HonestKept DEF Bounded
<1> QED
  BY <1>1, <1>6, <1>7 DEF IInv

\* An update is written: the record says what the update or the copy it has read says.
LEMMA WriteSet ==
  ASSUME IInv, NEW j \in Jobs, NEW w \in Writers, patch[j][w].stage = "write",
         job' = [job EXCEPT ![j] = Patched(patch[j][w].copy, patch[j][w].status)]
  PROVE  /\ job' \in [Jobs -> Record]
         /\ \A i \in Jobs : job'[i].status = job[i].status \/ Says(i, job'[i].status)
<1> DEFINE u == patch[j][w]
           e == Patched(u.copy, u.status)
<1>1. TypeOK /\ Types /\ Bounded /\ Honest
  BY DEF IInv
<1>2. job' = [job EXCEPT ![j] = e] /\ u.stage = "write"
  OBVIOUS
<1>3. u.status \in {"same", "cancel"} \cup Final /\ u.copy \in Record
  <2>1. u \in Patch /\ u # Idle
    BY <1>1, <1>2, IdleIs DEF Types
  <2> QED
    BY <2>1 DEF Patch
<1>4. e \in Record /\ e.status \in {u.copy.status, u.status}
  <2>1. CASE u.status = "same"
    BY <1>3, <2>1 DEF Patched
  <2>2. CASE u.status = "cancel"
    <3>1. e = [u.copy EXCEPT !.cancel_requested = TRUE]
      BY <2>2 DEF Patched
    <3> QED
      BY <1>3, <3>1 DEF Record
  <2>3. CASE u.status \in Final
    <3>1. e = [u.copy EXCEPT !.status = u.status]
      BY <2>3 DEF Patched, Final
    <3> QED
      BY <1>3, <2>3, <3>1 DEF Record
  <2> QED
    BY <1>3, <2>1, <2>2, <2>3
<1>5. Says(j, u.status) /\ Says(j, u.copy.status)
  BY <1>1 DEF Honest
<1> HIDE DEF e, u
<1>6. /\ job' \in [Jobs -> Record] /\ job'[j] = e
      /\ \A i \in Jobs \ {j} : job'[i] = job[i]
  BY <1>1, <1>2, <1>4 DEF TypeOK, Record
<1>7. Says(j, job'[j].status)
  BY <1>4, <1>5, <1>6 DEF Says
<1> QED
  BY <1>6, <1>7

\* An update ends, whether it has written the record or not.
LEMMA IdleKeeps ==
  ASSUME IInv, NEW j \in Jobs, NEW w \in Writers,
         job' \in [Jobs -> Record],
         \A i \in Jobs : job'[i].status = job[i].status \/ Says(i, job'[i].status),
         patch' \in [Jobs -> [Writers -> Patch]], patch'[j][w] = Idle,
         \A i \in Jobs, v \in Writers : i # j \/ v # w => patch'[i][v] = patch[i][v],
         UNCHANGED <<thread, saved, importing, jobId, interval, key, cancelling, asked, told>>
  PROVE  IInv'
<1>1. TypeOK /\ Types /\ Bounded /\ Honest
  BY DEF IInv
<1>2. TypeOK' /\ Types' /\ Bounded'
  BY <1>1 DEF TypeOK, Types, Bounded, Record
<1>3. Honest'
  <2>1. \A i \in Jobs : job'[i].status = job[i].status \/ Says(i, job[i].status)'
    BY DEF Says, Ended
  <2>2. ASSUME NEW i \in Jobs, NEW v \in Writers
        PROVE  /\ patch'[i][v].status = patch[i][v].status \/ Says(i, patch[i][v].status)'
               /\ patch'[i][v].copy.status = patch[i][v].copy.status \/ Says(i, patch[i][v].copy.status)'
    <3>1. CASE i = j /\ v = w
      BY <3>1, AbsentIs, IdleIs DEF Says
    <3>2. CASE i # j \/ v # w
      BY <3>2
    <3> QED
      BY <3>1, <3>2
  <2> QED
    BY <1>1, <2>1, <2>2, OnwardSame, HonestKept DEF Bounded
<1> QED
  BY <1>1, <1>2, <1>3 DEF IInv

LEMMA WriteJobKeeps ==
  ASSUME IInv, NEW j \in Jobs, NEW w \in Writers, WriteJob(j, w)
  PROVE  IInv'
<1>1. TypeOK /\ Types /\ Bounded /\ Honest
  BY DEF IInv
<1>2. /\ job' = [job EXCEPT ![j] = Patched(patch[j][w].copy, patch[j][w].status)]
      /\ patch' = [patch EXCEPT ![j][w] = Idle]
      /\ patch[j][w].stage = "write"
      /\ UNCHANGED <<thread, saved, importing, jobId, interval, key, cancelling, asked, told>>
  BY DEF WriteJob, sheet
<1>3. /\ job' \in [Jobs -> Record]
      /\ \A i \in Jobs : job'[i].status = job[i].status \/ Says(i, job'[i].status)
  BY <1>2, WriteSet
<1>4. /\ patch' \in [Jobs -> [Writers -> Patch]] /\ patch'[j][w] = Idle
      /\ \A i \in Jobs, v \in Writers : i # j \/ v # w => patch'[i][v] = patch[i][v]
  BY <1>1, <1>2, IdleIs DEF Types
<1> QED
  BY <1>2, <1>3, <1>4, IdleKeeps

LEMMA ExpireKeeps ==
  ASSUME IInv, NEW j \in Jobs, Expire(j)
  PROVE  IInv'
<1>1. TypeOK /\ Types /\ Bounded /\ Honest
  BY DEF IInv
<1>2. /\ job' = [job EXCEPT ![j] = Absent]
      /\ UNCHANGED <<thread, patch, saved, importing, jobId, interval, key, cancelling, asked, told>>
  BY DEF Expire, sheet
<1>3. /\ job' \in [Jobs -> Record] /\ job'[j] = Absent
      /\ \A i \in Jobs \ {j} : job'[i] = job[i]
  BY <1>1, <1>2, AbsentIs DEF TypeOK, Record
<1>4. TypeOK' /\ Types' /\ Bounded'
  BY <1>1, <1>2, <1>3 DEF TypeOK, Types, Bounded, Record
<1>5. Honest'
  <2>1. \A i \in Jobs : job'[i].status = job[i].status \/ Says(i, job[i].status)'
    BY <1>3, AbsentIs DEF Says
  <2> QED
    BY <1>1, <1>2, <2>1, OnwardSame, HonestKept DEF Bounded
<1> QED
  BY <1>1, <1>4, <1>5 DEF IInv

-----------------------------------------------------------------------------
(* The thread of a job. *)

\* A step of a thread that has not ended, or is caught now: it may begin an update, and may
\* save or have written the record.
LEMMA StepKeeps ==
  ASSUME IInv, NEW j \in Jobs,
         ~Ended(j) \/ (thread'[j].pc = "caught" /\ saved' = saved),
         thread' \in [Jobs -> Work], \A i \in Jobs \ {j} : thread'[i] = thread[i],
         thread'[j].pc # "none",
         thread'[j].pc \in {"check", "generate"} => thread'[j].chunk < Chunks,
         patch' \in [Jobs -> [Writers -> Patch]],
         \A i \in Jobs, v \in Writers : i # j \/ v # "thread" => patch'[i][v] = patch[i][v],
         \/ patch'[j]["thread"] = patch[j]["thread"]
         \/ Says(j, patch[j]["thread"].status)' /\ patch'[j]["thread"].copy.status = "none",
         saved' \in [Jobs -> BOOLEAN], \A i \in Jobs \ {j} : saved'[i] = saved[i],
         saved'[j] => Ended(j)',
         job' \in [Jobs -> Record],
         \A i \in Jobs : job'[i].status = job[i].status \/ Says(i, job'[i].status),
         UNCHANGED <<importing, jobId, interval, key, cancelling, asked, told>>
  PROVE  IInv'
<1>1. TypeOK /\ Types /\ Bounded /\ Honest
  BY DEF IInv
<1>2. TypeOK'
  BY <1>1 DEF TypeOK, Work, Record
<1>3. Types' /\ Bounded'
  BY <1>1 DEF Types, Bounded
<1>4. Onward
  BY <1>1 DEF Honest, Onward, Ended
<1>5. ASSUME NEW i \in Jobs, NEW v \in Writers
      PROVE  /\ patch'[i][v].status = patch[i][v].status \/ Says(i, patch[i][v].status)'
             /\ patch'[i][v].copy.status = patch[i][v].copy.status \/ Says(i, patch[i][v].copy.status)'
  <2>1. CASE i = j /\ v = "thread"
    BY <2>1 DEF Says
  <2>2. CASE i # j \/ v # "thread"
    BY <2>2
  <2> QED
    BY <2>1, <2>2
<1>6. \A i \in Jobs : job'[i].status = job[i].status \/ Says(i, job[i].status)'
  BY <1>4 DEF Onward, Says, Ended
<1>7. Honest'
  BY <1>1, <1>4, <1>5, <1>6, HonestKept DEF Bounded
<1> QED
  BY <1>2, <1>3, <1>7 DEF IInv

\* A step of a thread that is at work.
LEMMA ThreadKeeps ==
  ASSUME IInv, NEW j \in Jobs, thread[j].pc \notin {"none", "over", "caught"},
         thread' \in [Jobs -> Work], \A i \in Jobs \ {j} : thread'[i] = thread[i],
         thread'[j].pc # "none",
         thread'[j].pc \in {"check", "generate"} => thread'[j].chunk < Chunks,
         patch' \in [Jobs -> [Writers -> Patch]],
         \A i \in Jobs, v \in Writers : i # j \/ v # "thread" => patch'[i][v] = patch[i][v],
         \/ patch'[j]["thread"] = patch[j]["thread"]
         \/ Says(j, patch[j]["thread"].status)' /\ patch'[j]["thread"].copy.status = "none",
         saved' \in [Jobs -> BOOLEAN], \A i \in Jobs \ {j} : saved'[i] = saved[i],
         saved'[j] => Ended(j)',
         UNCHANGED kept
  PROVE  IInv'
<1>1. ~Ended(j)
  BY DEF Ended
<1>2. job' = job /\ UNCHANGED <<importing, jobId, interval, key, cancelling, asked, told>>
  BY DEF kept, sheet
<1>3. job' \in [Jobs -> Record]
  BY <1>2 DEF IInv, TypeOK, Record
<1> QED
  BY <1>1, <1>2, <1>3, StepKeeps

\* A thread that is at work has saved nothing yet.
LEMMA NotSavedYet ==
  ASSUME IInv, NEW j \in Jobs, thread[j].pc \notin {"over", "caught"}
  PROVE  ~saved[j] /\ saved \in [Jobs -> BOOLEAN]
BY DEF IInv, TypeOK, Honest, Ended

LEMMA CheckKeeps ==
  ASSUME IInv, NEW j \in Jobs, Check(j, "check", "generate")
  PROVE  IInv'
<1>1. /\ thread[j].pc = "check" /\ UNCHANGED <<saved, kept>>
      /\ \/ Go(j, "over") /\ Update(j, "thread", "cancelled")
         \/ Go(j, "generate") /\ Update(j, "thread", "same")
  BY DEF Check, At
<1>2. Types /\ thread[j].chunk < Chunks /\ "thread" \in Writers
  BY <1>1 DEF IInv, Bounded, Writers
<1>3. ~saved[j] /\ saved \in [Jobs -> BOOLEAN] /\ UNCHANGED <<saved, kept>>
  BY <1>1, NotSavedYet
<1>4. CASE Go(j, "over") /\ Update(j, "thread", "cancelled")
  <2>1. /\ thread' \in [Jobs -> Work] /\ thread'[j].pc = "over"
        /\ \A i \in Jobs \ {j} : thread'[i] = thread[i]
    BY <1>2, <1>4, GoSet
  <2>2. /\ patch' \in [Jobs -> [Writers -> Patch]]
        /\ patch'[j]["thread"].status = "cancelled" /\ patch'[j]["thread"].copy.status = "none"
        /\ \A i \in Jobs, v \in Writers : i # j \/ v # "thread" => patch'[i][v] = patch[i][v]
    BY <1>2, <1>4, UpdateSet DEF Final
  <2>3. Says(j, patch[j]["thread"].status)'
    BY <1>3, <2>1, <2>2 DEF Says, Ended
  <2> QED
    BY <1>1, <1>3, <2>1, <2>2, <2>3, ThreadKeeps
<1>5. CASE Go(j, "generate") /\ Update(j, "thread", "same")
  <2>1. /\ thread' \in [Jobs -> Work] /\ thread'[j].pc = "generate"
        /\ thread'[j].chunk = thread[j].chunk
        /\ \A i \in Jobs \ {j} : thread'[i] = thread[i]
    BY <1>2, <1>5, GoSet
  <2>2. /\ patch' \in [Jobs -> [Writers -> Patch]]
        /\ patch'[j]["thread"].status = "same" /\ patch'[j]["thread"].copy.status = "none"
        /\ \A i \in Jobs, v \in Writers : i # j \/ v # "thread" => patch'[i][v] = patch[i][v]
    BY <1>2, <1>5, UpdateSet
  <2>3. Says(j, patch[j]["thread"].status)'
    BY <2>2 DEF Says
  <2> QED
    BY <1>1, <1>2, <1>3, <2>1, <2>2, <2>3, ThreadKeeps
<1> QED
  BY <1>1, <1>4, <1>5

LEMMA GenerateKeeps ==
  ASSUME IInv, NEW j \in Jobs, Generate(j)
  PROVE  IInv'
<1>1. thread[j].pc = "generate" /\ UNCHANGED <<saved, kept>> /\ Update(j, "thread", "same")
  BY DEF Generate, At
<1>2. Types /\ thread[j].chunk < Chunks /\ thread[j] \in Work /\ "thread" \in Writers
  BY <1>1 DEF IInv, Types, Bounded, Writers
<1>3. ~saved[j] /\ saved \in [Jobs -> BOOLEAN] /\ UNCHANGED <<saved, kept>>
  BY <1>1, NotSavedYet
<1>4. PICK some \in BOOLEAN :
        thread' = [thread EXCEPT ![j] =
          [pc |-> IF some THEN "checkAgain" ELSE "next",
           chunk |-> thread[j].chunk + 1, some |-> thread[j].some \/ some]]
  BY <1>2 DEF Generate, Types
<1> DEFINE e == [pc |-> IF some THEN "checkAgain" ELSE "next",
                 chunk |-> thread[j].chunk + 1, some |-> thread[j].some \/ some]
<1>5. e \in Work /\ e.pc \in {"checkAgain", "next"}
  <2>1. thread[j].chunk + 1 \in 0 .. Chunks
    BY <1>2, ImportAssumption DEF Work
  <2>2. (thread[j].some \/ some) \in BOOLEAN
    OBVIOUS
  <2> QED
    BY <2>1, <2>2 DEF Work
<1>6. thread' = [thread EXCEPT ![j] = e]
  BY <1>4
<1> HIDE DEF e
<1>7. /\ thread' \in [Jobs -> Work] /\ thread'[j].pc \in {"checkAgain", "next"}
      /\ \A i \in Jobs \ {j} : thread'[i] = thread[i]
  BY <1>2, <1>5, <1>6 DEF Types
<1>8. /\ patch' \in [Jobs -> [Writers -> Patch]]
      /\ patch'[j]["thread"].status = "same" /\ patch'[j]["thread"].copy.status = "none"
      /\ \A i \in Jobs, v \in Writers : i # j \/ v # "thread" => patch'[i][v] = patch[i][v]
  BY <1>1, <1>2, UpdateSet
<1>9. Says(j, patch[j]["thread"].status)'
  BY <1>8 DEF Says
<1> QED
  BY <1>1, <1>3, <1>7, <1>8, <1>9, ThreadKeeps

LEMMA CheckAgainKeeps ==
  ASSUME IInv, NEW j \in Jobs, CheckAgain(j)
  PROVE  IInv'
<1>1. /\ thread[j].pc = "checkAgain" /\ UNCHANGED <<saved, kept>>
      /\ \/ Go(j, "over") /\ Update(j, "thread", "cancelled")
         \/ Go(j, "next") /\ UNCHANGED patch
  BY DEF CheckAgain, At
<1>2. Types /\ "thread" \in Writers /\ patch \in [Jobs -> [Writers -> Patch]]
  BY DEF IInv, Types, Writers
<1>3. ~saved[j] /\ saved \in [Jobs -> BOOLEAN] /\ UNCHANGED <<saved, kept>>
  BY <1>1, NotSavedYet
<1>4. CASE Go(j, "over") /\ Update(j, "thread", "cancelled")
  <2>1. /\ thread' \in [Jobs -> Work] /\ thread'[j].pc = "over"
        /\ \A i \in Jobs \ {j} : thread'[i] = thread[i]
    BY <1>2, <1>4, GoSet
  <2>2. /\ patch' \in [Jobs -> [Writers -> Patch]]
        /\ patch'[j]["thread"].status = "cancelled" /\ patch'[j]["thread"].copy.status = "none"
        /\ \A i \in Jobs, v \in Writers : i # j \/ v # "thread" => patch'[i][v] = patch[i][v]
    BY <1>2, <1>4, UpdateSet DEF Final
  <2>3. Says(j, patch[j]["thread"].status)'
    BY <1>3, <2>1, <2>2 DEF Says, Ended
  <2> QED
    BY <1>1, <1>3, <2>1, <2>2, <2>3, ThreadKeeps
<1>5. CASE Go(j, "next") /\ UNCHANGED patch
  <2>1. /\ thread' \in [Jobs -> Work] /\ thread'[j].pc = "next"
        /\ \A i \in Jobs \ {j} : thread'[i] = thread[i]
    BY <1>2, <1>5, GoSet
  <2> QED
    BY <1>1, <1>2, <1>3, <1>5, <2>1, ThreadKeeps
<1> QED
  BY <1>1, <1>4, <1>5

LEMMA NextChunkKeeps ==
  ASSUME IInv, NEW j \in Jobs, NextChunk(j)
  PROVE  IInv'
<1>1. /\ thread[j].pc = "next" /\ UNCHANGED <<saved, kept>>
      /\ \/ thread[j].chunk < Chunks /\ Go(j, "check") /\ UNCHANGED patch
         \/ Go(j, "save") /\ Update(j, "thread", "same")
         \/ Go(j, "over") /\ Update(j, "thread", "error")
  BY DEF NextChunk, At
<1>2. Types /\ "thread" \in Writers /\ patch \in [Jobs -> [Writers -> Patch]]
  BY DEF IInv, Types, Writers
<1>3. ~saved[j] /\ saved \in [Jobs -> BOOLEAN] /\ UNCHANGED <<saved, kept>>
  BY <1>1, NotSavedYet
<1>4. CASE thread[j].chunk < Chunks /\ Go(j, "check") /\ UNCHANGED patch
  <2>1. /\ thread' \in [Jobs -> Work] /\ thread'[j].pc = "check"
        /\ thread'[j].chunk = thread[j].chunk
        /\ \A i \in Jobs \ {j} : thread'[i] = thread[i]
    BY <1>2, <1>4, GoSet
  <2> QED
    BY <1>1, <1>2, <1>3, <1>4, <2>1, ThreadKeeps
<1>5. CASE Go(j, "save") /\ Update(j, "thread", "same")
  <2>1. /\ thread' \in [Jobs -> Work] /\ thread'[j].pc = "save"
        /\ \A i \in Jobs \ {j} : thread'[i] = thread[i]
    BY <1>2, <1>5, GoSet
  <2>2. /\ patch' \in [Jobs -> [Writers -> Patch]]
        /\ patch'[j]["thread"].status = "same" /\ patch'[j]["thread"].copy.status = "none"
        /\ \A i \in Jobs, v \in Writers : i # j \/ v # "thread" => patch'[i][v] = patch[i][v]
    BY <1>2, <1>5, UpdateSet
  <2>3. Says(j, patch[j]["thread"].status)'
    BY <2>2 DEF Says
  <2> QED
    BY <1>1, <1>3, <2>1, <2>2, <2>3, ThreadKeeps
<1>6. CASE Go(j, "over") /\ Update(j, "thread", "error")
  <2>1. /\ thread' \in [Jobs -> Work] /\ thread'[j].pc = "over"
        /\ \A i \in Jobs \ {j} : thread'[i] = thread[i]
    BY <1>2, <1>6, GoSet
  <2>2. /\ patch' \in [Jobs -> [Writers -> Patch]]
        /\ patch'[j]["thread"].status = "error" /\ patch'[j]["thread"].copy.status = "none"
        /\ \A i \in Jobs, v \in Writers : i # j \/ v # "thread" => patch'[i][v] = patch[i][v]
    BY <1>2, <1>6, UpdateSet DEF Final
  <2>3. Says(j, patch[j]["thread"].status)'
    BY <1>3, <2>1, <2>2 DEF Says, Ended
  <2> QED
    BY <1>1, <1>3, <2>1, <2>2, <2>3, ThreadKeeps
<1> QED
  BY <1>1, <1>4, <1>5, <1>6

\* The questions of all chunks are saved at once, with the thread's last update; a thread
\* that is caught may have saved them too.
LEMMA SaveKeeps ==
  ASSUME IInv, NEW j \in Jobs, Save(j)
  PROVE  IInv'
<1>1. /\ thread[j].pc = "save" /\ UNCHANGED kept
      /\ \/ /\ saved' = [saved EXCEPT ![j] = TRUE]
            /\ Update(j, "thread", "done") /\ Go(j, "over")
         \/ /\ \E stored \in BOOLEAN : saved' = [saved EXCEPT ![j] = stored]
            /\ Update(j, "thread", "error") /\ Go(j, "caught")
  BY DEF Save, At
<1>2. Types /\ "thread" \in Writers /\ saved \in [Jobs -> BOOLEAN]
  BY DEF IInv, TypeOK, Writers
<1>3. CASE /\ saved' = [saved EXCEPT ![j] = TRUE]
           /\ Update(j, "thread", "done") /\ Go(j, "over")
  <2>1. /\ thread' \in [Jobs -> Work] /\ thread'[j].pc = "over"
        /\ \A i \in Jobs \ {j} : thread'[i] = thread[i]
    BY <1>2, <1>3, GoSet
  <2>2. /\ patch' \in [Jobs -> [Writers -> Patch]]
        /\ patch'[j]["thread"].status = "done" /\ patch'[j]["thread"].copy.status = "none"
        /\ \A i \in Jobs, v \in Writers : i # j \/ v # "thread" => patch'[i][v] = patch[i][v]
    BY <1>2, <1>3, UpdateSet DEF Final
  <2>3. /\ saved' \in [Jobs -> BOOLEAN] /\ saved'[j] /\ \A i \in Jobs \ {j} : saved'[i] = saved[i]
    BY <1>2, <1>3
  <2>4. Says(j, patch[j]["thread"].status)' /\ Ended(j)'
    BY <2>1, <2>2, <2>3 DEF Says, Ended
  <2> QED
    BY <1>1, <2>1, <2>2, <2>3, <2>4, ThreadKeeps
<1>4. CASE /\ \E stored \in BOOLEAN : saved' = [saved EXCEPT ![j] = stored]
           /\ Update(j, "thread", "error") /\ Go(j, "caught")
  <2>1. /\ thread' \in [Jobs -> Work] /\ thread'[j].pc = "caught"
        /\ \A i \in Jobs \ {j} : thread'[i] = thread[i]
    BY <1>2, <1>4, GoSet
  <2>2. /\ patch' \in [Jobs -> [Writers -> Patch]]
        /\ patch'[j]["thread"].status = "error" /\ patch'[j]["thread"].copy.status = "none"
        /\ \A i \in Jobs, v \in Writers : i # j \/ v # "thread" => patch'[i][v] = patch[i][v]
    BY <1>2, <1>4, UpdateSet DEF Final
  <2>3. saved' \in [Jobs -> BOOLEAN] /\ \A i \in Jobs \ {j} : saved'[i] = saved[i]
    BY <1>2, <1>4
  <2>4. Says(j, patch[j]["thread"].status)' /\ Ended(j)'
    BY <2>1, <2>2 DEF Says, Ended
  <2> QED
    BY <1>1, <2>1, <2>2, <2>3, <2>4, ThreadKeeps
<1> QED
  BY <1>1, <1>3, <1>4

\* An exception in a thread that is not caught yet.
LEMMA CaughtKeeps ==
  ASSUME IInv, NEW j \in Jobs, thread[j].pc # "caught",
         Go(j, "caught"), Update(j, "thread", "error"),
         job' \in [Jobs -> Record],
         \A i \in Jobs : job'[i].status = job[i].status \/ Says(i, job'[i].status),
         UNCHANGED <<saved, importing, jobId, interval, key, cancelling, asked, told>>
  PROVE  IInv'
<1>1. Types /\ "thread" \in Writers /\ saved' \in [Jobs -> BOOLEAN]
  BY DEF IInv, TypeOK, Writers
<1>2. /\ thread' \in [Jobs -> Work] /\ thread'[j].pc = "caught"
      /\ \A i \in Jobs \ {j} : thread'[i] = thread[i]
  BY <1>1, GoSet
<1>3. /\ patch' \in [Jobs -> [Writers -> Patch]]
      /\ patch'[j]["thread"].status = "error" /\ patch'[j]["thread"].copy.status = "none"
      /\ \A i \in Jobs, v \in Writers : i # j \/ v # "thread" => patch'[i][v] = patch[i][v]
  BY <1>1, UpdateSet DEF Final
<1>4. Says(j, patch[j]["thread"].status)' /\ Ended(j)'
  BY <1>2, <1>3 DEF Says, Ended
<1> QED
  BY <1>1, <1>2, <1>3, <1>4, StepKeeps

LEMMA UpdateFailsKeeps ==
  ASSUME IInv, NEW j \in Jobs, NEW w \in Writers, UpdateFails(j, w)
  PROVE  IInv'
<1>1. Types /\ job \in [Jobs -> Record]
  BY DEF IInv, TypeOK, Record
<1>2. /\ Throw(j, w)
      /\ \/ job' = job
         \/ /\ patch[j][w].stage = "write"
            /\ job' = [job EXCEPT ![j] = Patched(patch[j][w].copy, patch[j][w].status)]
      /\ UNCHANGED <<saved, importing, jobId, interval, key, cancelling, asked, told>>
  BY DEF UpdateFails, sheet
<1>3. /\ job' \in [Jobs -> Record]
      /\ \A i \in Jobs : job'[i].status = job[i].status \/ Says(i, job'[i].status)
  BY <1>1, <1>2, WriteSet
<1>4. CASE w = "thread" /\ thread[j].pc # "caught"
  BY <1>2, <1>3, <1>4, CaughtKeeps DEF Throw
<1>5. CASE ~(w = "thread" /\ thread[j].pc # "caught")
  <2>1. patch' = [patch EXCEPT ![j][w] = Idle] /\ UNCHANGED thread
    BY <1>2, <1>5 DEF Throw
  <2>2. /\ patch' \in [Jobs -> [Writers -> Patch]] /\ patch'[j][w] = Idle
        /\ \A i \in Jobs, v \in Writers : i # j \/ v # w => patch'[i][v] = patch[i][v]
    BY <1>1, <2>1, IdleIs DEF Types
  <2> QED
    BY <1>2, <1>3, <2>1, <2>2, IdleKeeps
<1> QED
  BY <1>4, <1>5

LEMMA WorkFailsKeeps ==
  ASSUME IInv, NEW j \in Jobs, WorkFails(j)
  PROVE  IInv'
<1>1. /\ thread[j].pc \in {"check", "generate", "checkAgain"} /\ Throw(j, "thread")
      /\ UNCHANGED <<job, saved, importing, jobId, interval, key, cancelling, asked, told>>
  BY DEF WorkFails, At, sheet
<1>2. job' \in [Jobs -> Record]
  BY <1>1 DEF IInv, TypeOK, Record
<1> QED
  BY <1>1, <1>2, CaughtKeeps DEF Throw

LEMMA CrashKeeps ==
  ASSUME IInv, Crash
  PROVE  IInv'
<1>1. TypeOK /\ Types /\ Bounded /\ Honest
  BY DEF IInv
<1>2. /\ thread' = [j \in Jobs |-> IF thread[j].pc \in {"none", "caught"} THEN thread[j]
                                   ELSE [thread[j] EXCEPT !.pc = "over"]]
      /\ patch' = [j \in Jobs |-> [w \in Writers |-> Idle]]
      /\ UNCHANGED <<job, saved, importing, jobId, interval, key, cancelling, asked, told>>
  BY DEF Crash, sheet, Writers
<1>3. ASSUME NEW j \in Jobs
      PROVE  /\ thread'[j] \in Work /\ thread'[j].chunk = thread[j].chunk
             /\ thread'[j].pc = (IF thread[j].pc \in {"none", "caught"} THEN thread[j].pc
                                 ELSE "over")
  <2>1. thread[j] \in Work
    BY <1>1 DEF Types
  <2>2. /\ [thread[j] EXCEPT !.pc = "over"] \in Work
        /\ [thread[j] EXCEPT !.pc = "over"].pc = "over"
        /\ [thread[j] EXCEPT !.pc = "over"].chunk = thread[j].chunk
    BY <2>1 DEF Work
  <2> QED
    BY <1>2, <2>1, <2>2
<1>4. thread' \in [Jobs -> Work]
  BY <1>2, <1>3
<1>5. patch' \in [Jobs -> [Writers -> Patch]] /\ \A j \in Jobs, w \in Writers : patch'[j][w] = Idle
  BY <1>2, IdleIs
<1>6. TypeOK' /\ Types' /\ Bounded'
  BY <1>1, <1>2, <1>3, <1>4, <1>5 DEF TypeOK, Types, Bounded
<1>7. Honest'
  <2>1. Onward
    BY <1>1, <1>2, <1>3 DEF Honest, Onward, Ended
  <2>2. \A j \in Jobs, w \in Writers : Says(j, patch[j][w].status)' /\ Says(j, patch[j][w].copy.status)'
    BY <1>5, AbsentIs, IdleIs DEF Says
  <2> QED
    BY <1>1, <1>2, <2>1, <2>2, HonestKept DEF Bounded
<1> QED
  BY <1>6, <1>7 DEF IInv

-----------------------------------------------------------------------------
(* The requests of the page. *)

\* A request is answered, or lost.
LEMMA ReplySet ==
  ASSUME Types, NEW r \in asked, NEW s \in Replies, Reply(r, s)
  PROVE  /\ asked' \subseteq Request
         /\ \A q \in asked' : q \in asked \/ (q.kind = r.kind /\ q.job = r.job /\ q.reply = s)
<1> DEFINE e == [r EXCEPT !.reply = s]
<1>1. r \in Request
  BY DEF Types
<1>2. e \in Request /\ e.kind = r.kind /\ e.job = r.job /\ e.reply = s
  BY <1>1 DEF Request
<1>3. asked' = (asked \ {r}) \cup {e}
  BY DEF Reply
<1> HIDE DEF e
<1> QED
  BY <1>2, <1>3 DEF Types

\* What is asked of the server, and what it answers, disturbs no job.
LEMMA AskedKeeps ==
  ASSUME IInv, asked' \subseteq Request,
         \A q \in asked' : \/ q \in asked
                           \/ /\ q.kind # "start" => q.job \in Jobs
                              /\ q.kind \in {"poll", "peek"} => Says(q.job, q.reply),
         UNCHANGED <<job, thread, patch, saved, told>>,
         importing' \in BOOLEAN, cancelling' \in BOOLEAN,
         {jobId', interval', key'} \subseteq 0 .. MaxJobs
  PROVE  IInv'
<1>1. TypeOK /\ Types /\ Bounded /\ Honest
  BY DEF IInv
<1>2. TypeOK'
  BY <1>1 DEF TypeOK, Request, Kinds
<1>3. Types' /\ Bounded'
  BY <1>1 DEF Types, Bounded
<1>4. Honest'
  <2>1. \A q \in asked' : q \in asked \/ (q.kind \in {"poll", "peek"} => q.job \in Jobs /\ Says(q.job, q.reply)')
    BY DEF Says, Ended
  <2> QED
    BY <1>1, <2>1, OnwardSame, HonestKept DEF Bounded
<1> QED
  BY <1>2, <1>3, <1>4 DEF IInv

\* What the page holds has its types.
LEMMA SheetTypes ==
  ASSUME IInv
  PROVE  /\ importing \in BOOLEAN /\ cancelling \in BOOLEAN
         /\ jobId \in 0 .. MaxJobs /\ interval \in 0 .. MaxJobs /\ key \in 0 .. MaxJobs
         /\ 0 \in 0 .. MaxJobs
         /\ \A k \in 0 .. MaxJobs : k # 0 => k \in Jobs
BY ImportAssumption DEF IInv, TypeOK, Jobs

LEMMA ServeStartKeeps ==
  ASSUME IInv, NEW r \in asked, ServeStart(r)
  PROVE  IInv'
<1>1. TypeOK /\ Types /\ Bounded /\ Honest
  BY DEF IInv
<1>2. PICK j \in Jobs :
        /\ thread[j].pc = "none"
        /\ job' = [job EXCEPT ![j] = [status |-> "running", cancel_requested |-> FALSE]]
        /\ Go(j, IF Chunks = 0 THEN "next" ELSE "check")
        /\ asked' = (asked \ {r}) \cup {[r EXCEPT !.job = j, !.reply = "ok"]}
  BY DEF ServeStart, Go
<1>3. r.kind = "start" /\ UNCHANGED <<patch, saved, importing, jobId, interval, key, cancelling, told>>
  BY DEF ServeStart, sheet
<1> DEFINE new == [status |-> "running", cancel_requested |-> FALSE]
           ans == [r EXCEPT !.job = j, !.reply = "ok"]
<1>4. new \in Record /\ new.status = "running"
  BY DEF Record
<1>5. ans \in Request /\ ans.kind = "start"
  <2>1. r \in Request /\ j \in 0 .. MaxJobs
    BY <1>1, ImportAssumption DEF Types, Jobs
  <2> QED
    BY <1>3, <2>1 DEF Request, Replies
<1>6. job' = [job EXCEPT ![j] = new] /\ asked' = (asked \ {r}) \cup {ans}
  BY <1>2
<1> HIDE DEF new, ans
<1>7. /\ job' \in [Jobs -> Record] /\ job'[j].status = "running"
      /\ \A i \in Jobs \ {j} : job'[i] = job[i]
  BY <1>1, <1>4, <1>6 DEF TypeOK, Record
<1>8. /\ thread' \in [Jobs -> Work] /\ thread'[j].chunk = thread[j].chunk
      /\ thread'[j].pc = (IF Chunks = 0 THEN "next" ELSE "check")
      /\ \A i \in Jobs \ {j} : thread'[i] = thread[i]
  BY <1>1, <1>2, GoSet
<1>9. asked' \subseteq Request /\ \A q \in asked' : q \in asked \/ q.kind = "start"
  BY <1>1, <1>5, <1>6 DEF Types
<1>10. TypeOK'
  <2>1. \A i \in Jobs : thread'[i].chunk \in 0 .. Chunks
    BY <1>8 DEF Work
  <2>2. \A q \in asked' : q.kind \in {"start", "poll", "peek", "cancel"}
    BY <1>9 DEF Request, Kinds
  <2> QED
    BY <1>1, <1>3, <1>7, <2>1, <2>2 DEF TypeOK, Record
<1>11. Types'
  BY <1>1, <1>3, <1>8, <1>9 DEF Types
<1>12. Bounded'
  <2>1. thread[j].chunk = 0 /\ Chunks \in Nat
    BY <1>1, <1>2, ImportAssumption DEF Bounded
  <2>2. ASSUME NEW i \in Jobs
        PROVE  /\ thread'[i].pc \in {"check", "generate"} => thread'[i].chunk < Chunks
               /\ thread'[i].pc = "none" => thread'[i].chunk = 0
    <3>1. CASE i = j
      BY <1>8, <2>1, <3>1
    <3>2. CASE i # j
      BY <1>1, <1>8, <3>2 DEF Bounded
    <3> QED
      BY <3>1, <3>2
  <2> QED
    BY <1>1, <1>9, <2>2 DEF Bounded
<1>13. Honest'
  <2>1. Onward
    BY <1>1, <1>2, <1>3, <1>8 DEF Honest, Onward, Ended
  <2>2. \A i \in Jobs : job'[i].status = job[i].status \/ Says(i, job[i].status)'
    BY <1>7 DEF Says
  <2>3. \A q \in asked' : q \in asked \/ (q.kind \in {"poll", "peek"} => q.job \in Jobs /\ Says(q.job, q.reply)')
    BY <1>9
  <2> QED
    BY <1>1, <1>3, <2>1, <2>2, <2>3, HonestKept DEF Bounded
<1> QED
  BY <1>10, <1>11, <1>12, <1>13 DEF IInv

LEMMA ServeGetKeeps ==
  ASSUME IInv, NEW r \in asked, ServeGet(r)
  PROVE  IInv'
<1> DEFINE s == IF job[r.job] = Absent THEN "not ok" ELSE job[r.job].status
<1>1. TypeOK /\ Types /\ Bounded /\ Honest
  BY DEF IInv
<1>2. /\ r.kind \in {"poll", "peek"} /\ Reply(r, s)
      /\ UNCHANGED <<job, thread, patch, saved, importing, jobId, interval, key, cancelling, told>>
  BY DEF ServeGet, sheet
<1>3. r.job \in Jobs
  BY <1>1, <1>2 DEF Bounded
<1>4. job[r.job] \in Record /\ Says(r.job, job[r.job].status)
  BY <1>1, <1>3 DEF TypeOK, Record, Honest
<1>5. s \in Replies /\ Says(r.job, s)
  <2>1. job[r.job].status \in Replies /\ "not ok" \in Replies /\ Says(r.job, "not ok")
    BY <1>4 DEF Record, Replies, Says
  <2> QED
    BY <1>4, <2>1
<1> HIDE DEF s
<1>6. /\ asked' \subseteq Request
      /\ \A q \in asked' : q \in asked \/ (q.kind = r.kind /\ q.job = r.job /\ q.reply = s)
  BY <1>1, <1>2, <1>5, ReplySet
<1>7. \A q \in asked' : \/ q \in asked
                        \/ /\ q.kind # "start" => q.job \in Jobs
                           /\ q.kind \in {"poll", "peek"} => Says(q.job, q.reply)
  BY <1>3, <1>5, <1>6
<1> QED
  BY <1>2, <1>6, <1>7, SheetTypes, AskedKeeps

LEMMA ServeCancelKeeps ==
  ASSUME IInv, NEW r \in asked, ServeCancel(r)
  PROVE  IInv'
<1>1. TypeOK /\ Types /\ Bounded /\ Honest
  BY DEF IInv
<1>2. /\ r.kind = "cancel" /\ Reply(r, "ok")
      /\ Update(r.job, "request", "cancel") \/ UNCHANGED patch
      /\ UNCHANGED <<job, thread, saved, importing, jobId, interval, key, cancelling, told>>
  BY DEF ServeCancel, sheet
<1>3. r.job \in Jobs /\ "request" \in Writers
  BY <1>1, <1>2 DEF Bounded, Writers
<1>4. /\ asked' \subseteq Request
      /\ \A q \in asked' : q \in asked \/ (q.kind = "cancel" /\ q.job = r.job)
  BY <1>1, <1>2, ReplySet DEF Replies
<1>5. /\ patch' \in [Jobs -> [Writers -> Patch]]
      /\ \A i \in Jobs, v \in Writers :
           \/ patch'[i][v] = patch[i][v]
           \/ patch'[i][v].status = "cancel" /\ patch'[i][v].copy.status = "none"
  <2>1. CASE Update(r.job, "request", "cancel")
    <3>1. PICK j \in Jobs : j = r.job
      BY <1>3
    <3>2. /\ patch' \in [Jobs -> [Writers -> Patch]]
          /\ patch'[j]["request"].status = "cancel" /\ patch'[j]["request"].copy.status = "none"
          /\ \A i \in Jobs, v \in Writers : i # j \/ v # "request" => patch'[i][v] = patch[i][v]
      BY <1>1, <1>3, <2>1, <3>1, UpdateSet
    <3> QED
      BY <3>2
  <2>2. CASE UNCHANGED patch
    BY <1>1, <2>2 DEF Types
  <2> QED
    BY <1>2, <2>1, <2>2
<1>6. TypeOK' /\ Types' /\ Bounded'
  <2>1. \A q \in asked' : q.kind \in {"start", "poll", "peek", "cancel"}
    BY <1>4 DEF Request, Kinds
  <2>2. \A q \in asked' : q.kind # "start" => q.job \in Jobs
    BY <1>1, <1>3, <1>4 DEF Bounded
  <2> QED
    BY <1>1, <1>2, <1>4, <1>5, <2>1, <2>2 DEF TypeOK, Types, Bounded
<1>7. Honest'
  <2>1. ASSUME NEW i \in Jobs, NEW v \in Writers
        PROVE  /\ patch'[i][v].status = patch[i][v].status \/ Says(i, patch[i][v].status)'
               /\ patch'[i][v].copy.status = patch[i][v].copy.status \/ Says(i, patch[i][v].copy.status)'
    BY <1>5 DEF Says
  <2>2. \A q \in asked' : q \in asked \/ (q.kind \in {"poll", "peek"} => q.job \in Jobs /\ Says(q.job, q.reply)')
    BY <1>4
  <2> QED
    BY <1>1, <1>2, <2>1, <2>2, OnwardSame, HonestKept DEF Bounded
<1> QED
  BY <1>6, <1>7 DEF IInv

LEMMA LoseKeeps ==
  ASSUME IInv, NEW r \in asked, Lose(r)
  PROVE  IInv'
<1>1. Types /\ Bounded
  BY DEF IInv
<1>2. /\ Reply(r, "lost")
      /\ UNCHANGED <<job, thread, patch, saved, importing, jobId, interval, key, cancelling, told>>
  BY DEF Lose, sheet
<1>3. /\ asked' \subseteq Request
      /\ \A q \in asked' : q \in asked \/ (q.kind = r.kind /\ q.job = r.job /\ q.reply = "lost")
  BY <1>1, <1>2, ReplySet DEF Replies
<1>4. \A q \in asked' : \/ q \in asked
                        \/ /\ q.kind # "start" => q.job \in Jobs
                           /\ q.kind \in {"poll", "peek"} => Says(q.job, q.reply)
  BY <1>1, <1>3 DEF Bounded, Says
<1> QED
  BY <1>2, <1>3, <1>4, SheetTypes, AskedKeeps

LEMMA ServeFailsKeeps ==
  ASSUME IInv, NEW r \in asked, ServeFails(r)
  PROVE  IInv'
<1>1. Types /\ Bounded
  BY DEF IInv
<1>2. /\ Reply(r, "not ok")
      /\ UNCHANGED <<job, thread, patch, saved, importing, jobId, interval, key, cancelling, told>>
  BY DEF ServeFails, sheet
<1>3. /\ asked' \subseteq Request
      /\ \A q \in asked' : q \in asked \/ (q.kind = r.kind /\ q.job = r.job /\ q.reply = "not ok")
  BY <1>1, <1>2, ReplySet DEF Replies
<1>4. \A q \in asked' : \/ q \in asked
                        \/ /\ q.kind # "start" => q.job \in Jobs
                           /\ q.kind \in {"poll", "peek"} => Says(q.job, q.reply)
  BY <1>1, <1>3 DEF Bounded, Says
<1> QED
  BY <1>2, <1>3, <1>4, SheetTypes, AskedKeeps

-----------------------------------------------------------------------------
(* The sheet. *)

\* A request that has no answer yet says nothing.
LEMMA AskSet ==
  ASSUME Types, NEW kind \in Kinds, NEW j \in 0 .. MaxJobs, kind # "start" => j \in Jobs,
         Ask(kind, j)
  PROVE  /\ asked' \subseteq Request
         /\ \A q \in asked' : \/ q \in asked
                              \/ /\ q.kind # "start" => q.job \in Jobs
                                 /\ q.kind \in {"poll", "peek"} => Says(q.job, q.reply)
<1> DEFINE e == [kind |-> kind, job |-> j, reply |-> ""]
<1>1. e \in Request /\ e.kind = kind /\ e.job = j /\ e.reply = ""
  BY DEF Request, Replies
<1>2. asked' = asked \cup {e}
  BY DEF Ask
<1> HIDE DEF e
<1> QED
  BY <1>1, <1>2 DEF Types, Says

\* Requests that are dropped, and steps of the page alone.
LEMMA FewerAsked ==
  ASSUME Types, asked' \subseteq asked
  PROVE  /\ asked' \subseteq Request
         /\ \A q \in asked' : \/ q \in asked
                              \/ /\ q.kind # "start" => q.job \in Jobs
                                 /\ q.kind \in {"poll", "peek"} => Says(q.job, q.reply)
BY DEF Types

LEMMA StartImportKeeps ==
  ASSUME IInv, StartImport
  PROVE  IInv'
<1>1. /\ importing' = TRUE /\ Ask("start", 0) /\ Types
      /\ UNCHANGED <<job, thread, patch, saved, jobId, interval, key, cancelling, told>>
  BY DEF StartImport, IInv
<1>2. /\ asked' \subseteq Request
      /\ \A q \in asked' : \/ q \in asked
                           \/ /\ q.kind # "start" => q.job \in Jobs
                              /\ q.kind \in {"poll", "peek"} => Says(q.job, q.reply)
  BY <1>1, SheetTypes, AskSet DEF Kinds
<1> QED
  BY <1>1, <1>2, SheetTypes, AskedKeeps

LEMMA StartedKeeps ==
  ASSUME IInv, NEW r \in asked, Started(r)
  PROVE  IInv'
<1>1. /\ asked' \subseteq asked /\ Types /\ r \in Request
      /\ \/ jobId' = r.job /\ key' = r.job /\ interval' = r.job /\ UNCHANGED importing
         \/ interval' = 0 /\ importing' = FALSE /\ UNCHANGED <<jobId, key>>
      /\ UNCHANGED <<job, thread, patch, saved, cancelling, told>>
  BY DEF Started, IInv, Types
<1>2. r.job \in 0 .. MaxJobs
  BY <1>1 DEF Request
<1>3. importing' \in BOOLEAN /\ {jobId', interval', key'} \subseteq 0 .. MaxJobs
  BY <1>1, <1>2, SheetTypes
<1> QED
  BY <1>1, <1>3, SheetTypes, FewerAsked, AskedKeeps

LEMMA TickKeeps ==
  ASSUME IInv, Tick
  PROVE  IInv'
<1>1. /\ interval # 0 /\ Ask("poll", interval) /\ Types
      /\ UNCHANGED <<job, thread, patch, saved, importing, jobId, interval, key, cancelling, told>>
  BY DEF Tick, IInv, sheet
<1>2. PICK j \in Jobs : j = interval
  BY <1>1, SheetTypes
<1>3. /\ asked' \subseteq Request
      /\ \A q \in asked' : \/ q \in asked
                           \/ /\ q.kind # "start" => q.job \in Jobs
                              /\ q.kind \in {"poll", "peek"} => Says(q.job, q.reply)
  <2>1. Ask("poll", j) /\ j \in 0 .. MaxJobs
    BY <1>1, <1>2, SheetTypes
  <2> QED
    BY <1>1, <2>1, AskSet DEF Kinds
<1> QED
  BY <1>1, <1>3, SheetTypes, AskedKeeps

\* The page tells what an answer says.
LEMMA PolledKeeps ==
  ASSUME IInv, NEW r \in asked, Polled(r)
  PROVE  IInv'
<1>1. TypeOK /\ Types /\ Bounded /\ Honest
  BY DEF IInv
<1>2. /\ r.kind = "poll" /\ asked' = asked \ {r}
      /\ UNCHANGED <<job, thread, patch, saved>>
      /\ \/ /\ interval' = 0 /\ key' = 0 /\ jobId' \in {0, jobId}
            /\ importing' = FALSE /\ cancelling' = FALSE
            /\ told' = [told EXCEPT ![r.job] = told[r.job] \cup {r.reply}]
         \/ UNCHANGED <<importing, jobId, interval, key, cancelling, told>>
  BY <1>1 DEF Polled, sheet, Types, Bounded
<1>3. r \in Request /\ r.job \in Jobs /\ Says(r.job, r.reply)
  BY <1>1, <1>2 DEF Types, Bounded, Honest
<1>4. /\ importing' \in BOOLEAN /\ cancelling' \in BOOLEAN
      /\ {jobId', interval', key'} \subseteq 0 .. MaxJobs
  BY <1>2, SheetTypes
<1>5. /\ told' \in [Jobs -> SUBSET Replies]
      /\ \A j \in Jobs : \A s \in told'[j] : s \in told[j] \/ Says(j, s)
  <2>1. PICK k \in Jobs : k = r.job
    BY <1>3
  <2>2. PICK s \in Replies : s = r.reply
    BY <1>3 DEF Request
  <2>3. Says(k, s)
    BY <1>3, <2>1, <2>2
  <2>4. told' = [told EXCEPT ![k] = told[k] \cup {s}] \/ told' = told
    BY <1>2, <2>1, <2>2
  <2> QED
    BY <1>1, <2>3, <2>4 DEF Types
<1>6. TypeOK' /\ Types' /\ Bounded'
  BY <1>1, <1>2, <1>4, <1>5 DEF TypeOK, Types, Bounded
<1>7. Honest'
  <2>1. \A j \in Jobs : \A s \in told'[j] : s \in told[j] \/ Says(j, s)'
    BY <1>2, <1>5 DEF Says, Ended
  <2>2. \A q \in asked' : q \in asked
    BY <1>2
  <2> QED
    BY <1>1, <1>2, <2>1, <2>2, OnwardSame, HonestKept DEF Bounded
<1> QED
  BY <1>6, <1>7 DEF IInv

LEMMA StopKeeps ==
  ASSUME IInv, Stop
  PROVE  IInv'
<1>1. /\ jobId # 0 /\ cancelling' = TRUE /\ Ask("cancel", jobId) /\ Types
      /\ UNCHANGED <<job, thread, patch, saved, importing, jobId, interval, key, told>>
  BY DEF Stop, IInv
<1>2. PICK j \in Jobs : j = jobId
  BY <1>1, SheetTypes
<1>3. /\ asked' \subseteq Request
      /\ \A q \in asked' : \/ q \in asked
                           \/ /\ q.kind # "start" => q.job \in Jobs
                              /\ q.kind \in {"poll", "peek"} => Says(q.job, q.reply)
  <2>1. Ask("cancel", j) /\ j \in 0 .. MaxJobs
    BY <1>1, <1>2, SheetTypes
  <2> QED
    BY <1>1, <2>1, AskSet DEF Kinds
<1> QED
  BY <1>1, <1>3, SheetTypes, AskedKeeps

LEMMA StoppedKeeps ==
  ASSUME IInv, NEW r \in asked, Stopped(r)
  PROVE  IInv'
<1>1. /\ asked' \subseteq asked /\ Types
      /\ UNCHANGED <<job, thread, patch, saved, importing, jobId, interval, key, told>>
  BY DEF Stopped, IInv
<1>2. cancelling' \in BOOLEAN
  BY DEF Stopped
<1> QED
  BY <1>1, <1>2, SheetTypes, FewerAsked, AskedKeeps

LEMMA CloseSheetKeeps ==
  ASSUME IInv, CloseSheet
  PROVE  IInv'
<1>1. /\ jobId' = 0 /\ interval' = 0 /\ cancelling' = FALSE /\ Types /\ asked' \subseteq asked
      /\ UNCHANGED <<job, thread, patch, saved, importing, key, told>>
  BY DEF CloseSheet, IInv
<1> QED
  BY <1>1, SheetTypes, FewerAsked, AskedKeeps

LEMMA ReloadKeeps ==
  ASSUME IInv, Reload
  PROVE  IInv'
<1> DEFINE e == [kind |-> "peek", job |-> key, reply |-> ""]
<1>1. /\ Types /\ UNCHANGED <<job, thread, patch, saved, key, told>>
      /\ asked' \subseteq asked \cup (IF key = 0 THEN {} ELSE {e})
      /\ \/ importing' = FALSE /\ jobId' = 0 /\ interval' = 0 /\ cancelling' = FALSE
         \/ UNCHANGED <<importing, jobId, interval, cancelling>>
  BY DEF Reload, Peek, IInv
<1>2. key # 0 => e \in Request /\ e.job \in Jobs /\ e.reply = ""
  BY SheetTypes DEF Request, Replies, Kinds
<1> HIDE DEF e
<1>3. /\ asked' \subseteq Request
      /\ \A q \in asked' : \/ q \in asked
                           \/ /\ q.kind # "start" => q.job \in Jobs
                              /\ q.kind \in {"poll", "peek"} => Says(q.job, q.reply)
  BY <1>1, <1>2 DEF Types, Says
<1>4. /\ importing' \in BOOLEAN /\ cancelling' \in BOOLEAN
      /\ {jobId', interval', key'} \subseteq 0 .. MaxJobs
  BY <1>1, SheetTypes
<1> QED
  BY <1>1, <1>3, <1>4, AskedKeeps

LEMMA PeekedKeeps ==
  ASSUME IInv, NEW r \in asked, Peeked(r)
  PROVE  IInv'
<1>1. /\ asked' \subseteq asked /\ Types /\ r \in Request
      /\ \/ jobId' = r.job /\ importing' = TRUE /\ interval' = r.job /\ UNCHANGED key
         \/ key' = 0 /\ UNCHANGED <<jobId, importing, interval>>
      /\ UNCHANGED <<job, thread, patch, saved, cancelling, told>>
  BY DEF Peeked, IInv, Types
<1>2. r.job \in 0 .. MaxJobs
  BY <1>1 DEF Request
<1>3. importing' \in BOOLEAN /\ {jobId', interval', key'} \subseteq 0 .. MaxJobs
  BY <1>1, <1>2, SheetTypes
<1> QED
  BY <1>1, <1>3, SheetTypes, FewerAsked, AskedKeeps

-----------------------------------------------------------------------------
(* The theorems. *)

LEMMA InitIInv == Init => IInv
<1> SUFFICES ASSUME Init PROVE IInv
  OBVIOUS
<1>1. /\ \A j \in Jobs : job[j] = Absent
      /\ \A j \in Jobs : thread[j] = [pc |-> "none", chunk |-> 0, some |-> FALSE]
      /\ \A j \in Jobs, w \in Writers : patch[j][w] = Idle
      /\ \A j \in Jobs : ~saved[j] /\ told[j] = {}
      /\ asked = {}
  BY DEF Init, Writers
<1>2. /\ job \in [Jobs -> Record] /\ saved \in [Jobs -> BOOLEAN]
      /\ told \in [Jobs -> SUBSET Replies]
  BY AbsentIs DEF Init
<1>3. thread \in [Jobs -> Work]
  <2>1. 0 \in 0 .. Chunks /\ FALSE \in BOOLEAN
    BY ImportAssumption
  <2>2. [pc |-> "none", chunk |-> 0, some |-> FALSE] \in Work
    BY <2>1 DEF Work
  <2> QED
    BY <2>2 DEF Init
<1>4. patch \in [Jobs -> [Writers -> Patch]]
  BY IdleIs DEF Init, Writers
<1>5. TypeOK
  <2>1. \A j \in Jobs : thread[j].chunk \in 0 .. Chunks
    BY <1>3 DEF Work
  <2>2. {importing, cancelling} \subseteq BOOLEAN /\ {jobId, interval, key} \subseteq 0 .. MaxJobs
    <3>1. 0 \in 0 .. MaxJobs
      BY ImportAssumption
    <3>2. importing = FALSE /\ cancelling = FALSE /\ jobId = 0 /\ interval = 0 /\ key = 0
      BY DEF Init
    <3> QED
      BY <3>1, <3>2
  <2> QED
    BY <1>1, <1>2, <2>1, <2>2 DEF TypeOK, Record
<1>6. Types
  BY <1>1, <1>2, <1>3, <1>4 DEF Types
<1>7. Bounded
  BY <1>1 DEF Bounded
<1>8. Honest
  BY <1>1, AbsentIs, IdleIs DEF Honest, Says
<1> QED
  BY <1>5, <1>6, <1>7, <1>8 DEF IInv

LEMMA StutterKeeps ==
  ASSUME IInv, UNCHANGED importVars
  PROVE  IInv'
BY DEF importVars, sheet, IInv, TypeOK, Types, Bounded, Honest, Says, Ended

LEMMA NextKeeps == IInv /\ [Next]_importVars => IInv'
<1> SUFFICES ASSUME IInv, [Next]_importVars PROVE IInv'
  OBVIOUS
<1>1. ASSUME NEW j \in Jobs, Thread(j) PROVE IInv'
  <2>1. ASSUME NEW w \in Writers, ReadJob(j, w) \/ WriteJob(j, w) PROVE IInv'
    BY <2>1, ReadJobKeeps, WriteJobKeeps
  <2> QED
    BY <1>1, <2>1, CheckKeeps, GenerateKeeps, CheckAgainKeeps, NextChunkKeeps, SaveKeeps, ExpireKeeps
       DEF Thread, Writers
<1>2. ASSUME NEW r \in asked, Served(r) PROVE IInv'
  BY <1>2, ServeStartKeeps, ServeGetKeeps, ServeCancelKeeps DEF Served
<1>3. ASSUME NEW r \in asked, Handled(r) PROVE IInv'
  BY <1>3, StartedKeeps, PolledKeeps, StoppedKeeps, PeekedKeeps DEF Handled
<1>4. CASE System
  BY <1>1, <1>2, <1>3, <1>4, TickKeeps DEF System
<1>5. ASSUME NEW r \in asked, Lose(r) \/ ServeFails(r) PROVE IInv'
  BY <1>5, LoseKeeps, ServeFailsKeeps
<1>6. ASSUME NEW j \in Jobs, WorkFails(j) \/ \E w \in {"thread", "request"} : UpdateFails(j, w)
      PROVE  IInv'
  BY <1>6, WorkFailsKeeps, UpdateFailsKeeps DEF Writers
<1>7. CASE UNCHANGED importVars
  BY <1>7, StutterKeeps
<1> QED
  BY <1>4, <1>5, <1>6, <1>7, CrashKeeps, StartImportKeeps, StopKeeps, CloseSheetKeeps, ReloadKeeps DEF Next

\* In every behaviour of the sheet, the server and the threads the inductive invariant
\* holds: whatever status the record, an update, an answer or the page holds of a job
\* agrees with what the job has saved, but for the error of an exception after the commit.
THEOREM ImportsAlwaysHonest == Spec => []IInv
<1>1. Init => IInv
  BY InitIInv
<1>2. IInv /\ [Next]_importVars => IInv'
  BY NextKeeps
<1> QED
  BY <1>1, <1>2, PTL DEF Spec

\* The variables always have their types.
THEOREM TypeCorrect == Spec => []TypeOK
<1>1. IInv => TypeOK
  BY DEF IInv
<1> QED
  BY <1>1, ImportsAlwaysHonest, PTL

\* What startPolling reports of a job is so, although _update_job writes back a record that
\* it has read before, commands of Redis fail and answers arrive late: only a job that ended
\* in the except clause is ever reported as failed when its questions are in the bank.
THEOREM ReportsAreAlwaysTrue == Spec => []ReportsAreTrue
<1>1. IInv => ReportsAreTrue
  BY DEF IInv, Honest, Says, ReportsAreTrue
<1> QED
  BY <1>1, ImportsAlwaysHonest, PTL

-----------------------------------------------------------------------------
(* The builder that puts the questions of the bank in a test, for any number of          *)
(* questions, versions, edits, gestures, renewals of the token and failures: the versions *)
(* that its requests make, and what the page shows of them.                               *)

CONSTANTS Pool, MaxVersions, KeepPublished, MaxEdits, MaxOps, MaxRenewals, MaxFailures
VARIABLES versions, inUse, current, composition, history, saving, loading, waiting, aside,
          spent, clicked, unsaved, mixed

\* The builder of the tests that the questions of the bank are put in.
Builder == INSTANCE TestBuilder

\* The questions of a test, each once.
Compositions == {s \in Seq(Pool) : \A i, j \in DOMAIN s : s[i] = s[j] => i = j}

\* A version; nothing is said of the time of its publication.
VersionRow(x) ==
  x \in [status : {"none", "draft", "published", "archived", "gone"}, number : Nat,
         published_at : {x.published_at}, questions : Compositions]

\* What a handler and a load remember between their requests.
HandlerRecord ==
  [stage : {"idle", "save", "publish", "draft"}, publish : BOOLEAN, version : Nat,
   questions : Compositions, reply : {"none", "ok", "error"}, result : Nat]
LoadRecord ==
  [stage : {"test", "draft"}, reply : {"none", "ok", "error"}, result : Nat,
   questions : Compositions, mixed : BOOLEAN]

\* The versions of the test.
VersionTypes ==
  /\ versions = [v \in Builder!Ids |-> versions[v]]
  /\ \A v \in Builder!Ids : VersionRow(versions[v])

\* The domains of the variables of the page.
BuilderTypes ==
  /\ inUse \subseteq Builder!Ids
  /\ current \in 0 .. MaxVersions
  /\ composition \in Compositions
  /\ saving \in HandlerRecord
  /\ loading \subseteq LoadRecord
  /\ aside \in [action : {"none", "archive", "restore", "delete"}, version : Nat,
               reply : {"none", "answered"}]
  /\ aside.action = "none" => aside = Builder!NoAside
  /\ clicked \in [Builder!Ids -> Compositions]
  /\ {waiting, unsaved, mixed} \subseteq BOOLEAN
  /\ spent \in [edits : Nat, ops : Nat, renewals : Nat, failures : Nat]

\* Versions are numbered as they are made, a draft is the only one, and the last.
Ordered ==
  /\ \A v, w \in Builder!Ids : versions[v].status = "none" /\ v < w => versions[w].status = "none"
  /\ \A v \in Builder!Ids : versions[v].number <= v
  /\ \A d, w \in Builder!Ids :
       /\ versions[d].status = "draft" /\ versions[w].status \notin {"none", "gone"}
       /\ d # w
       => versions[w].status # "draft" /\ versions[w].number < versions[d].number

\* The page, its requests and its history know versions that were made.
Made(v) == v \in Builder!Ids /\ versions[v].status # "none"
Known ==
  /\ current # 0 => Made(current)
  /\ saving.stage # "idle" => Made(saving.version)
  /\ saving.reply = "ok" => Made(saving.result)
  /\ \A l \in loading : l.reply = "ok" => Made(l.result)
  /\ \A row \in history : Made(row.id)
  /\ aside.action # "none" => Made(aside.version)

\* What a publication publishes has been saved before.
Published ==
  /\ \A v \in Builder!Ids :
       versions[v].status \in {"published", "archived"} /\ clicked[v] # <<>> =>
         versions[v].questions = clicked[v]
  /\ saving.stage = "publish" \/ (saving.stage = "save" /\ saving.reply = "ok") =>
       \/ versions[saving.version].status = "gone"
       \/ versions[saving.version].questions = saving.questions

\* The version has this status and these questions.
Is(v, status, questions) ==
  v \in Builder!Ids /\ versions[v].status = status /\ versions[v].questions = questions

\* The page works on the draft, or its handler takes it to the next one.
Working ==
  /\ saving.reply # "error"
  /\ saving.stage = "idle" => /\ versions[current].status = "draft"
                              /\ ~unsaved => versions[current].questions = composition
  /\ saving.stage # "idle" => /\ current = saving.version
                              /\ ~unsaved => composition = saving.questions
  /\ saving.stage \in {"save", "publish"} /\ saving.reply = "none" =>
       versions[current].status = "draft"
  /\ saving.stage = "save" /\ saving.reply = "ok" =>
       saving.result = current /\ Is(current, "draft", saving.questions)
  /\ (saving.stage = "publish" /\ saving.reply = "ok")
     \/ (saving.stage = "draft" /\ saving.reply = "none") =>
       \/ \E d \in Builder!Ids : Is(d, "draft", saving.questions)
       \/ /\ versions[current].status \in {"published", "archived"}
          /\ versions[current].questions = saving.questions
          /\ \A w \in Builder!Ids : w # current /\ versions[w].status \notin {"none", "gone"} =>
               versions[w].status # "draft" /\ versions[w].number < versions[current].number
  /\ saving.stage = "draft" /\ saving.reply = "ok" => Is(saving.result, "draft", saving.questions)

\* A load that met no save and no deletion brings the draft as it is.
Loading ==
  \A l \in loading : ~l.mixed =>
    /\ saving.stage = "idle" /\ aside.action # "delete"
    /\ l.reply = "ok" => Is(l.result, "draft", l.questions)

\* What the page shows, as long as nothing was mixed up or failed.
Undisturbed ==
  /\ Loading
  /\ ~mixed => aside.action # "delete"
  /\ spent.failures = 0 => \A l \in loading : l.reply # "error"
  /\ spent.failures = 0 /\ ~mixed /\ current # 0 => Working
  /\ current = 0 => saving.stage = "idle"
  /\ saving.stage = "idle" => saving = Builder!NoHandler

\* The inductive invariant.
BuilderInv ==
  /\ VersionTypes /\ BuilderTypes /\ Ordered /\ Known /\ Builder!DeliveredStays /\ Published /\ Undisturbed

\* A set of numbers has a least.
LEMMA LeastElement ==
  ASSUME NEW S \in SUBSET Nat, S # {}
  PROVE  \E n \in S : \A m \in S : n <= m
<1>1. PICK n \in S : \A m \in S : ~(<<m, n>> \in OpToRel(<, Nat))
  BY NatLessThanWellFounded, WFMin
<1>2. \A m \in S : ~(m < n)
  BY <1>1 DEF OpToRel
<1> QED
  BY <1>2

\* No questions, or one, are a composition.
LEMMA ShortCompositions ==
  <<>> \in Compositions /\ \A q \in Pool : <<q>> \in Compositions
  BY DEF Compositions

\* The bounds are numbers; what a version and a handler are at first.
LEMMA BuilderBounds ==
  ASSUME Builder!BuilderAssumption
  PROVE  /\ MaxVersions \in Nat /\ Builder!Ids = 1 .. MaxVersions
         /\ VersionRow(Builder!NoVersion) /\ Builder!NoVersion.status = "none"
         /\ VersionRow(Builder!Deleted) /\ Builder!Deleted.status = "gone"
         /\ Builder!NoVersion.number = 0 /\ Builder!Deleted.number = 0
         /\ Builder!NoHandler \in HandlerRecord
  BY ShortCompositions DEF Builder!BuilderAssumption, Builder!Ids, Builder!NoVersion,
     Builder!Deleted, Builder!NoHandler, VersionRow, HandlerRecord

\* The latest version is the one with the greatest number.
LEMMA LatestIs ==
  ASSUME Builder!BuilderAssumption, VersionTypes, Ordered
  PROVE  IF Builder!Existing = {} THEN Builder!Latest = 0
         ELSE /\ Builder!Latest \in Builder!Existing
              /\ \A w \in Builder!Existing :
                   versions[w].number <= versions[Builder!Latest].number
<1>1. CASE Builder!Existing = {}
  BY <1>1 DEF Builder!Latest
<1>2. CASE Builder!Existing # {}
  <2> DEFINE S == {MaxVersions - versions[w].number : w \in Builder!Existing}
  <2>1. \A w \in Builder!Existing : versions[w].number \in 0 .. MaxVersions
    BY BuilderBounds DEF Builder!Existing, VersionTypes, VersionRow, Ordered
  <2>2. S \in SUBSET Nat /\ S # {}
    BY <1>2, <2>1, BuilderBounds
  <2>3. PICK n \in S : \A m \in S : n <= m
    BY <2>2, LeastElement
  <2>4. PICK v \in Builder!Existing : n = MaxVersions - versions[v].number
    OBVIOUS
  <2>5. \A w \in Builder!Existing : n <= MaxVersions - versions[w].number
    BY <2>3
  <2>6. \A w \in Builder!Existing : versions[w].number <= versions[v].number
    BY <2>1, <2>4, <2>5, BuilderBounds
  <2> QED
    BY <1>2, <2>6 DEF Builder!Latest
<1> QED
  BY <1>1, <1>2

\* One row of the versions is written.
LEMMA RowWritten ==
  ASSUME VersionTypes, NEW v \in Builder!Ids, NEW row, VersionRow(row),
         versions' = [versions EXCEPT ![v] = row]
  PROVE  /\ VersionTypes' /\ versions'[v] = row
         /\ \A w \in Builder!Ids \ {v} : versions'[w] = versions[w]
  BY DEF VersionTypes, VersionRow

\* The draft there is, or a new one that goes on where the latest version is.
LEMMA CreateKeeps ==
  ASSUME Builder!BuilderAssumption, VersionTypes, Ordered, NEW v \in Builder!Ids,
         Builder!Create(v)
  PROVE  /\ VersionTypes' /\ Ordered'
         /\ versions'[v].status = "draft"
         /\ \/ versions[v].status = "draft" /\ versions' = versions
            \/ /\ versions[v].status = "none"
               /\ \A w \in Builder!Ids : versions[w].status # "draft"
               /\ \A w \in Builder!Ids \ {v} : versions'[w] = versions[w]
               /\ Builder!Existing # {} =>
                    versions'[v].questions = versions[Builder!Latest].questions
<1>1. CASE Builder!Drafts # {}
  BY <1>1 DEF Builder!Create, Builder!Drafts, VersionTypes, Ordered
<1>2. CASE Builder!Drafts = {}
  <2>1. PICK row :
          row = [status |-> "draft", published_at |-> 0,
                 number |-> IF Builder!Latest = 0 THEN 1
                            ELSE versions[Builder!Latest].number + 1,
                 questions |-> IF Builder!Latest = 0 THEN <<>>
                               ELSE versions[Builder!Latest].questions]
    OBVIOUS
  <2>2. /\ versions' = [versions EXCEPT ![v] = row]
        /\ versions[v].status = "none"
        /\ \A w \in Builder!Ids : versions[w].status = "none" => v <= w
    BY <1>2, <2>1 DEF Builder!Create, Builder!Unused
  <2>3. CASE Builder!Existing = {}
    <3>1. VersionRow(row) /\ row.number = 1 /\ row.status = "draft"
      BY <2>1, <2>3, LatestIs, ShortCompositions DEF VersionRow
    <3>2. /\ VersionTypes' /\ versions'[v] = row
          /\ \A w \in Builder!Ids \ {v} : versions'[w] = versions[w]
      BY <2>2, <3>1, RowWritten
    <3>3. Ordered'
      BY <2>2, <2>3, <3>1, <3>2, BuilderBounds DEF Ordered, Builder!Existing
    <3> QED
      BY <1>2, <2>2, <2>3, <3>1, <3>2, <3>3 DEF Builder!Drafts
  <2>4. CASE Builder!Existing # {}
    <3>1. /\ Builder!Latest \in Builder!Ids /\ Builder!Latest # 0
          /\ Builder!Latest \in Builder!Existing
          /\ \A w \in Builder!Existing : versions[w].number <= versions[Builder!Latest].number
      BY <2>4, LatestIs, BuilderBounds DEF Builder!Existing
    <3>2. VersionRow(versions[Builder!Latest])
      BY <3>1 DEF VersionTypes
    <3>3. /\ VersionRow(row) /\ row.number = versions[Builder!Latest].number + 1
          /\ row.status = "draft" /\ row.questions = versions[Builder!Latest].questions
      BY <2>1, <3>1, <3>2 DEF VersionRow
    <3>4. /\ VersionTypes' /\ versions'[v] = row
          /\ \A w \in Builder!Ids \ {v} : versions'[w] = versions[w]
      BY <2>2, <3>3, RowWritten
    <3>5. versions[Builder!Latest].number <= Builder!Latest /\ Builder!Latest < v
      <4>1. versions[Builder!Latest].status # "none"
        BY <3>1 DEF Builder!Existing
      <4> QED
        BY <2>2, <3>1, <4>1, BuilderBounds DEF Ordered
    <3>6. \A w \in Builder!Ids : versions[w].number \in Nat
      BY DEF VersionTypes, VersionRow
    <3>7. Ordered'
      <4>1. \A u, w \in Builder!Ids : versions'[u].status = "none" /\ u < w =>
               versions'[w].status = "none"
        BY <2>2, <3>3, <3>4, BuilderBounds DEF Ordered
      <4>2. \A u \in Builder!Ids : versions'[u].number <= u
        BY <3>1, <3>3, <3>4, <3>5, <3>6, BuilderBounds DEF Ordered
      <4>3. \A d, w \in Builder!Ids :
              /\ versions'[d].status = "draft" /\ versions'[w].status \notin {"none", "gone"}
              /\ d # w
              => versions'[w].status # "draft" /\ versions'[w].number < versions'[d].number
        <5>1. \A d \in Builder!Ids : versions'[d].status = "draft" => d = v
          BY <1>2, <3>4 DEF Builder!Drafts
        <5>2. \A w \in Builder!Ids \ {v} : versions'[w].status \notin {"none", "gone"} =>
                versions[w].number <= versions[Builder!Latest].number
          BY <3>1, <3>4 DEF Builder!Existing
        <5> QED
          BY <3>1, <3>3, <3>4, <3>6, <5>1, <5>2
      <4> QED
        BY <4>1, <4>2, <4>3 DEF Ordered
    <3> QED
      BY <1>2, <2>2, <3>3, <3>4, <3>7 DEF Builder!Drafts
  <2> QED
    BY <2>3, <2>4
<1> QED
  BY <1>1, <1>2

\* What a handler is told of its request.
LEMMA HandlerReplied ==
  ASSUME saving \in HandlerRecord, NEW reply \in {"none", "ok", "error"}, NEW v \in Nat,
         Builder!SavingReplied(reply, v)
  PROVE  /\ saving' \in HandlerRecord /\ saving'.reply = reply /\ saving'.result = v
         /\ saving'.stage = saving.stage /\ saving'.version = saving.version
         /\ saving'.publish = saving.publish /\ saving'.questions = saving.questions
<1>1. PICK replied : replied = [saving EXCEPT !.reply = reply]
  OBVIOUS
<1>2. /\ replied \in HandlerRecord /\ replied.reply = reply /\ replied.stage = saving.stage
      /\ replied.version = saving.version /\ replied.publish = saving.publish
      /\ replied.questions = saving.questions
  BY <1>1 DEF HandlerRecord
<1>3. saving' = [replied EXCEPT !.result = v]
  BY <1>1 DEF Builder!SavingReplied
<1> QED
  BY <1>2, <1>3 DEF HandlerRecord

\* The next draft goes on where the version is that was published before it.
LEMMA NextDraft ==
  ASSUME Builder!BuilderAssumption, VersionTypes, Ordered, NEW v \in Builder!Ids,
         Builder!Create(v), NEW c \in Builder!Ids, NEW questions,
         \/ \E d \in Builder!Ids : Is(d, "draft", questions)
         \/ /\ versions[c].status \in {"published", "archived"}
            /\ versions[c].questions = questions
            /\ \A w \in Builder!Ids : w # c /\ versions[w].status \notin {"none", "gone"} =>
                 versions[w].status # "draft" /\ versions[w].number < versions[c].number
  PROVE  Is(v, "draft", questions)'
<1>1. /\ versions'[v].status = "draft"
      /\ \/ versions[v].status = "draft" /\ versions' = versions
         \/ /\ versions[v].status = "none"
            /\ \A w \in Builder!Ids : versions[w].status # "draft"
            /\ \A w \in Builder!Ids \ {v} : versions'[w] = versions[w]
            /\ Builder!Existing # {} =>
                 versions'[v].questions = versions[Builder!Latest].questions
  BY CreateKeeps
<1>2. ASSUME NEW d \in Builder!Ids, Is(d, "draft", questions)
      PROVE  Is(v, "draft", questions)'
  <2>1. versions' = versions /\ versions[v].status = "draft"
    BY <1>1, <1>2 DEF Is
  <2>2. d = v
    BY <1>2, <2>1 DEF Ordered, Is
  <2> QED
    BY <1>2, <2>1, <2>2 DEF Is
<1>3. CASE /\ versions[c].status \in {"published", "archived"}
           /\ versions[c].questions = questions
           /\ \A w \in Builder!Ids : w # c /\ versions[w].status \notin {"none", "gone"} =>
                versions[w].status # "draft" /\ versions[w].number < versions[c].number
  <2>1. c \in Builder!Existing
    BY <1>3 DEF Builder!Existing
  <2>2. versions[v].status # "draft"
    BY <1>3
  <2>3. Builder!Latest = c
    <3>1. Builder!Latest \in Builder!Existing /\ versions[c].number <= versions[Builder!Latest].number
      BY <2>1, LatestIs
    <3>2. \A w \in Builder!Ids : versions[w].number \in Nat
      BY DEF VersionTypes, VersionRow
    <3> QED
      BY <1>3, <3>1, <3>2 DEF Builder!Existing
  <2> QED
    BY <1>1, <1>3, <2>1, <2>2, <2>3 DEF Is
<1> QED
  BY <1>2, <1>3

\* A version is published, and old ones go.
LEMMA PublishKeeps ==
  ASSUME Builder!BuilderAssumption, VersionTypes, Ordered, Builder!DeliveredStays,
         NEW v \in Builder!Ids, versions[v].status \notin {"none", "gone"}, Builder!Publish(v),
         inUse' = inUse
  PROVE  /\ VersionTypes' /\ Ordered' /\ Builder!DeliveredStays'
         /\ versions'[v].status = "published" /\ versions'[v].questions = versions[v].questions
         /\ versions'[v].number = versions[v].number
         /\ \A w \in Builder!Ids \ {v} :
              \/ versions'[w] = versions[w]
              \/ versions[w].status = "published" /\ versions'[w] = Builder!Deleted
<1>1. PICK at : at = 1 + Builder!Max({versions[u].published_at : u \in Builder!Ids})
  OBVIOUS
<1>2. PICK row : row = [[versions[v] EXCEPT !.status = "published"] EXCEPT !.published_at = at]
  OBVIOUS
<1>3. VersionRow(versions[v])
  BY DEF VersionTypes
<1>4. PICK mid : mid = [versions[v] EXCEPT !.status = "published"]
  OBVIOUS
<1>5. /\ VersionRow(mid) /\ mid.status = "published" /\ mid.number = versions[v].number
      /\ mid.questions = versions[v].questions
  BY <1>3, <1>4 DEF VersionRow
<1>6. /\ VersionRow(row) /\ row.status = "published" /\ row.number = versions[v].number
      /\ row.questions = versions[v].questions
  BY <1>2, <1>4, <1>5 DEF VersionRow
<1>7. versions' = [w \in Builder!Ids |-> IF w = v THEN row
                    ELSE IF w \in Builder!Pruned(v) THEN Builder!Deleted ELSE versions[w]]
  BY <1>1, <1>2 DEF Builder!Publish
<1>8. \A w \in Builder!Pruned(v) : w \in Builder!Ids /\ versions[w].status = "published"
                                  /\ w \notin inUse /\ w # v
  BY DEF Builder!Pruned, Builder!PublishedAfter
<1>9. /\ versions'[v] = row
      /\ \A w \in Builder!Ids \ {v} :
           \/ versions'[w] = versions[w]
           \/ /\ versions[w].status = "published" /\ versions'[w] = Builder!Deleted
              /\ w \notin inUse
  BY <1>7, <1>8
<1>10. VersionTypes'
  <2>1. versions' = [w \in Builder!Ids |-> versions'[w]]
    BY <1>7
  <2>2. \A w \in Builder!Ids : VersionRow(versions'[w])
    BY <1>6, <1>9, BuilderBounds DEF VersionTypes
  <2> QED
    BY <2>1, <2>2 DEF VersionTypes, VersionRow
<1>11. Builder!DeliveredStays'
  BY <1>6, <1>9 DEF Builder!DeliveredStays, Builder!Existing
<1>12. Ordered'
  <2>0. \A w \in Builder!Ids : versions[w].number \in Nat
    BY DEF VersionTypes, VersionRow
  <2>1. \A u, w \in Builder!Ids : versions'[u].status = "none" /\ u < w =>
           versions'[w].status = "none"
    BY <1>6, <1>9, BuilderBounds DEF Ordered
  <2>2. \A u \in Builder!Ids : versions'[u].number <= u
    BY <1>6, <1>9, BuilderBounds DEF Ordered
  <2>3. \A d, w \in Builder!Ids :
          /\ versions'[d].status = "draft" /\ versions'[w].status \notin {"none", "gone"}
          /\ d # w
          => versions'[w].status # "draft" /\ versions'[w].number < versions'[d].number
    BY <1>6, <1>9, BuilderBounds DEF Ordered
  <2> QED
    BY <2>1, <2>2, <2>3 DEF Ordered
<1> QED
  BY <1>6, <1>9, <1>10, <1>11, <1>12

\* The initial state satisfies the inductive invariant.
LEMMA BuilderStart == ASSUME Builder!BuilderAssumption PROVE Builder!Init => BuilderInv
<1> SUFFICES ASSUME Builder!Init PROVE BuilderInv
  OBVIOUS
<1>1. PICK q \in Pool, s \in {"draft", "published"} :
        versions = [v \in Builder!Ids |->
            IF v = 1 THEN [status |-> s, number |-> 1,
                           published_at |-> IF s = "draft" THEN 0 ELSE 1, questions |-> <<q>>]
            ELSE Builder!NoVersion]
  BY DEF Builder!Init
<1>2. PICK row : row = [status |-> s, number |-> 1,
                        published_at |-> IF s = "draft" THEN 0 ELSE 1, questions |-> <<q>>]
  OBVIOUS
<1>3. VersionRow(row) /\ row.number = 1 /\ row.status \in {"draft", "published"}
  BY <1>2, ShortCompositions DEF VersionRow
<1>4. \A v \in Builder!Ids : versions[v] = IF v = 1 THEN row ELSE Builder!NoVersion
  BY <1>1, <1>2
<1>5. VersionTypes
  BY <1>1, <1>3, <1>4, BuilderBounds DEF VersionTypes
<1>6. Ordered
  BY <1>3, <1>4, BuilderBounds DEF Ordered
<1>7. PICK l : l = [stage |-> "test", reply |-> "none", result |-> 0, questions |-> <<>>,
                    mixed |-> FALSE]
  OBVIOUS
<1>8. /\ loading = {l} /\ l \in LoadRecord /\ l.reply = "none" /\ saving = Builder!NoHandler
      /\ aside = Builder!NoAside /\ aside.action = "none" /\ saving.stage = "idle"
      /\ saving.reply = "none"
  BY <1>7, ShortCompositions DEF Builder!Init, Builder!Load, LoadRecord, Builder!NoHandler,
     Builder!NoAside
<1>9. BuilderTypes
  <2>1. saving \in HandlerRecord /\ MaxVersions \in Nat
    BY <1>8, BuilderBounds
  <2>2. aside \in [action : {"none", "archive", "restore", "delete"}, version : Nat,
                   reply : {"none", "answered"}]
    BY <1>8 DEF Builder!NoAside
  <2>3. clicked \in [Builder!Ids -> Compositions] /\ composition \in Compositions
    BY ShortCompositions DEF Builder!Init
  <2>4. spent \in [edits : Nat, ops : Nat, renewals : Nat, failures : Nat]
    BY DEF Builder!Init
  <2>5. {waiting, unsaved, mixed} \subseteq BOOLEAN
    BY DEF Builder!Init
  <2>6. inUse \subseteq Builder!Ids /\ current \in 0 .. MaxVersions
    BY <2>1 DEF Builder!Init
  <2> QED
    BY <1>8, <2>1, <2>2, <2>3, <2>4, <2>5, <2>6 DEF BuilderTypes
<1>10. Known
  BY <1>8 DEF Builder!Init, Known
<1>11. Builder!DeliveredStays
  BY DEF Builder!Init, Builder!DeliveredStays
<1>12. Published
  BY <1>8 DEF Builder!Init, Published
<1>13. Undisturbed
  BY <1>8 DEF Builder!Init, Undisturbed, Loading
<1> QED
  BY <1>5, <1>6, <1>9, <1>10, <1>11, <1>12, <1>13 DEF BuilderInv

\* Steps that leave the versions as they are.
LEMMA ServerStays ==
  ASSUME VersionTypes, Ordered, Builder!DeliveredStays, UNCHANGED <<versions, inUse>>
  PROVE  VersionTypes' /\ Ordered' /\ Builder!DeliveredStays'
<1>1. VersionTypes'
  BY DEF VersionTypes, VersionRow
<1>2. Ordered' /\ Builder!DeliveredStays'
  BY DEF Ordered, Builder!DeliveredStays, Builder!Existing
<1> QED
  BY <1>1, <1>2

\* Steps that leave the versions, the handler and what it works on as they are.
LEMMA VersionsStay ==
  ASSUME BuilderInv, BuilderTypes', Undisturbed', Known', Builder!DeliveredStays',
         UNCHANGED <<versions, clicked, saving>>
  PROVE  BuilderInv'
<1>1. VersionTypes' /\ Ordered' /\ Published'
  BY DEF BuilderInv, VersionTypes, VersionRow, Ordered, Published
<1> QED
  BY <1>1 DEF BuilderInv

\* A published version is delivered.
LEMMA DeliverKeeps ==
  ASSUME BuilderInv, NEW v \in Builder!Ids, Builder!Deliver(v)
  PROVE  BuilderInv'
<1>1. UNCHANGED <<versions, current, composition, history, saving, loading, waiting, aside, spent,
                  clicked, unsaved, mixed>>
      /\ versions[v].status = "published" /\ inUse' = inUse \cup {v}
  BY DEF Builder!Deliver, Builder!builderPage
<1>2. BuilderTypes' /\ Known' /\ Undisturbed'
  BY <1>1 DEF BuilderInv, BuilderTypes, Known, Made, Undisturbed, Loading, Working, Is
<1>3. Builder!DeliveredStays'
  BY <1>1 DEF BuilderInv, Builder!DeliveredStays, Builder!Existing
<1> QED
  BY <1>1, <1>2, <1>3, VersionsStay

\* The loads that are under way meet a save or a deletion from now on.
LEMMA LoadsMarked ==
  ASSUME loading \subseteq LoadRecord, NEW B \in BOOLEAN,
         loading' = {[l EXCEPT !.mixed = @ \/ B] : l \in loading}
  PROVE  /\ loading' \subseteq LoadRecord
         /\ \A k \in loading' : \E l \in loading :
              /\ k.reply = l.reply /\ k.result = l.result /\ k.questions = l.questions
              /\ ~k.mixed => ~l.mixed /\ ~B
<1>1. ASSUME NEW l \in loading, NEW k, k = [l EXCEPT !.mixed = @ \/ B]
      PROVE  /\ k \in LoadRecord /\ k.reply = l.reply /\ k.result = l.result
             /\ k.questions = l.questions /\ (~k.mixed => ~l.mixed /\ ~B)
  BY <1>1 DEF LoadRecord
<1> QED
  BY <1>1

\* The buttons.
LEMMA ClickKeeps ==
  ASSUME BuilderInv, Builder!BuilderAssumption, NEW publish \in BOOLEAN, Builder!Click(publish)
  PROVE  BuilderInv'
<1>1. /\ UNCHANGED <<versions, inUse, current, composition, history, waiting, aside, clicked,
                     mixed>>
      /\ current # 0 /\ saving.stage = "idle" /\ unsaved' = FALSE
      /\ spent' = [spent EXCEPT !.ops = @ + 1]
  BY DEF Builder!Click
<1>2. /\ saving' \in HandlerRecord /\ saving'.stage = "save" /\ saving'.reply = "none"
      /\ saving'.version = current /\ saving'.questions = composition
  <2>1. PICK h : h = [stage |-> "save", publish |-> publish, version |-> current,
                      questions |-> composition, reply |-> "none", result |-> 0]
    OBVIOUS
  <2>2. saving' = h
    <3>1. PICK h1 : h1 = [Builder!NoHandler EXCEPT !.stage = "save"]
      OBVIOUS
    <3>2. PICK h2 : h2 = [h1 EXCEPT !.publish = publish]
      OBVIOUS
    <3>3. PICK h3 : h3 = [h2 EXCEPT !.version = current]
      OBVIOUS
    <3>4. saving' = [h3 EXCEPT !.questions = composition]
      BY <3>1, <3>2, <3>3 DEF Builder!Click
    <3>5. h1 = [stage |-> "save", publish |-> FALSE, version |-> 0, questions |-> <<>>,
                reply |-> "none", result |-> 0]
      BY <3>1 DEF Builder!NoHandler
    <3>6. h2 = [stage |-> "save", publish |-> publish, version |-> 0, questions |-> <<>>,
                reply |-> "none", result |-> 0]
      BY <3>2, <3>5
    <3>7. h3 = [stage |-> "save", publish |-> publish, version |-> current,
                questions |-> <<>>, reply |-> "none", result |-> 0]
      BY <3>3, <3>6
    <3> QED
      BY <2>1, <3>4, <3>7
  <2>3. current \in Nat /\ composition \in Compositions
    BY BuilderBounds DEF BuilderInv, BuilderTypes
  <2> QED
    BY <2>1, <2>2, <2>3 DEF HandlerRecord
<1>3. /\ loading' \subseteq LoadRecord
      /\ \A k \in loading' : k.mixed /\ \E l \in loading : k.reply = l.reply /\ k.result = l.result
  <2>1. ASSUME NEW l \in loading, NEW k, k = [l EXCEPT !.mixed = TRUE]
        PROVE  k \in LoadRecord /\ k.mixed /\ k.reply = l.reply /\ k.result = l.result
    BY <2>1 DEF BuilderInv, BuilderTypes, LoadRecord
  <2>2. loading' = {[l EXCEPT !.mixed = TRUE] : l \in loading}
    BY DEF Builder!Click
  <2> QED
    BY <2>1, <2>2
<1>4. spent' \in [edits : Nat, ops : Nat, renewals : Nat, failures : Nat]
      /\ spent'.failures = spent.failures
  BY <1>1 DEF BuilderInv, BuilderTypes
<1>5. BuilderTypes'
  BY <1>1, <1>2, <1>3, <1>4 DEF BuilderInv, BuilderTypes
<1>6. Known'
  BY <1>1, <1>2, <1>3 DEF BuilderInv, Known, Made
<1>7. Undisturbed'
  <2>1. Loading'
    BY <1>3 DEF Loading
  <2>2. spent.failures = 0 /\ ~mixed => Working'
    BY <1>1, <1>2 DEF BuilderInv, Undisturbed, Working
  <2> QED
    BY <1>1, <1>2, <1>3, <1>4, <2>1, <2>2 DEF BuilderInv, Undisturbed
<1>8. VersionTypes' /\ Ordered' /\ Builder!DeliveredStays' /\ Published'
  BY <1>1, <1>2 DEF BuilderInv, VersionTypes, VersionRow, Ordered, Builder!DeliveredStays,
                    Builder!Existing, Published
<1> QED
  BY <1>5, <1>6, <1>7, <1>8 DEF BuilderInv

\* What the versions become keeps those that were made.
LEMMA KnownStays ==
  ASSUME Known, \A v \in Builder!Ids : versions[v].status # "none" => versions'[v].status # "none",
         UNCHANGED <<current, history, loading, aside>>,
         saving'.stage # "idle" => saving.stage # "idle" /\ saving'.version = saving.version,
         saving'.reply = "ok" => /\ saving'.result \in Builder!Ids
                                 /\ versions'[saving'.result].status # "none"
  PROVE  Known'
  BY DEF Known, Made

\* The handler's save is served.
LEMMA SaveServedKeeps ==
  ASSUME BuilderInv, Builder!BuilderAssumption, Builder!ServeHandler, Builder!ServeSave
  PROVE  BuilderInv'
<1>1. /\ UNCHANGED <<inUse, current, composition, history, loading, waiting, aside, spent, unsaved,
                     mixed, clicked>>
      /\ saving.stage = "save" /\ saving.reply = "none"
  BY DEF Builder!ServeHandler, Builder!ServeSave
<1> DEFINE v == saving.version
           qs == saving.questions
<1>2. /\ v \in Builder!Ids /\ versions[v].status # "none" /\ qs \in Compositions
      /\ saving \in HandlerRecord /\ v \in Nat
  BY <1>1, BuilderBounds DEF BuilderInv, Known, Made, BuilderTypes, HandlerRecord
<1>3. CASE versions[v].status = "draft"
  <2>1. PICK row : row = [versions[v] EXCEPT !.questions = qs]
    OBVIOUS
  <2>2. VersionRow(versions[v])
    BY <1>2 DEF BuilderInv, VersionTypes
  <2>3. /\ VersionRow(row) /\ row.status = "draft" /\ row.number = versions[v].number
        /\ row.questions = qs
    BY <1>2, <1>3, <2>1, <2>2 DEF VersionRow
  <2>4. versions' = [versions EXCEPT ![v] = row] /\ Builder!SavingReplied("ok", v)
    BY <1>3, <2>1 DEF Builder!ServeSave
  <2>5. /\ VersionTypes' /\ versions'[v] = row
        /\ \A w \in Builder!Ids \ {v} : versions'[w] = versions[w]
    BY <1>2, <2>3, <2>4, RowWritten DEF BuilderInv
  <2>6. /\ saving' \in HandlerRecord /\ saving'.reply = "ok" /\ saving'.result = v
        /\ saving'.stage = "save" /\ saving'.version = v /\ saving'.questions = qs
    BY <1>1, <1>2, <2>4, HandlerReplied
  <2>7. \A w \in Builder!Ids : /\ versions'[w].status = versions[w].status
                              /\ versions'[w].number = versions[w].number
    BY <1>3, <2>3, <2>5
  <2>8. Ordered' /\ Builder!DeliveredStays'
    BY <1>1, <2>7 DEF BuilderInv, BuilderTypes, Ordered, Builder!DeliveredStays, Builder!Existing
  <2>9. Known'
    BY <1>1, <1>2, <2>6, <2>7, KnownStays DEF BuilderInv, Made
  <2>10. BuilderTypes'
    BY <1>1, <2>6 DEF BuilderInv, BuilderTypes
  <2>11. Published'
    BY <1>1, <1>3, <2>3, <2>5, <2>6, <2>7 DEF BuilderInv, Published
  <2>12. Undisturbed'
    <3>1. Loading'
      BY <1>1 DEF BuilderInv, Undisturbed, Loading
    <3>2. spent.failures = 0 /\ ~mixed /\ current # 0 => Working'
      BY <1>1, <1>2, <1>3, <2>3, <2>5, <2>6 DEF BuilderInv, Undisturbed, Working, Is
    <3> QED
      BY <1>1, <2>6, <3>1, <3>2 DEF BuilderInv, Undisturbed
  <2> QED
    BY <2>5, <2>8, <2>9, <2>10, <2>11, <2>12 DEF BuilderInv
<1>4. CASE versions[v].status # "draft"
  <2>1. versions' = versions /\ Builder!SavingReplied("error", 0)
    BY <1>4 DEF Builder!ServeSave
  <2>2. /\ saving' \in HandlerRecord /\ saving'.reply = "error" /\ saving'.stage = "save"
        /\ saving'.version = v /\ saving'.questions = qs
    BY <1>1, <1>2, <2>1, HandlerReplied
  <2>3. VersionTypes' /\ Ordered' /\ Builder!DeliveredStays' /\ BuilderTypes'
    <3>1. BuilderTypes'
      BY <1>1, <2>2 DEF BuilderInv, BuilderTypes
    <3> QED
      BY <1>1, <2>1, <3>1, ServerStays DEF BuilderInv
  <2>4. Known' /\ Published'
    BY <1>1, <1>2, <2>1, <2>2 DEF BuilderInv, Known, Made, Published
  <2>5. Undisturbed'
    <3>1. Loading'
      BY <1>1 DEF BuilderInv, Undisturbed, Loading
    <3>2. ~(spent.failures = 0 /\ ~mixed /\ current # 0)
      BY <1>1, <1>4 DEF BuilderInv, Undisturbed, Working
    <3> QED
      BY <1>1, <2>2, <3>1, <3>2 DEF BuilderInv, Undisturbed
  <2> QED
    BY <2>3, <2>4, <2>5 DEF BuilderInv
<1> QED
  BY <1>3, <1>4

\* The handler's publication is served.
LEMMA PublishServedKeeps ==
  ASSUME BuilderInv, Builder!BuilderAssumption, Builder!ServeHandler, Builder!ServePublish
  PROVE  BuilderInv'
<1>1. /\ UNCHANGED <<inUse, current, composition, history, loading, waiting, aside, spent, unsaved,
                     mixed>>
      /\ saving.stage = "publish" /\ saving.reply = "none"
  BY DEF Builder!ServeHandler, Builder!ServePublish
<1> DEFINE v == saving.version
           qs == saving.questions
<1>2. /\ v \in Builder!Ids /\ versions[v].status # "none" /\ qs \in Compositions
      /\ saving \in HandlerRecord /\ v \in Nat
  BY <1>1, BuilderBounds DEF BuilderInv, Known, Made, BuilderTypes, HandlerRecord
<1>3. PICK reply \in {"ok", "error"} : Builder!SavingReplied(reply, v)
  BY DEF Builder!ServePublish
<1>4. /\ saving' \in HandlerRecord /\ saving'.reply = reply /\ saving'.result = v
      /\ saving'.stage = "publish" /\ saving'.version = v /\ saving'.questions = qs
  BY <1>1, <1>2, <1>3, HandlerReplied
<1>5. Loading'
  BY <1>1 DEF BuilderInv, Undisturbed, Loading
<1>6. CASE versions[v].status \in {"published", "gone"}
  <2>1. UNCHANGED <<versions, clicked>>
    BY <1>6 DEF Builder!ServePublish
  <2>2. VersionTypes' /\ Ordered' /\ Builder!DeliveredStays' /\ BuilderTypes'
    <3>1. BuilderTypes'
      BY <1>1, <1>4, <2>1 DEF BuilderInv, BuilderTypes
    <3> QED
      BY <1>1, <2>1, <3>1, ServerStays DEF BuilderInv
  <2>3. Known' /\ Published'
    BY <1>1, <1>2, <1>4, <2>1 DEF BuilderInv, Known, Made, Published
  <2>4. ~(spent.failures = 0 /\ ~mixed /\ current # 0)
    BY <1>1, <1>6 DEF BuilderInv, Undisturbed, Working
  <2>5. Undisturbed'
    BY <1>1, <1>4, <1>5, <2>4 DEF BuilderInv, Undisturbed
  <2> QED
    BY <2>2, <2>3, <2>5 DEF BuilderInv
<1>7. CASE versions[v].status \notin {"published", "gone"}
  <2>1. Builder!Publish(v) /\ Builder!SavingReplied("ok", v)
        /\ clicked' = [clicked EXCEPT ![v] = qs]
    BY <1>7 DEF Builder!ServePublish
  <2>2. /\ VersionTypes' /\ Ordered' /\ Builder!DeliveredStays'
        /\ versions'[v].status = "published" /\ versions'[v].questions = versions[v].questions
        /\ versions'[v].number = versions[v].number
        /\ \A w \in Builder!Ids \ {v} :
             \/ versions'[w] = versions[w]
             \/ versions[w].status = "published" /\ versions'[w] = Builder!Deleted
    BY <1>1, <1>2, <1>7, <2>1, PublishKeeps DEF BuilderInv
  <2>3. saving'.reply = "ok"
    BY <1>2, <2>1, HandlerReplied
  <2>4. versions[v].questions = qs
    BY <1>1, <1>7 DEF BuilderInv, Published
  <2>5. clicked' \in [Builder!Ids -> Compositions]
    BY <1>2, <2>1 DEF BuilderInv, BuilderTypes
  <2>6. BuilderTypes'
    BY <1>1, <1>4, <2>5 DEF BuilderInv, BuilderTypes
  <2>7. \A w \in Builder!Ids : versions[w].status # "none" => versions'[w].status # "none"
    BY <2>2, BuilderBounds
  <2>8. Known'
    BY <1>1, <1>2, <1>4, <2>2, <2>7, KnownStays DEF BuilderInv, Made
  <2>9. Published'
    <3>1. \A w \in Builder!Ids : versions'[w].status \in {"published", "archived"} /\ clicked'[w] # <<>>
            => versions'[w].questions = clicked'[w]
      BY <1>2, <2>1, <2>2, <2>4, BuilderBounds DEF BuilderInv, BuilderTypes, Published
    <3> QED
      BY <1>4, <2>2, <2>4, <3>1 DEF Published
  <2>10. spent.failures = 0 /\ ~mixed /\ current # 0 => Working'
    <3>1. SUFFICES ASSUME spent.failures = 0, ~mixed, current # 0
                   PROVE  Working'
      OBVIOUS
    <3>2. /\ current = v /\ versions[v].status = "draft"
          /\ ~unsaved => composition = qs
      BY <1>1, <3>1 DEF BuilderInv, Undisturbed, Working
    <3>3. \A w \in Builder!Ids : w # v /\ versions'[w].status \notin {"none", "gone"} =>
            versions'[w].status # "draft" /\ versions'[w].number < versions'[v].number
      BY <1>2, <2>2, <3>2, BuilderBounds DEF BuilderInv, Ordered
    <3> QED
      BY <1>1, <1>4, <2>2, <2>3, <2>4, <3>2, <3>3 DEF Working
  <2>11. Undisturbed'
    BY <1>1, <1>4, <1>5, <2>10 DEF BuilderInv, Undisturbed
  <2> QED
    BY <2>2, <2>6, <2>8, <2>9, <2>11 DEF BuilderInv
<1> QED
  BY <1>6, <1>7

\* The handler's next draft is served.
LEMMA DraftServedKeeps ==
  ASSUME BuilderInv, Builder!BuilderAssumption, Builder!ServeHandler, Builder!ServeDraft
  PROVE  BuilderInv'
<1>1. /\ UNCHANGED <<inUse, current, composition, history, loading, waiting, aside, spent, unsaved,
                     mixed, clicked>>
      /\ saving.stage = "draft" /\ saving.reply = "none"
  BY DEF Builder!ServeHandler, Builder!ServeDraft
<1>2. PICK v \in Builder!Ids : Builder!Create(v) /\ Builder!SavingReplied("ok", v)
  BY DEF Builder!ServeDraft
<1>3. saving \in HandlerRecord /\ v \in Nat
  BY BuilderBounds DEF BuilderInv, BuilderTypes
<1>4. /\ saving' \in HandlerRecord /\ saving'.reply = "ok" /\ saving'.result = v
      /\ saving'.stage = "draft" /\ saving'.version = saving.version
      /\ saving'.questions = saving.questions
  BY <1>1, <1>2, <1>3, HandlerReplied
<1>5. /\ VersionTypes' /\ Ordered' /\ versions'[v].status = "draft"
      /\ \A w \in Builder!Ids : /\ versions[w].status # "none" => versions'[w] = versions[w]
                                /\ w # v => versions'[w] = versions[w]
  BY <1>2, CreateKeeps DEF BuilderInv
<1>6. Builder!DeliveredStays' /\ BuilderTypes'
  BY <1>1, <1>4, <1>5 DEF BuilderInv, Builder!DeliveredStays, Builder!Existing, BuilderTypes
<1>7. Known'
  <2>1. \A w \in Builder!Ids : versions[w].status # "none" => versions'[w].status # "none"
    BY <1>5
  <2> QED
    BY <1>1, <1>4, <1>5, <2>1, KnownStays DEF BuilderInv
<1>8. Published'
  BY <1>1, <1>4, <1>5 DEF BuilderInv, Published
<1>9. Undisturbed'
  <2>1. Loading'
    BY <1>1 DEF BuilderInv, Undisturbed, Loading
  <2>2. spent.failures = 0 /\ ~mixed /\ current # 0 => Working'
    <3>1. SUFFICES ASSUME spent.failures = 0, ~mixed, current # 0
                   PROVE  Working'
      OBVIOUS
    <3>2. current \in Builder!Ids
      BY <3>1 DEF BuilderInv, Known, Made
    <3>3. /\ current = saving.version /\ (~unsaved => composition = saving.questions)
          /\ \/ \E d \in Builder!Ids : Is(d, "draft", saving.questions)
             \/ /\ versions[current].status \in {"published", "archived"}
                /\ versions[current].questions = saving.questions
                /\ \A w \in Builder!Ids : w # current /\ versions[w].status \notin {"none", "gone"} =>
                     versions[w].status # "draft" /\ versions[w].number < versions[current].number
      BY <1>1, <3>1 DEF BuilderInv, Undisturbed, Working
    <3>4. PICK qs : qs = saving.questions
      OBVIOUS
    <3>5. Is(v, "draft", qs)'
      BY <1>2, <3>2, <3>3, <3>4, NextDraft DEF BuilderInv
    <3> QED
      BY <1>1, <1>4, <3>3, <3>4, <3>5 DEF Working, Is
  <2> QED
    BY <1>1, <1>4, <2>1, <2>2 DEF BuilderInv, Undisturbed
<1> QED
  BY <1>5, <1>6, <1>7, <1>8, <1>9 DEF BuilderInv

\* The handler goes on with an answer, or ends.
LEMMA HandlerGoesOnKeeps ==
  ASSUME BuilderInv, Builder!BuilderAssumption, Builder!HandlerGoesOn
  PROVE  BuilderInv'
<1>1. /\ UNCHANGED <<versions, inUse, composition, history, waiting, loading, aside, spent, clicked,
                     unsaved, mixed>>
      /\ saving.reply # "none"
      /\ current' = IF saving.stage \in {"save", "draft"} /\ saving.reply = "ok"
                    THEN saving.result ELSE current
  BY DEF Builder!HandlerGoesOn
<1>2. /\ saving \in HandlerRecord /\ saving.reply \in {"ok", "error"} /\ saving.stage # "idle"
      /\ saving.stage \in {"save", "publish", "draft"}
  <2>1. saving.stage = "idle" => saving.reply = "none"
    BY DEF BuilderInv, Undisturbed, Builder!NoHandler
  <2> QED
    BY <1>1, <2>1 DEF BuilderInv, BuilderTypes, HandlerRecord
<1>3. VersionTypes' /\ Ordered' /\ Builder!DeliveredStays'
  BY <1>1, ServerStays DEF BuilderInv
<1>4. /\ Builder!NoHandler \in HandlerRecord /\ Builder!NoHandler.stage = "idle"
      /\ Builder!NoHandler.reply = "none"
  BY BuilderBounds DEF Builder!NoHandler
<1>5. \/ saving' = Builder!NoHandler
      \/ /\ saving' \in HandlerRecord /\ saving'.reply = "none"
         /\ saving'.version = saving.version /\ saving'.questions = saving.questions
         /\ saving.reply = "ok"
         /\ \/ saving.stage = "save" /\ saving'.stage = "publish"
            \/ saving.stage = "publish" /\ saving'.stage = "draft"
  <2>1. CASE saving.reply = "ok" /\ saving.stage = "save" /\ saving.publish
    <3>1. PICK h : h = [saving EXCEPT !.stage = "publish"]
      OBVIOUS
    <3>2. h \in HandlerRecord /\ h.stage = "publish" /\ h.version = saving.version
          /\ h.questions = saving.questions
      BY <1>2, <3>1 DEF HandlerRecord
    <3>3. saving' = [h EXCEPT !.reply = "none"]
      BY <2>1, <3>1 DEF Builder!HandlerGoesOn
    <3> QED
      BY <2>1, <3>2, <3>3 DEF HandlerRecord
  <2>2. CASE saving.reply = "ok" /\ saving.stage = "publish"
    <3>1. PICK h : h = [saving EXCEPT !.stage = "draft"]
      OBVIOUS
    <3>2. h \in HandlerRecord /\ h.stage = "draft" /\ h.version = saving.version
          /\ h.questions = saving.questions
      BY <1>2, <3>1 DEF HandlerRecord
    <3>3. saving' = [h EXCEPT !.reply = "none"]
      BY <2>2, <3>1 DEF Builder!HandlerGoesOn
    <3> QED
      BY <2>2, <3>2, <3>3 DEF HandlerRecord
  <2>3. CASE /\ ~(saving.reply = "ok" /\ saving.stage = "save" /\ saving.publish)
             /\ ~(saving.reply = "ok" /\ saving.stage = "publish")
    BY <2>3 DEF Builder!HandlerGoesOn
  <2> QED
    BY <2>1, <2>2, <2>3
<1>6. BuilderTypes' /\ Known'
  <2>1. Made(saving.version) /\ (saving.reply = "ok" => Made(saving.result))
    BY <1>2 DEF BuilderInv, Known
  <2>2. Known'
    BY <1>1, <1>4, <1>5, <2>1 DEF BuilderInv, Known, Made
  <2>3. current' \in 0 .. MaxVersions
    BY <1>1, <2>1, BuilderBounds DEF BuilderInv, BuilderTypes, Made
  <2>4. saving' \in HandlerRecord
    BY <1>4, <1>5
  <2> QED
    BY <1>1, <2>2, <2>3, <2>4 DEF BuilderInv, BuilderTypes
<1>7. Published'
  BY <1>1, <1>4, <1>5 DEF BuilderInv, Published
<1>8. Undisturbed'
  <2>1. Loading'
    BY <1>1, <1>2 DEF BuilderInv, Undisturbed, Loading
  <2>2. current # 0 /\ current' # 0
    BY <1>1, <1>2, BuilderBounds DEF BuilderInv, Undisturbed, Known, Made
  <2>3. spent.failures = 0 /\ ~mixed => Working'
    <3>1. SUFFICES ASSUME spent.failures = 0, ~mixed, Working
                   PROVE  Working'
      BY <2>2 DEF BuilderInv, Undisturbed
    <3>2. saving.reply = "ok"
      BY <1>2, <3>1 DEF Working
    <3>3. CASE saving.stage = "save"
      BY <1>1, <1>4, <1>5, <3>1, <3>2, <3>3 DEF Working, Is
    <3>4. CASE saving.stage = "publish"
      <4>1. saving' # Builder!NoHandler /\ saving'.stage = "draft" /\ saving'.reply = "none"
            /\ saving'.version = saving.version /\ saving'.questions = saving.questions
        <5>1. saving'.stage = "draft"
          <6>1. saving' = [saving EXCEPT !.stage = "draft", !.reply = "none"]
            BY <3>2, <3>4 DEF Builder!HandlerGoesOn
          <6> QED
            BY <1>2, <6>1 DEF HandlerRecord
        <5> QED
          BY <1>4, <1>5, <5>1
      <4> QED
        BY <1>1, <3>1, <3>2, <3>4, <4>1 DEF Working, Is
    <3>5. CASE saving.stage = "draft"
      BY <1>1, <1>4, <1>5, <3>1, <3>2, <3>5 DEF Working, Is
    <3> QED
      BY <1>2, <3>3, <3>4, <3>5
  <2> QED
    BY <1>1, <1>4, <1>5, <2>1, <2>2, <2>3 DEF BuilderInv, Undisturbed
<1> QED
  BY <1>3, <1>6, <1>7, <1>8 DEF BuilderInv

\* A renewal of the token starts a load.
LEMMA RenewedKeeps ==
  ASSUME BuilderInv, Builder!BuilderAssumption, Builder!TokenRenewed
  PROVE  BuilderInv'
<1>1. /\ UNCHANGED <<versions, inUse, current, composition, history, saving, aside, clicked, unsaved,
                     mixed>>
      /\ waiting' = TRUE /\ loading' = loading \cup {Builder!Load}
      /\ spent' = [spent EXCEPT !.renewals = @ + 1]
  BY DEF Builder!TokenRenewed
<1>2. PICK l : l = Builder!Load
  OBVIOUS
<1>3. /\ l \in LoadRecord /\ l.reply = "none"
      /\ ~l.mixed => saving.stage = "idle" /\ aside.action # "delete"
  BY <1>2, ShortCompositions DEF Builder!Load, LoadRecord
<1>4. spent' \in [edits : Nat, ops : Nat, renewals : Nat, failures : Nat]
      /\ spent'.failures = spent.failures
  BY <1>1 DEF BuilderInv, BuilderTypes
<1>5. loading' = loading \cup {l}
  BY <1>1, <1>2
<1>6. BuilderTypes' /\ Known'
  BY <1>1, <1>3, <1>4, <1>5 DEF BuilderInv, BuilderTypes, Known, Made
<1>7. Undisturbed'
  <2>1. Loading'
    BY <1>1, <1>3, <1>5 DEF BuilderInv, Undisturbed, Loading, Is
  <2>2. Working => Working'
    BY <1>1 DEF Working, Is
  <2> QED
    BY <1>1, <1>3, <1>4, <1>5, <2>1, <2>2 DEF BuilderInv, Undisturbed
<1>8. Builder!DeliveredStays'
  BY <1>1, ServerStays DEF BuilderInv
<1> QED
  BY <1>1, <1>6, <1>7, <1>8, VersionsStay

\* A load is served: the draft there is, or one that it makes.
LEMMA BuilderLoadServed ==
  ASSUME BuilderInv, Builder!BuilderAssumption, NEW l \in loading, Builder!ServeLoad(l)
  PROVE  BuilderInv'
<1>1. /\ UNCHANGED <<inUse, current, composition, history, waiting, saving, aside, spent, clicked,
                     unsaved, mixed>>
      /\ l.reply = "none"
  BY DEF Builder!ServeLoad
<1>2. CASE l.stage = "test" /\ UNCHANGED versions /\ Builder!Drafts = {}
           /\ loading' = (loading \ {l}) \cup {[l EXCEPT !.stage = "draft"]}
  <2>1. PICK k : k = [l EXCEPT !.stage = "draft"]
    OBVIOUS
  <2>2. k \in LoadRecord /\ k.reply = "none" /\ k.mixed = l.mixed
    BY <1>1, <2>1 DEF BuilderInv, BuilderTypes, LoadRecord
  <2>3. loading' = (loading \ {l}) \cup {k}
    BY <1>2, <2>1
  <2>4. BuilderTypes' /\ Known'
    BY <1>1, <1>2, <2>2, <2>3 DEF BuilderInv, BuilderTypes, Known, Made
  <2>5. Loading'
    BY <1>1, <1>2, <2>2, <2>3 DEF BuilderInv, Undisturbed, Loading, Is
  <2>6. Working => Working'
    BY <1>1, <1>2 DEF Working, Is
  <2>7. Undisturbed'
    BY <1>1, <2>2, <2>3, <2>5, <2>6 DEF BuilderInv, Undisturbed
  <2>8. Builder!DeliveredStays'
    BY <1>1, <1>2, ServerStays DEF BuilderInv
  <2> QED
    BY <1>1, <1>2, <2>4, <2>7, <2>8, VersionsStay
<1>3. ASSUME NEW v \in Builder!Ids, versions'[v].status = "draft", VersionTypes', Ordered',
             \/ versions' = versions
             \/ Builder!Create(v),
             loading' = (loading \ {l}) \cup
               {[l EXCEPT !.reply = "ok", !.result = v, !.questions = versions'[v].questions]}
      PROVE  BuilderInv'
  <2>1. PICK qs : qs = versions'[v].questions
    OBVIOUS
  <2>2. qs \in Compositions /\ v \in Nat
    BY <1>3, <2>1, BuilderBounds DEF VersionTypes, VersionRow
  <2>3. PICK k : k = [l EXCEPT !.reply = "ok", !.result = v, !.questions = qs]
    OBVIOUS
  <2>4. k \in LoadRecord /\ k.reply = "ok" /\ k.mixed = l.mixed /\ k.result = v
        /\ k.questions = qs
    <3>1. l \in LoadRecord
      BY DEF BuilderInv, BuilderTypes
    <3>2. qs \in Compositions
      BY <2>2
    <3>3. v \in Nat
      BY <2>2
    <3>4. PICK m : m = [l EXCEPT !.reply = "ok"]
      OBVIOUS
    <3>5. m \in LoadRecord /\ m.reply = "ok" /\ m.mixed = l.mixed
      BY <3>1, <3>4 DEF LoadRecord
    <3>6. PICK n : n = [m EXCEPT !.result = v]
      OBVIOUS
    <3>7. n \in LoadRecord /\ n.reply = "ok" /\ n.mixed = l.mixed /\ n.result = v
      BY <3>3, <3>5, <3>6 DEF LoadRecord
    <3>8. k = [n EXCEPT !.questions = qs]
      BY <2>3, <3>4, <3>6
    <3> QED
      BY <3>2, <3>7, <3>8 DEF LoadRecord
  <2>5. loading' = (loading \ {l}) \cup {k}
    BY <1>3, <2>1, <2>3
  <2>6. /\ \A w \in Builder!Ids : versions[w].status # "none" => versions'[w] = versions[w]
        /\ \A w \in Builder!Ids : w # v => versions'[w] = versions[w]
    BY <1>3, CreateKeeps DEF BuilderInv
  <2>7. Builder!DeliveredStays' /\ Published'
    BY <1>1, <1>3, <2>6 DEF BuilderInv, Builder!DeliveredStays, Builder!Existing, Published, Known,
                            Made, BuilderTypes
  <2>8. BuilderTypes'
    BY <1>1, <2>4, <2>5 DEF BuilderInv, BuilderTypes
  <2>9. Known'
    BY <1>1, <1>3, <2>4, <2>5, <2>6 DEF BuilderInv, Known, Made
  <2>10. Loading'
    <3>1. ASSUME NEW m \in loading, ~m.mixed
          PROVE  /\ saving.stage = "idle" /\ aside.action # "delete"
                 /\ m.reply = "ok" => Is(m.result, "draft", m.questions)'
      BY <2>6, <3>1 DEF BuilderInv, Undisturbed, Loading, Is
    <3>2. ~k.mixed => saving.stage = "idle" /\ aside.action # "delete"
      BY <2>4, <3>1
    <3>3. Is(k.result, "draft", k.questions)'
      BY <1>3, <2>1, <2>4 DEF Is
    <3> QED
      BY <1>1, <2>5, <3>1, <3>2, <3>3 DEF Loading
  <2>11. spent.failures = 0 /\ ~mixed /\ current # 0 => Working'
    <3>1. SUFFICES ASSUME Working, current # 0 PROVE Working'
      BY DEF BuilderInv, Undisturbed
    <3>2. Made(current) /\ versions'[current] = versions[current]
      BY <2>6, <3>1 DEF BuilderInv, Known, Made
    <3>3. \A x, q : Is(x, "draft", q) => Is(x, "draft", q)'
      BY <2>6 DEF Is
    <3>4. ASSUME versions[current].status \in {"published", "archived"},
                 versions[current].questions = saving.questions,
                 \A w \in Builder!Ids : w # current /\ versions[w].status \notin {"none", "gone"} =>
                   versions[w].status # "draft" /\ versions[w].number < versions[current].number,
                 versions' # versions
          PROVE  Is(v, "draft", saving.questions)'
      <4>1. PICK q : q = saving.questions
        OBVIOUS
      <4>2. Is(v, "draft", q)'
        BY <1>3, <3>2, <3>4, <4>1, NextDraft DEF BuilderInv, Made
      <4> QED
        BY <1>1, <4>1, <4>2 DEF Is
    <3>5. CASE versions' = versions
      BY <1>1, <3>1, <3>5 DEF Working, Is
    <3>6. CASE versions' # versions
      BY <1>1, <3>1, <3>2, <3>3, <3>4, <3>6 DEF Working, Is
    <3> QED
      BY <3>5, <3>6
  <2>12. Undisturbed'
    BY <1>1, <2>4, <2>5, <2>10, <2>11 DEF BuilderInv, Undisturbed
  <2> QED
    BY <1>3, <2>7, <2>8, <2>9, <2>12 DEF BuilderInv
<1>4. CASE /\ l.stage = "test" /\ UNCHANGED versions /\ Builder!Drafts # {}
           /\ loading' = (loading \ {l}) \cup
                {LET v == CHOOSE d \in Builder!Drafts : \A e \in Builder!Drafts : d <= e
                 IN  [l EXCEPT !.reply = "ok", !.result = v, !.questions = versions[v].questions]}
  <2>1. PICK v : v = CHOOSE d \in Builder!Drafts : \A e \in Builder!Drafts : d <= e
    OBVIOUS
  <2>2. v \in Builder!Drafts
    <3>1. PICK d \in Builder!Drafts : TRUE
      BY <1>4
    <3>2. \A e \in Builder!Drafts : d <= e
      BY <3>1, BuilderBounds DEF BuilderInv, Ordered, Builder!Drafts
    <3> QED
      BY <2>1, <3>1, <3>2
  <2>3. v \in Builder!Ids /\ versions'[v].status = "draft" /\ VersionTypes' /\ Ordered'
    BY <1>1, <1>4, <2>2, ServerStays DEF BuilderInv, Builder!Drafts
  <2>4. loading' = (loading \ {l}) \cup
          {[l EXCEPT !.reply = "ok", !.result = v, !.questions = versions'[v].questions]}
    BY <1>4, <2>1
  <2> QED
    BY <1>3, <1>4, <2>3, <2>4
<1>5. ASSUME NEW v \in Builder!Ids, Builder!Create(v),
             loading' = (loading \ {l}) \cup
               {[l EXCEPT !.reply = "ok", !.result = v, !.questions = versions'[v].questions]}
      PROVE  BuilderInv'
  <2>1. versions'[v].status = "draft" /\ VersionTypes' /\ Ordered'
    BY <1>5, CreateKeeps DEF BuilderInv
  <2> QED
    BY <1>3, <1>5, <2>1
<1> QED
  BY <1>2, <1>4, <1>5 DEF Builder!ServeLoad

\* The page takes the answer to a load.
LEMMA LoadAnsweredKeeps ==
  ASSUME BuilderInv, Builder!BuilderAssumption, NEW l \in loading, Builder!LoadAnswered(l)
  PROVE  BuilderInv'
<1>1. /\ UNCHANGED <<versions, inUse, history, saving, aside, spent, clicked>>
      /\ loading' = loading \ {l} /\ waiting' = FALSE
      /\ \/ /\ l.reply = "ok" /\ current' = l.result /\ composition' = l.questions
            /\ unsaved' = FALSE /\ mixed' = l.mixed
         \/ l.reply # "ok" /\ UNCHANGED <<current, composition, unsaved, mixed>>
  BY DEF Builder!LoadAnswered
<1>2. l \in LoadRecord /\ (l.reply = "ok" => Made(l.result))
  BY DEF BuilderInv, BuilderTypes, Known
<1>3. current' \in 0 .. MaxVersions /\ composition' \in Compositions
      /\ unsaved' \in BOOLEAN /\ mixed' \in BOOLEAN
  <2>1. l.mixed \in BOOLEAN /\ l.questions \in Compositions
    BY <1>2 DEF LoadRecord
  <2>2. unsaved \in BOOLEAN /\ mixed \in BOOLEAN /\ composition \in Compositions
        /\ current \in 0 .. MaxVersions
    BY DEF BuilderInv, BuilderTypes
  <2>3. unsaved' \in BOOLEAN /\ mixed' \in BOOLEAN /\ composition' \in Compositions
    <3>1. CASE l.reply = "ok"
      BY <1>1, <2>1, <3>1, Zenon
    <3>2. CASE l.reply # "ok"
      BY <1>1, <2>2, <3>2, Zenon
    <3> QED
      BY <3>1, <3>2
  <2>4. current' \in 0 .. MaxVersions
    BY <1>1, <1>2, <2>2, BuilderBounds DEF Made
  <2> QED
    BY <2>3, <2>4
<1>4. BuilderTypes' /\ Known'
  BY <1>1, <1>2, <1>3 DEF BuilderInv, BuilderTypes, Known, Made
<1>5. Loading'
  BY <1>1 DEF BuilderInv, Undisturbed, Loading, Is
<1>6. CASE l.reply = "ok"
  <2>1. current' # 0 /\ current' = l.result /\ composition' = l.questions /\ mixed' = l.mixed
        /\ unsaved' = FALSE
    BY <1>1, <1>2, <1>6, BuilderBounds DEF Made
  <2>2. ~l.mixed => Working' /\ aside.action # "delete"
    <3>1. SUFFICES ASSUME ~l.mixed PROVE Working' /\ aside.action # "delete"
      OBVIOUS
    <3>2. /\ saving.stage = "idle" /\ aside.action # "delete"
          /\ Is(l.result, "draft", l.questions)
      BY <1>6, <3>1 DEF BuilderInv, Undisturbed, Loading
    <3>3. saving.reply = "none"
      BY <3>2 DEF BuilderInv, Undisturbed, Builder!NoHandler
    <3> QED
      BY <1>1, <2>1, <3>2, <3>3 DEF Working, Is
  <2>3. Undisturbed'
    BY <1>1, <1>5, <2>1, <2>2 DEF BuilderInv, Undisturbed
  <2> QED
    BY <1>1, <1>4, <2>3, ServerStays, VersionsStay DEF BuilderInv
<1>7. CASE l.reply # "ok"
  <2>1. UNCHANGED <<current, composition, unsaved, mixed>>
    BY <1>1, <1>7
  <2>2. Working => Working'
    BY <1>1, <2>1 DEF Working, Is
  <2>3. Undisturbed'
    BY <1>1, <1>5, <2>1, <2>2 DEF BuilderInv, Undisturbed
  <2> QED
    BY <1>1, <1>4, <2>3, ServerStays, VersionsStay DEF BuilderInv
<1> QED
  BY <1>6, <1>7

\* A list without repetition is a composition.
LEMMA InCompositions ==
  ASSUME NEW s \in Seq(Pool), \A i, j \in 1 .. Len(s) : s[i] = s[j] => i = j
  PROVE  s \in Compositions
  BY DEF Compositions

\* What the composer makes of a composition.
LEMMA Composed ==
  ASSUME NEW s \in Compositions
  PROVE  /\ \A q \in Pool : q \notin Builder!ToSet(s) => Append(s, q) \in Compositions
         /\ \A i \in DOMAIN s : Builder!RemoveAt(s, i) \in Compositions
         /\ \A i \in 1 .. (Len(s) - 1) :
              [s EXCEPT ![i] = s[i + 1], ![i + 1] = s[i]] \in Compositions
<1>1. s \in Seq(Pool) /\ \A i, j \in 1 .. Len(s) : s[i] = s[j] => i = j
  BY DEF Compositions
<1>2. ASSUME NEW q \in Pool, q \notin Builder!ToSet(s)
      PROVE  Append(s, q) \in Compositions
  <2>1. \A i \in 1 .. Len(s) : s[i] # q
    BY <1>1, <1>2 DEF Builder!ToSet
  <2>2. /\ Append(s, q) \in Seq(Pool) /\ Len(Append(s, q)) = Len(s) + 1
        /\ \A i \in 1 .. Len(s) : Append(s, q)[i] = s[i]
        /\ Append(s, q)[Len(s) + 1] = q
    BY <1>1
  <2>3. PICK r : r = Append(s, q)
    OBVIOUS
  <2>4. \A j, k \in 1 .. Len(r) : r[j] = r[k] => j = k
    BY <1>1, <2>1, <2>2, <2>3
  <2>5. r \in Compositions
    BY <2>2, <2>3, <2>4, InCompositions
  <2> QED
    BY <2>3, <2>5
<1>3. ASSUME NEW i \in DOMAIN s
      PROVE  Builder!RemoveAt(s, i) \in Compositions
  <2>1. i \in 1 .. Len(s)
    BY <1>1, <1>3
  <2>2. PICK a : a = SubSeq(s, 1, i - 1)
    OBVIOUS
  <2>3. PICK b : b = SubSeq(s, i + 1, Len(s))
    OBVIOUS
  <2>4. /\ a \in Seq(Pool) /\ Len(a) = i - 1
        /\ \A j \in 1 .. (i - 1) : a[j] = s[j]
    BY <1>1, <2>1, <2>2
  <2>5. /\ b \in Seq(Pool) /\ Len(b) = Len(s) - i
        /\ \A j \in 1 .. (Len(s) - i) : b[j] = s[i + j]
    BY <1>1, <2>1, <2>3
  <2>6. PICK r : r = a \o b
    OBVIOUS
  <2>7. /\ r \in Seq(Pool) /\ Len(r) = Len(s) - 1
        /\ \A j \in 1 .. Len(r) : r[j] = IF j < i THEN s[j] ELSE s[j + 1]
    <3>1. i \in Nat /\ Len(s) \in Nat /\ i >= 1 /\ i <= Len(s)
      BY <1>1, <2>1
    <3>2. r \in Seq(Pool) /\ Len(r) = Len(a) + Len(b)
      <4>1. a \in Seq(Pool) /\ b \in Seq(Pool)
        BY <2>4, <2>5
      <4>2. r \in Seq(Pool)
        BY <2>6, <4>1
      <4>3. Len(r) = Len(a) + Len(b)
        BY <2>6, <4>1
      <4> QED
        BY <4>2, <4>3
    <3>3. \A j \in 1 .. Len(r) : r[j] = IF j <= Len(a) THEN a[j] ELSE b[j - Len(a)]
      BY <2>4, <2>5, <2>6
    <3>4. Len(r) = Len(s) - 1
      BY <2>4, <2>5, <3>1, <3>2
    <3>5. ASSUME NEW j \in 1 .. Len(r)
          PROVE  r[j] = IF j < i THEN s[j] ELSE s[j + 1]
      <4>1. CASE j < i
        <5>1. j \in 1 .. (i - 1) /\ j <= Len(a)
          BY <2>4, <3>1, <3>4, <4>1
        <5> QED
          BY <2>4, <3>3, <4>1, <5>1
      <4>2. CASE ~(j < i)
        <5>1. j \in Int /\ j >= i /\ j <= Len(s) - 1
          BY <3>1, <3>4, <4>2
        <5>2. j - Len(a) \in 1 .. (Len(s) - i) /\ ~(j <= Len(a)) /\ i + (j - Len(a)) = j + 1
          BY <2>4, <3>1, <5>1
        <5>3. r[j] = b[j - Len(a)]
          BY <3>3, <5>2
        <5>4. b[j - Len(a)] = s[i + (j - Len(a))]
          BY <2>5, <5>2
        <5> QED
          BY <4>2, <5>2, <5>3, <5>4
      <4> QED
        BY <4>1, <4>2
    <3> QED
      BY <3>2, <3>4, <3>5
  <2>8. \A j, k \in 1 .. Len(r) : r[j] = r[k] => j = k
    BY <1>1, <2>1, <2>7
  <2>9. r \in Compositions
    BY <2>7, <2>8, InCompositions
  <2> QED
    BY <2>2, <2>3, <2>6, <2>9 DEF Builder!RemoveAt
<1>4. ASSUME NEW i \in 1 .. (Len(s) - 1)
      PROVE  [s EXCEPT ![i] = s[i + 1], ![i + 1] = s[i]] \in Compositions
  <2>1. PICK r : r = [s EXCEPT ![i] = s[i + 1], ![i + 1] = s[i]]
    OBVIOUS
  <2>2. PICK h : h = [s EXCEPT ![i] = s[i + 1]]
    OBVIOUS
  <2>3. i \in 1 .. Len(s) /\ i + 1 \in 1 .. Len(s) /\ i # i + 1
    BY <1>1
  <2>4. h \in Seq(Pool) /\ Len(h) = Len(s) /\ \A j \in 1 .. Len(s) : h[j] = IF j = i THEN s[i + 1] ELSE s[j]
    BY <1>1, <2>2, <2>3
  <2>5. r = [h EXCEPT ![i + 1] = s[i]]
    BY <2>1, <2>2
  <2>6. r \in Seq(Pool) /\ Len(r) = Len(s)
        /\ \A j \in 1 .. Len(s) : r[j] = IF j = i + 1 THEN s[i] ELSE IF j = i THEN s[i + 1] ELSE s[j]
    BY <1>1, <2>3, <2>4, <2>5
  <2>7. \A j, k \in 1 .. Len(r) : r[j] = r[k] => j = k
    BY <1>1, <2>3, <2>6
  <2> QED
    BY <2>1, <2>6, <2>7 DEF Compositions
<1> QED
  BY <1>2, <1>3, <1>4

\* The composition is edited.
LEMMA ComposeKeeps ==
  ASSUME BuilderInv, Builder!BuilderAssumption, Builder!Compose
  PROVE  BuilderInv'
<1>1. PICK s \in Compositions : Builder!Edit(s)
  <2>1. composition \in Compositions
    BY DEF BuilderInv, BuilderTypes
  <2>2. \/ \E q \in Pool : q \notin Builder!ToSet(composition) /\ Builder!Edit(Append(composition, q))
        \/ \E i \in DOMAIN composition : Builder!Edit(Builder!RemoveAt(composition, i))
        \/ \E i \in 1 .. (Len(composition) - 1) :
             Builder!Edit([composition EXCEPT ![i] = composition[i + 1], ![i + 1] = composition[i]])
    BY DEF Builder!Compose, Builder!AddQuestion, Builder!RemoveQuestion, Builder!MoveQuestion
  <2> QED
    BY <2>1, <2>2, Composed
<1>2. /\ UNCHANGED <<versions, inUse, current, history, waiting, saving, loading, aside, clicked, mixed>>
      /\ composition' = s /\ unsaved' = TRUE /\ spent' = [spent EXCEPT !.edits = @ + 1]
  BY <1>1 DEF Builder!Edit
<1>3. spent' \in [edits : Nat, ops : Nat, renewals : Nat, failures : Nat]
      /\ spent'.failures = spent.failures
  BY <1>2 DEF BuilderInv, BuilderTypes
<1>4. BuilderTypes' /\ Known'
  BY <1>1, <1>2, <1>3 DEF BuilderInv, BuilderTypes, Known, Made
<1>5. Working => Working'
  BY <1>2 DEF Working, Is
<1>6. Undisturbed'
  BY <1>2, <1>3, <1>5 DEF BuilderInv, Undisturbed, Loading, Is
<1> QED
  BY <1>2, <1>4, <1>6, ServerStays, VersionsStay DEF BuilderInv

\* The history is shown, or shown again after an action.
LEMMA HistoryKeeps ==
  ASSUME BuilderInv, Builder!BuilderAssumption, Builder!OpenHistory \/ Builder!ActionDone
  PROVE  BuilderInv'
<1>1. /\ UNCHANGED <<versions, inUse, current, composition, waiting, saving, loading, spent, clicked,
                     unsaved, mixed>>
      /\ aside' = Builder!NoAside \/ aside' = aside
      /\ history' = {[id |-> v, status |-> versions[v].status, used |-> v \in inUse] :
                       v \in Builder!Existing}
  BY DEF Builder!OpenHistory, Builder!ActionDone
<1>2. \A row \in history' : Made(row.id)
  BY <1>1 DEF Builder!Existing, Made
<1>3. /\ aside' \in [action : {"none", "archive", "restore", "delete"}, version : Nat,
                     reply : {"none", "answered"}]
      /\ aside'.action = "none" => aside' = Builder!NoAside
      /\ aside'.action # "none" => aside' = aside
  BY <1>1 DEF BuilderInv, BuilderTypes, Builder!NoAside
<1>4. BuilderTypes' /\ Known'
  BY <1>1, <1>2, <1>3 DEF BuilderInv, BuilderTypes, Known, Made
<1>5. Working => Working'
  BY <1>1 DEF Working, Is
<1>6. Undisturbed'
  BY <1>1, <1>3, <1>5 DEF BuilderInv, Undisturbed, Loading, Is
<1> QED
  BY <1>1, <1>4, <1>6, ServerStays, VersionsStay DEF BuilderInv

\* A row of the history is acted on.
LEMMA ActKeeps ==
  ASSUME BuilderInv, Builder!BuilderAssumption, NEW row \in history, Builder!ActOnVersion(row)
  PROVE  BuilderInv'
<1>1. PICK action \in {"archive", "restore", "delete"} :
        /\ aside' = [Builder!NoAside EXCEPT !.action = action, !.version = row.id]
        /\ mixed' = (mixed \/ action = "delete")
        /\ loading' = {[l EXCEPT !.mixed = @ \/ action = "delete"] : l \in loading}
  BY DEF Builder!ActOnVersion
<1>2. /\ UNCHANGED <<versions, inUse, current, composition, history, waiting, saving, clicked, unsaved>>
      /\ spent' = [spent EXCEPT !.ops = @ + 1]
  BY DEF Builder!ActOnVersion
<1>3. Made(row.id) /\ row.id \in Nat
  BY BuilderBounds DEF BuilderInv, Known, Made
<1>4. /\ aside' \in [action : {"none", "archive", "restore", "delete"}, version : Nat,
                     reply : {"none", "answered"}]
      /\ aside'.action = action /\ aside'.version = row.id
  <2>1. PICK a : a = [Builder!NoAside EXCEPT !.action = action]
    OBVIOUS
  <2>2. a = [action |-> action, version |-> 0, reply |-> "none"]
    BY <2>1 DEF Builder!NoAside
  <2>3. aside' = [a EXCEPT !.version = row.id]
    BY <1>1, <2>1
  <2> QED
    BY <1>3, <2>2, <2>3
<1>5. /\ loading' \subseteq LoadRecord
      /\ \A k \in loading' : \E l \in loading :
           /\ k.reply = l.reply /\ k.result = l.result /\ k.questions = l.questions
           /\ ~k.mixed => ~l.mixed /\ action # "delete"
  <2>1. PICK B \in BOOLEAN : B = (action = "delete")
    OBVIOUS
  <2>2. loading' = {[l EXCEPT !.mixed = @ \/ B] : l \in loading}
    BY <1>1, <2>1
  <2>3. loading \subseteq LoadRecord
    BY DEF BuilderInv, BuilderTypes
  <2>4. /\ loading' \subseteq LoadRecord
        /\ \A k \in loading' : \E l \in loading :
             /\ k.reply = l.reply /\ k.result = l.result /\ k.questions = l.questions
             /\ ~k.mixed => ~l.mixed /\ ~B
    BY <2>2, <2>3, LoadsMarked
  <2>5. ~B => action # "delete"
    BY <2>1, Zenon
  <2> QED
    BY <2>4, <2>5, Zenon
<1>6. spent' \in [edits : Nat, ops : Nat, renewals : Nat, failures : Nat]
      /\ spent'.failures = spent.failures
  BY <1>2 DEF BuilderInv, BuilderTypes
<1>7. mixed' \in BOOLEAN /\ (~mixed' => ~mixed /\ action # "delete")
  BY <1>1 DEF BuilderInv, BuilderTypes
<1>8. BuilderTypes' /\ Known'
  <2>1. BuilderTypes'
    BY <1>2, <1>4, <1>5, <1>6, <1>7 DEF BuilderInv, BuilderTypes
  <2>2. Known'
    BY <1>2, <1>3, <1>4, <1>5 DEF BuilderInv, Known, Made
  <2> QED
    BY <2>1, <2>2
<1>9. Undisturbed'
  <2>1. Loading'
    BY <1>2, <1>4, <1>5 DEF BuilderInv, Undisturbed, Loading, Is
  <2>2. Working => Working'
    BY <1>2 DEF Working, Is
  <2> QED
    BY <1>2, <1>4, <1>5, <1>6, <1>7, <2>1, <2>2 DEF BuilderInv, Undisturbed
<1> QED
  BY <1>2, <1>8, <1>9, ServerStays, VersionsStay DEF BuilderInv

\* The action is served: archived, restored, deleted unless it is used.
LEMMA ActionServedKeeps ==
  ASSUME BuilderInv, Builder!BuilderAssumption, Builder!ServeAction
  PROVE  BuilderInv'
<1>1. /\ UNCHANGED <<inUse, current, composition, history, waiting, saving, loading, spent, clicked,
                     unsaved, mixed>>
      /\ aside' = [aside EXCEPT !.reply = "answered"] /\ aside.action # "none"
  BY DEF Builder!ServeAction
<1> DEFINE v == aside.version
<1>2. v \in Builder!Ids /\ versions[v].status # "none"
  BY <1>1 DEF BuilderInv, Known, Made
<1>3. /\ aside' \in [action : {"none", "archive", "restore", "delete"}, version : Nat,
                     reply : {"none", "answered"}]
      /\ aside'.action = aside.action /\ aside'.version = v
  BY <1>1 DEF BuilderInv, BuilderTypes
<1>4. VersionRow(versions[v])
  BY <1>2 DEF BuilderInv, VersionTypes
<1>5. PICK row : /\ VersionRow(row) /\ versions' = [versions EXCEPT ![v] = row]
                 /\ \/ row = versions[v]
                    \/ /\ versions[v].status \in {"published", "archived"}
                       /\ row.status \in {"published", "archived"}
                       /\ row.number = versions[v].number
                       /\ row.questions = versions[v].questions
                    \/ aside.action = "delete" /\ v \notin inUse /\ row = Builder!Deleted
  <2>1. CASE aside.action = "archive" /\ versions[v].status = "published"
    <3>1. PICK row : row = [versions[v] EXCEPT !.status = "archived"]
      OBVIOUS
    <3>2. /\ VersionRow(row) /\ row.status = "archived" /\ row.number = versions[v].number
          /\ row.questions = versions[v].questions
      BY <1>4, <3>1 DEF VersionRow
    <3>3. versions' = [versions EXCEPT ![v] = row]
      BY <2>1, <3>1 DEF Builder!ServeAction
    <3> QED
      BY <2>1, <3>2, <3>3
  <2>2. CASE aside.action = "restore" /\ versions[v].status = "archived"
    <3>1. PICK row : row = [versions[v] EXCEPT !.status = "published"]
      OBVIOUS
    <3>2. /\ VersionRow(row) /\ row.status = "published" /\ row.number = versions[v].number
          /\ row.questions = versions[v].questions
      BY <1>4, <3>1 DEF VersionRow
    <3>3. versions' = [versions EXCEPT ![v] = row]
      BY <2>2, <3>1 DEF Builder!ServeAction
    <3> QED
      BY <2>2, <3>2, <3>3
  <2>3. CASE aside.action = "delete" /\ v \notin inUse
    BY <2>3, BuilderBounds DEF Builder!ServeAction
  <2>4. CASE /\ ~(aside.action = "archive" /\ versions[v].status = "published")
             /\ ~(aside.action = "restore" /\ versions[v].status = "archived")
             /\ ~(aside.action = "delete" /\ v \notin inUse)
    <3>1. versions' = versions
      BY <2>4 DEF Builder!ServeAction
    <3>2. versions' = [versions EXCEPT ![v] = versions[v]]
      BY <1>2, <3>1 DEF BuilderInv, VersionTypes
    <3> QED
      BY <1>4, <3>2
  <2> QED
    BY <2>1, <2>2, <2>3, <2>4
<1>6. /\ VersionTypes' /\ versions'[v] = row
      /\ \A w \in Builder!Ids \ {v} : versions'[w] = versions[w]
  BY <1>2, <1>5, RowWritten DEF BuilderInv
<1>7. \A w \in Builder!Ids :
        \/ versions'[w] = versions[w]
        \/ /\ versions[w].status \in {"published", "archived"}
           /\ versions'[w].status \in {"published", "archived"}
           /\ versions'[w].number = versions[w].number
           /\ versions'[w].questions = versions[w].questions
        \/ /\ aside.action = "delete" /\ w \notin inUse /\ versions'[w] = Builder!Deleted
           /\ versions[w].status # "none"
  BY <1>2, <1>5, <1>6
<1>8. Ordered'
  <2>0. \A w \in Builder!Ids : versions[w].number \in Nat
    BY DEF BuilderInv, VersionTypes, VersionRow
  <2>1. \A u, w \in Builder!Ids : versions'[u].status = "none" /\ u < w => versions'[w].status = "none"
    BY <1>7, BuilderBounds DEF BuilderInv, Ordered
  <2>2. \A u \in Builder!Ids : versions'[u].number <= u
    BY <1>7, BuilderBounds DEF BuilderInv, Ordered
  <2>3. \A d, w \in Builder!Ids :
          /\ versions'[d].status = "draft" /\ versions'[w].status \notin {"none", "gone"}
          /\ d # w
          => versions'[w].status # "draft" /\ versions'[w].number < versions'[d].number
    BY <1>7, BuilderBounds DEF BuilderInv, Ordered
  <2> QED
    BY <2>1, <2>2, <2>3 DEF Ordered
<1>9. Builder!DeliveredStays'
  BY <1>1, <1>7 DEF BuilderInv, Builder!DeliveredStays, Builder!Existing
<1>10. BuilderTypes'
  BY <1>1, <1>3 DEF BuilderInv, BuilderTypes
<1>11. Known'
  BY <1>1, <1>3, <1>7, BuilderBounds DEF BuilderInv, Known, Made
<1>12. Published'
  <2>1. \A w \in Builder!Ids : versions'[w].status \in {"published", "archived"} /\ clicked'[w] # <<>>
          => versions'[w].questions = clicked'[w]
    BY <1>1, <1>7, BuilderBounds DEF BuilderInv, Published
  <2>2. saving.stage # "idle" => saving.version \in Builder!Ids
    BY DEF BuilderInv, Known, Made
  <2> QED
    BY <1>1, <1>7, <2>1, <2>2, BuilderBounds DEF BuilderInv, Published
<1>13. Undisturbed'
  <2>1. aside.action # "delete" => \A w \in Builder!Ids :
          /\ versions[w].status \notin {"published", "archived"} => versions'[w] = versions[w]
          /\ versions[w].status \in {"published", "archived"} =>
               versions'[w].status \in {"published", "archived"}
          /\ versions'[w].number = versions[w].number
          /\ versions'[w].questions = versions[w].questions
    BY <1>7
  <2>2. Loading'
    BY <1>1, <1>3, <2>1 DEF BuilderInv, Undisturbed, Loading, Is
  <2>3. spent.failures = 0 /\ ~mixed /\ current # 0 => Working'
    <3>1. SUFFICES ASSUME Working, aside.action # "delete", current # 0 PROVE Working'
      BY DEF BuilderInv, Undisturbed
    <3>2. current \in Builder!Ids
      BY <3>1 DEF BuilderInv, Known, Made
    <3>3. \A x, q : Is(x, "draft", q) => Is(x, "draft", q)'
      BY <2>1, <3>1 DEF Is
    <3>4. versions[current].status = "draft" => versions'[current] = versions[current]
      BY <2>1, <3>1, <3>2
    <3>5. /\ versions[current].status \in {"published", "archived"}
          /\ versions[current].questions = saving.questions
          /\ \A w \in Builder!Ids : w # current /\ versions[w].status \notin {"none", "gone"} =>
               versions[w].status # "draft" /\ versions[w].number < versions[current].number
          => /\ versions'[current].status \in {"published", "archived"}
             /\ versions'[current].questions = saving.questions
             /\ \A w \in Builder!Ids : w # current /\ versions'[w].status \notin {"none", "gone"} =>
                  versions'[w].status # "draft" /\ versions'[w].number < versions'[current].number
      BY <2>1, <3>1, <3>2
    <3> QED
      BY <1>1, <3>1, <3>3, <3>4, <3>5 DEF Working, Is
  <2> QED
    BY <1>1, <1>3, <2>2, <2>3 DEF BuilderInv, Undisturbed
<1> QED
  BY <1>6, <1>8, <1>9, <1>10, <1>11, <1>12, <1>13 DEF BuilderInv

\* A request of the page fails.
LEMMA FailKeeps ==
  ASSUME BuilderInv, Builder!BuilderAssumption, Builder!Fail
  PROVE  BuilderInv'
<1>1. /\ UNCHANGED <<versions, inUse, current, composition, history, waiting, aside, clicked,
                     unsaved, mixed>>
      /\ spent' = [spent EXCEPT !.failures = @ + 1]
  BY DEF Builder!Fail
<1>2. spent' \in [edits : Nat, ops : Nat, renewals : Nat, failures : Nat] /\ spent'.failures # 0
  BY <1>1 DEF BuilderInv, BuilderTypes
<1>3. VersionTypes' /\ Ordered' /\ Builder!DeliveredStays'
  BY <1>1, ServerStays DEF BuilderInv
<1>4. CASE /\ saving.stage # "idle" /\ saving' = [saving EXCEPT !.reply = "error"]
           /\ UNCHANGED loading
  <2>1. /\ saving' \in HandlerRecord /\ saving'.reply = "error" /\ saving'.stage = saving.stage
        /\ saving'.version = saving.version /\ saving'.questions = saving.questions
    BY <1>4 DEF BuilderInv, BuilderTypes, HandlerRecord
  <2>2. BuilderTypes' /\ Known'
    BY <1>1, <1>2, <1>4, <2>1 DEF BuilderInv, BuilderTypes, Known, Made
  <2>3. Published'
    BY <1>1, <2>1 DEF BuilderInv, Published
  <2>4. Undisturbed'
    BY <1>1, <1>2, <1>4, <2>1 DEF BuilderInv, Undisturbed, Loading, Is
  <2> QED
    BY <1>3, <2>2, <2>3, <2>4 DEF BuilderInv
<1>5. ASSUME NEW l \in loading, UNCHANGED saving,
             loading' = (loading \ {l}) \cup {[l EXCEPT !.reply = "error"]}
      PROVE  BuilderInv'
  <2>1. PICK k : k = [l EXCEPT !.reply = "error"]
    OBVIOUS
  <2>2. k \in LoadRecord /\ k.reply = "error" /\ k.mixed = l.mixed
    BY <2>1 DEF BuilderInv, BuilderTypes, LoadRecord
  <2>3. loading' = (loading \ {l}) \cup {k}
    BY <1>5, <2>1
  <2>4. BuilderTypes' /\ Known'
    BY <1>1, <1>2, <1>5, <2>2, <2>3 DEF BuilderInv, BuilderTypes, Known, Made
  <2>5. Undisturbed'
    BY <1>1, <1>2, <1>5, <2>2, <2>3 DEF BuilderInv, Undisturbed, Loading, Is
  <2> QED
    BY <1>1, <1>3, <1>5, <2>4, <2>5, VersionsStay
<1> QED
  BY <1>4, <1>5 DEF Builder!Fail

\* Every step keeps the inductive invariant.
LEMMA BuilderStep ==
  ASSUME BuilderInv, Builder!BuilderAssumption, [Builder!Next]_Builder!builderVars
  PROVE  BuilderInv'
<1>1. CASE Builder!Next
  <2>1. CASE Builder!ServeHandler
    BY <2>1, SaveServedKeeps, PublishServedKeeps, DraftServedKeeps DEF Builder!ServeHandler
  <2> QED
    BY <1>1, <2>1, DeliverKeeps, ClickKeeps, HandlerGoesOnKeeps, RenewedKeeps, BuilderLoadServed,
       LoadAnsweredKeeps, ComposeKeeps, HistoryKeeps, ActKeeps, ActionServedKeeps, FailKeeps
       DEF Builder!Next
<1>2. CASE UNCHANGED Builder!builderVars
  <2>1. UNCHANGED <<versions, inUse, current, composition, history, saving, loading, waiting, aside,
                    spent, clicked, unsaved, mixed>>
    BY <1>2 DEF Builder!builderVars, Builder!builderPage
  <2>2. BuilderTypes' /\ Known'
    BY <2>1 DEF BuilderInv, BuilderTypes, Known, Made
  <2>3. Undisturbed'
    BY <2>1 DEF BuilderInv, Undisturbed, Loading, Working, Is
  <2> QED
    BY <2>1, <2>2, <2>3, ServerStays, VersionsStay DEF BuilderInv
<1> QED
  BY <1>1, <1>2

\* The inductive invariant: versions are numbered as they are made and a draft is the last,
\* what a publication publishes has been saved, and as long as no request has failed and no
\* load has met a save or a deletion, the page is at the draft or its handler on the way to
\* the next one.
THEOREM BuilderAlwaysCoherent ==
  ASSUME Builder!BuilderAssumption PROVE Builder!Spec => []BuilderInv
<1>1. Builder!Init => BuilderInv
  BY BuilderStart
<1>2. BuilderInv /\ [Builder!Next]_Builder!builderVars => BuilderInv'
  BY BuilderStep
<1> QED
  BY <1>1, <1>2, PTL DEF Builder!Spec

\* Every variable keeps to its domain, there is one draft whichever loads and publications
\* ask for the next one, and a version with deliveries stays.
THEOREM VersionsAreAlwaysKept ==
  ASSUME Builder!BuilderAssumption
  PROVE  Builder!Spec => [](Builder!TypeOK /\ Builder!OneDraft /\ Builder!DeliveredStays)
<1>1. BuilderInv => Builder!TypeOK
  <2> SUFFICES ASSUME BuilderInv PROVE Builder!TypeOK
    OBVIOUS
  <2>1. \A s \in Compositions : Builder!IsInjective(s) /\ Builder!ToSet(s) \subseteq Pool
    BY DEF Compositions, Builder!IsInjective, Builder!ToSet
  <2>2. \A v \in Builder!Ids :
          /\ versions[v].status \in {"none", "draft", "published", "archived", "gone"}
          /\ Builder!ToSet(versions[v].questions) \subseteq Pool
    BY <2>1 DEF BuilderInv, VersionTypes, VersionRow
  <2> QED
    BY <2>1, <2>2 DEF BuilderInv, BuilderTypes, Builder!TypeOK, HandlerRecord
<1>2. ASSUME BuilderInv, Builder!BuilderAssumption PROVE Builder!OneDraft
  <2>1. \A d, e \in Builder!Drafts : d = e
    BY <1>2 DEF BuilderInv, Ordered, Builder!Drafts
  <2>2. CASE Builder!Drafts = {}
    BY <2>2, FS_EmptySet DEF Builder!OneDraft, Builder!Cardinality, Cardinality
  <2>3. ASSUME NEW d \in Builder!Drafts
        PROVE  Builder!OneDraft
    <3>1. Builder!Drafts = {d}
      BY <2>1
    <3>2. Builder!Cardinality({d}) = Cardinality({d})
      BY DEF Builder!Cardinality, Cardinality
    <3>3. Cardinality({d}) = 1
      BY FS_Singleton
    <3>4. Builder!Cardinality(Builder!Drafts) = 1
      BY <3>1, <3>2, <3>3
    <3> QED
      BY <3>4 DEF Builder!OneDraft
  <2> QED
    BY <2>2, <2>3
<1>3. BuilderInv => Builder!DeliveredStays
  BY DEF BuilderInv
<1> QED
  BY <1>1, <1>2, <1>3, BuilderAlwaysCoherent, PTL

\* What a publication publishes is the composition that the page showed when Publish was
\* clicked, whatever is edited, loaded, lost or retried meanwhile.
THEOREM AlwaysPublishedAsClicked ==
  ASSUME Builder!BuilderAssumption PROVE Builder!Spec => []Builder!PublishedAsClicked
<1>1. BuilderInv => Builder!PublishedAsClicked
  BY DEF BuilderInv, Published, Builder!PublishedAsClicked
<1> QED
  BY <1>1, BuilderAlwaysCoherent, PTL

\* With nothing under way the page works on the draft, and shows what it holds unless edited,
\* as long as no request failed and the load it took met neither a save nor a deletion.
THEOREM QuietPageIsAlwaysDraft ==
  ASSUME Builder!BuilderAssumption PROVE Builder!Spec => []Builder!QuietPageIsDraft
<1>1. ASSUME BuilderInv, Builder!BuilderAssumption PROVE Builder!QuietPageIsDraft
  <2>1. current \in Builder!Existing => current # 0
    BY BuilderBounds DEF Builder!Existing
  <2>2. saving = Builder!NoHandler => saving.stage = "idle"
    BY DEF Builder!NoHandler
  <2> QED
    BY <1>1, <2>1, <2>2 DEF BuilderInv, Undisturbed, Working, Builder!QuietPageIsDraft
<1> QED
  BY <1>1, BuilderAlwaysCoherent, PTL

-----------------------------------------------------------------------------
(* The categories of the questions, for any number of categories, gestures, requests and *)
(* losses: the parents that moves, deletions and merges leave.                           *)

CONSTANTS Categories, FirstParents, FirstHome, MaxGestures, MaxRequests, MaxFailed
VARIABLES parents, home, forest, panel, requests, stale, merged, deleted, tally

\* The page of the categories that the questions are in.
Tree == INSTANCE CategoriesPage WITH MaxLost <- MaxFailed

\* The parent that a category has, and those that are no row.
Parents == [Categories -> Categories \cup {Tree!Root, Tree!Gone, Tree!Unborn}]

\* A parent is there, as its foreign key wants it.
Parented(t) ==
  t \in Parents /\ \A c \in Tree!There(t) : t[c] \in Tree!There(t) \cup {Tree!Root}

\* No categories have all their parents among themselves: there is no cycle.
Grounded(t) ==
  \A S \in SUBSET Tree!There(t) : S # {} => \E c \in S : t[c] \notin S

\* The first steps of the way up from a category.
Walk(t, c, n, up) ==
  /\ up = [k \in 0 .. n |-> up[k]]
  /\ up[0] = c
  /\ \A k \in 1 .. n : up[k] = IF up[k - 1] = Tree!Root THEN Tree!Root ELSE t[up[k - 1]]

LEMMA Numbers ==
  ASSUME Tree!CategoryAssumption
  PROVE  /\ Categories \subseteq Nat \ {0} /\ IsFiniteSet(Categories)
         /\ Tree!Cardinality(Categories) = Cardinality(Categories)
         /\ Cardinality(Categories) \in Nat
         /\ Tree!Root = 0 /\ Tree!Gone = -1 /\ Tree!Unborn = -2
<1>1. IsFiniteSet(Categories)
  BY DEF Tree!CategoryAssumption, Tree!IsFiniteSet, IsFiniteSet
<1>2. Tree!Cardinality(Categories) = Cardinality(Categories)
  BY DEF Tree!Cardinality, Cardinality
<1>3. Cardinality(Categories) \in Nat
  BY <1>1, FS_CardinalityType
<1> QED
  BY <1>1, <1>2, <1>3 DEF Tree!CategoryAssumption, Tree!Root, Tree!Gone, Tree!Unborn

\* The way up can be walked as far as one likes.
LEMMA WalkExists ==
  ASSUME NEW t, NEW c, NEW n \in Nat
  PROVE  \E up : Walk(t, c, n, up)
<1> DEFINE S == {m \in Nat : ~ \E up : Walk(t, c, m, up)}
<1>1. SUFFICES ASSUME S # {} PROVE FALSE
  OBVIOUS
<1>2. PICK m \in S : \A l \in S : m <= l
  BY <1>1, LeastElement
<1>3. CASE m = 0
  <2> DEFINE up == [k \in 0 .. 0 |-> c]
  <2>1. Walk(t, c, 0, up)
    BY DEF Walk
  <2> QED
    BY <1>2, <1>3, <2>1
<1>4. CASE m # 0
  <2>1. m - 1 \in Nat /\ m - 1 \notin S
    BY <1>2, <1>4
  <2>2. PICK up : Walk(t, c, m - 1, up)
    BY <2>1
  <2> DEFINE step == IF up[m - 1] = Tree!Root THEN Tree!Root ELSE t[up[m - 1]]
             more == [k \in 0 .. m |-> IF k = m THEN step ELSE up[k]]
  <2>3. more = [k \in 0 .. m |-> more[k]] /\ more[0] = c
    BY <1>2, <1>4, <2>2 DEF Walk
  <2>4. ASSUME NEW k \in 1 .. m
        PROVE  more[k] = IF more[k - 1] = Tree!Root THEN Tree!Root ELSE t[more[k - 1]]
    <3>1. k - 1 \in 0 .. m /\ k \in 0 .. m /\ k - 1 # m
      BY <1>2
    <3>2. more[k - 1] = up[k - 1]
      BY <3>1
    <3>3. CASE k = m
      BY <3>1, <3>2, <3>3
    <3>4. CASE k # m
      <4>1. k \in 1 .. (m - 1)
        BY <1>2, <3>4
      <4> QED
        BY <2>2, <3>1, <3>2, <3>4, <4>1 DEF Walk
    <3> QED
      BY <3>3, <3>4
  <2>5. Walk(t, c, m, more)
    <3> HIDE DEF more
    <3> QED
      BY <2>3, <2>4 DEF Walk
  <2> QED
    BY <1>2, <2>5
<1> QED
  BY <1>3, <1>4

\* What is above a category is what the way up passes.
LEMMA ChainIsWalk ==
  ASSUME Tree!CategoryAssumption, NEW t, NEW c
  PROVE  \E up : /\ Walk(t, c, Cardinality(Categories), up)
                 /\ Tree!Chain(t, c) = {up[k] : k \in 0 .. Cardinality(Categories)}
<1> DEFINE n == Cardinality(Categories)
           Def(up) == up = [k \in 0 .. n |->
                             IF k = 0 THEN c
                             ELSE IF up[k - 1] = Tree!Root THEN Tree!Root ELSE t[up[k - 1]]]
<1>1. n \in Nat
  BY Numbers
<1>2. PICK w : Walk(t, c, n, w)
  BY <1>1, WalkExists
<1>3. Def(w)
  <2>1. \A k \in 0 .. n : w[k] = IF k = 0 THEN c
                               ELSE IF w[k - 1] = Tree!Root THEN Tree!Root ELSE t[w[k - 1]]
    <3>1. \A k \in 0 .. n : k = 0 \/ k \in 1 .. n
      BY <1>1
    <3> QED
      BY <1>2, <3>1 DEF Walk
  <2> QED
    BY <1>2, <2>1 DEF Walk
<1>4. PICK up : up = (CHOOSE f : Def(f)) /\ Def(up)
  BY <1>3
<1>5. Tree!Chain(t, c) = {up[k] : k \in DOMAIN up}
  <2>1. Tree!Chain(t, c) = {(CHOOSE f : Def(f))[k] : k \in DOMAIN (CHOOSE f : Def(f))}
    BY Numbers DEF Tree!Chain
  <2> QED
    BY <1>4, <2>1
<1>6. DOMAIN up = 0 .. n
  BY <1>4
<1>7. Walk(t, c, n, up)
  <2>1. \A k \in 0 .. n : up[k] = IF k = 0 THEN c
                               ELSE IF up[k - 1] = Tree!Root THEN Tree!Root ELSE t[up[k - 1]]
    BY <1>4
  <2>2. up = [k \in 0 .. n |-> up[k]]
    BY <1>4
  <2>3. \A k \in 1 .. n : k \in 0 .. n /\ k # 0
    BY <1>1
  <2>4. 0 \in 0 .. n
    BY <1>1
  <2> QED
    BY <2>1, <2>2, <2>3, <2>4 DEF Walk
<1> QED
  BY <1>5, <1>6, <1>7

\* A set that has the parents of what is in it has the whole chain.
LEMMA ChainWithin ==
  ASSUME Tree!CategoryAssumption, NEW t, NEW c, NEW S, c \in S,
         \A d \in S \cap Tree!Chain(t, c) : d # Tree!Root => t[d] \in S
  PROVE  Tree!Chain(t, c) \subseteq S
<1> DEFINE n == Cardinality(Categories)
<1>1. PICK up : Walk(t, c, n, up) /\ Tree!Chain(t, c) = {up[k] : k \in 0 .. n}
  BY ChainIsWalk
<1> DEFINE T == {k \in 0 .. n : up[k] \notin S}
<1>2. n \in Nat /\ T \in SUBSET Nat
  BY Numbers
<1>3. SUFFICES ASSUME T # {} PROVE FALSE
  BY <1>1
<1>4. PICK k \in T : \A l \in T : k <= l
  BY <1>2, <1>3, LeastElement
<1>5. k # 0
  BY <1>1, <1>4 DEF Walk
<1>6. k - 1 \in 0 .. n /\ k \in 1 .. n /\ ~(k <= k - 1)
  BY <1>2, <1>4, <1>5
<1>7. up[k - 1] \in S
  BY <1>4, <1>6
<1>8. up[k - 1] \in Tree!Chain(t, c)
  BY <1>1, <1>6
<1>9. up[k] \in S
  BY <1>1, <1>6, <1>7, <1>8 DEF Walk
<1> QED
  BY <1>4, <1>9

LEMMA ChainBegins ==
  ASSUME Tree!CategoryAssumption, NEW t, NEW c
  PROVE  c \in Tree!Chain(t, c)
<1>1. PICK up : /\ Walk(t, c, Cardinality(Categories), up)
                /\ Tree!Chain(t, c) = {up[k] : k \in 0 .. Cardinality(Categories)}
  BY ChainIsWalk
<1>2. 0 \in 0 .. Cardinality(Categories)
  BY Numbers
<1> QED
  BY <1>1, <1>2 DEF Walk

\* When there are no cycles every category is under a root: there are not as many
\* categories as the way up has steps.
LEMMA GroundedIsRooted ==
  ASSUME Tree!CategoryAssumption, NEW t, Parented(t), Grounded(t)
  PROVE  Tree!There(t) = Tree!InTree(t)
<1> DEFINE n == Cardinality(Categories)
<1>1. SUFFICES ASSUME NEW c \in Tree!There(t), Tree!Root \notin Tree!Chain(t, c) PROVE FALSE
  BY DEF Tree!InTree, Tree!Rooted
<1>2. Tree!Chain(t, c) \subseteq Tree!There(t) \cup {Tree!Root}
  BY ChainWithin DEF Parented
<1>3. PICK up : Walk(t, c, n, up) /\ Tree!Chain(t, c) = {up[k] : k \in 0 .. n}
  BY ChainIsWalk
<1>4. \A k \in 0 .. n : up[k] \in Tree!There(t) /\ up[k] # Tree!Root
  BY <1>1, <1>2, <1>3
<1>5. up \in [0 .. n -> Categories]
  BY <1>3, <1>4 DEF Walk, Tree!There
<1>6. IsFiniteSet(0 .. n) /\ Cardinality(0 .. n) = n + 1 /\ n \in Nat
  BY Numbers, FS_Interval
<1>7. PICK i, j \in 0 .. n : i # j /\ up[i] = up[j]
  BY <1>5, <1>6, Numbers, FS_PigeonHole
<1>8. ASSUME NEW x \in 0 .. n, NEW y \in 0 .. n, x < y, up[x] = up[y] PROVE FALSE
  <2> DEFINE S == {up[k] : k \in x .. (y - 1)}
  <2>1. x .. (y - 1) \subseteq 0 .. n /\ x \in x .. (y - 1)
    BY <1>6, <1>8
  <2>2. S \in SUBSET Tree!There(t) /\ S # {}
    BY <1>4, <2>1
  <2>3. ASSUME NEW k \in x .. (y - 1) PROVE t[up[k]] \in S
    <3>1. k + 1 \in 1 .. n /\ (k + 1) - 1 = k /\ k \in 0 .. n
      BY <1>6, <1>8
    <3>2. up[k + 1] = t[up[k]]
      BY <1>3, <1>4, <3>1 DEF Walk
    <3>3. k + 1 = y \/ k + 1 \in x .. (y - 1)
      BY <1>6, <1>8
    <3> QED
      BY <1>8, <2>1, <3>2, <3>3
  <2> QED
    BY <2>2, <2>3 DEF Grounded
<1> QED
  BY <1>6, <1>7, <1>8

LEMMA RootedIsGrounded ==
  ASSUME Tree!CategoryAssumption, NEW t, \A c \in Tree!There(t) : Tree!Rooted(t, c)
  PROVE  Grounded(t)
<1>1. SUFFICES ASSUME NEW S \in SUBSET Tree!There(t), NEW c \in S, \A d \in S : t[d] \in S
               PROVE FALSE
  BY DEF Grounded
<1>2. Tree!Chain(t, c) \subseteq S
  BY <1>1, ChainWithin
<1>3. Tree!Root \in S
  BY <1>1, <1>2 DEF Tree!Rooted
<1> QED
  BY <1>1, <1>3, Numbers DEF Tree!There
\* Categories that have all their parents among themselves, where there were none, have one
\* whose parent is new.
LEMMA NewParent ==
  ASSUME NEW t, NEW u, Grounded(t), ~Grounded(u)
  PROVE  \E S \in SUBSET Tree!There(u) :
           /\ S # {} /\ \A c \in S : u[c] \in S
           /\ S \subseteq Tree!There(t) => \E c \in S : t[c] \notin S
BY DEF Grounded

\* A category is moved under one that is not below it.
LEMMA MoveKeeps ==
  ASSUME Tree!CategoryAssumption, NEW t, Parented(t), NEW id \in Tree!There(t),
         NEW to \in Tree!There(t) \cup {Tree!Root}, NEW u \in Parents,
         u[id] = to, \A c \in Categories \ {id} : u[c] = t[c]
  PROVE  /\ Parented(u) /\ Tree!There(u) = Tree!There(t)
         /\ Grounded(t) /\ to \notin Tree!Below(t, id) => Grounded(u)
<1>1. u[id] = to /\ \A c \in Categories : c # id => u[c] = t[c]
  OBVIOUS
<1>2. to \notin {Tree!Gone, Tree!Unborn}
  BY Numbers DEF Tree!There
<1>3. Tree!There(u) = Tree!There(t)
  BY <1>1, <1>2 DEF Tree!There
<1>4. Parented(u)
  BY <1>1, <1>3 DEF Parented, Tree!There
<1>5. ASSUME Grounded(t), to \notin Tree!Below(t, id), ~Grounded(u) PROVE FALSE
  <2>1. PICK S \in SUBSET Tree!There(t) :
          S # {} /\ (\A c \in S : u[c] \in S) /\ \E c \in S : t[c] \notin S
    BY <1>3, <1>5, NewParent
  <2>2. id \in S /\ to \in S
    BY <1>1, <2>1 DEF Tree!There
  <2>3. to \in Tree!There(t) /\ id \notin Tree!Chain(t, to)
    BY <1>5, <2>1, <2>2 DEF Tree!Below
  <2>4. Tree!Chain(t, to) \subseteq S
    <3>1. \A d \in S \cap Tree!Chain(t, to) : t[d] \in S
      BY <1>1, <2>1, <2>3 DEF Tree!There
    <3> QED
      BY <2>2, <3>1, ChainWithin
  <2>5. Tree!Root \in Tree!Chain(t, to)
    BY <1>5, <2>3, GroundedIsRooted DEF Tree!InTree, Tree!Rooted
  <2> QED
    BY <2>1, <2>4, <2>5, Numbers DEF Tree!There
<1> QED
  BY <1>3, <1>4, <1>5

\* A category is born under one that is there.
LEMMA BirthKeeps ==
  ASSUME Tree!CategoryAssumption, NEW t, Parented(t), NEW id \in Categories,
         t[id] = Tree!Unborn,
         NEW to \in Tree!There(t) \cup {Tree!Root}, NEW u \in Parents,
         u[id] = to, \A c \in Categories \ {id} : u[c] = t[c]
  PROVE  /\ Parented(u) /\ Tree!There(u) = Tree!There(t) \cup {id}
         /\ Grounded(t) => Grounded(u)
<1>1. u[id] = to /\ \A c \in Categories : c # id => u[c] = t[c]
  OBVIOUS
<1>2. to \notin {Tree!Gone, Tree!Unborn} /\ id \notin Tree!There(t) /\ id # Tree!Root
  BY Numbers DEF Tree!There
<1>3. Tree!There(u) = Tree!There(t) \cup {id}
  BY <1>1, <1>2 DEF Tree!There
<1>4. Parented(u)
  BY <1>1, <1>3 DEF Parented, Tree!There
<1>5. ASSUME Grounded(t), ~Grounded(u) PROVE FALSE
  <2>1. PICK S \in SUBSET Tree!There(u) : S # {} /\ \A c \in S : u[c] \in S
    BY <1>5, NewParent
  <2> DEFINE T == S \ {id}
  <2>2. T \in SUBSET Tree!There(t)
    BY <1>3, <2>1
  <2>3. T # {}
    BY <1>1, <1>2, <2>1
  <2>4. \A c \in T : t[c] \in T
    BY <1>1, <1>2, <2>1, <2>2 DEF Parented, Tree!There
  <2> QED
    BY <1>5, <2>2, <2>3, <2>4 DEF Grounded
<1> QED
  BY <1>3, <1>4, <1>5

\* A category goes, and its children to its parent.
LEMMA DeletionKeeps ==
  ASSUME Tree!CategoryAssumption, NEW t, Parented(t), NEW id \in Tree!There(t),
         NEW up, up = (IF t[id] = id THEN Tree!Root ELSE t[id]), NEW u,
         u = [c \in Categories |-> IF c = id THEN Tree!Gone
                                ELSE IF t[c] = id THEN up ELSE t[c]]
  PROVE  /\ Parented(u) /\ Tree!There(u) = Tree!There(t) \ {id}
         /\ Grounded(t) => Grounded(u)
<1>1. id \in Categories /\ id # Tree!Root /\ up \in (Tree!There(t) \cup {Tree!Root}) \ {id}
  BY Numbers DEF Parented, Tree!There
<1>2. /\ u[id] = Tree!Gone
      /\ \A c \in Categories \ {id} : u[c] = IF t[c] = id THEN up ELSE t[c]
  <2>1. u[id] = Tree!Gone
    BY <1>1
  <2>2. ASSUME NEW c \in Categories \ {id}, t[c] = id PROVE u[c] = up
    BY <2>2
  <2>3. ASSUME NEW c \in Categories \ {id}, t[c] # id PROVE u[c] = t[c]
    BY <2>3
  <2> QED
    BY <2>1, <2>2, <2>3
<1>3. up \notin {Tree!Gone, Tree!Unborn} /\ id \notin {Tree!Gone, Tree!Unborn}
  BY <1>1, Numbers DEF Tree!There
<1>4. Tree!There(u) = Tree!There(t) \ {id}
  BY <1>2, <1>3 DEF Tree!There
<1>5. u \in Parents
  <2>1. \A c \in Categories : u[c] \in Categories \cup {Tree!Root, Tree!Gone, Tree!Unborn}
    BY <1>1, <1>2 DEF Parented, Parents, Tree!There
  <2>2. u = [c \in Categories |-> u[c]]
    OBVIOUS
  <2> QED
    BY <2>1, <2>2 DEF Parents
<1>6. Parented(u)
  BY <1>1, <1>2, <1>4, <1>5 DEF Parented, Tree!There
<1>7. ASSUME Grounded(t), ~Grounded(u) PROVE FALSE
  <2>1. PICK S \in SUBSET (Tree!There(t) \ {id}) :
          S # {} /\ (\A c \in S : u[c] \in S) /\ \E c \in S : t[c] \notin S
    BY <1>4, <1>7, NewParent
  <2>2. PICK c \in S : t[c] = id
    BY <1>2, <2>1 DEF Tree!There
  <2>3. up \in S /\ t[id] = up
    BY <1>1, <1>2, <2>1, <2>2, Numbers DEF Tree!There
  <2> DEFINE T == S \cup {id}
  <2>4. T \in SUBSET Tree!There(t) /\ T # {}
    BY <2>1
  <2>5. \A d \in T : t[d] \in T
    BY <1>2, <2>1, <2>3 DEF Tree!There
  <2> QED
    BY <1>7, <2>4, <2>5 DEF Grounded
<1> QED
  BY <1>4, <1>6, <1>7

\* A category goes, and its children to another, which keeps them out of a cycle when it is
\* not below the one that goes.
LEMMA MergeKeeps ==
  ASSUME Tree!CategoryAssumption, NEW t, Parented(t), NEW id \in Tree!There(t),
         NEW to \in Tree!There(t), id # to, NEW u,
         u = [c \in Categories |-> IF c = to THEN Tree!Gone
                                ELSE IF t[c] = to THEN id ELSE t[c]]
  PROVE  /\ Parented(u) /\ Tree!There(u) = Tree!There(t) \ {to}
         /\ Grounded(t) /\ id \notin Tree!Below(t, to) => Grounded(u)
<1>1. {id, to} \subseteq Categories /\ Tree!Root \notin {id, to}
  BY Numbers DEF Tree!There
<1>2. /\ u[to] = Tree!Gone
      /\ \A c \in Categories \ {to} : u[c] = IF t[c] = to THEN id ELSE t[c]
  <2>1. u[to] = Tree!Gone
    BY <1>1
  <2>2. ASSUME NEW c \in Categories \ {to}, t[c] = to PROVE u[c] = id
    BY <2>2
  <2>3. ASSUME NEW c \in Categories \ {to}, t[c] # to PROVE u[c] = t[c]
    BY <2>3
  <2> QED
    BY <2>1, <2>2, <2>3
<1>3. {id, to} \cap {Tree!Gone, Tree!Unborn} = {}
  BY <1>1, Numbers
<1>4. Tree!There(u) = Tree!There(t) \ {to}
  BY <1>2, <1>3 DEF Tree!There
<1>5. u \in Parents
  <2>1. \A c \in Categories : u[c] \in Categories \cup {Tree!Root, Tree!Gone, Tree!Unborn}
    BY <1>1, <1>2 DEF Parented, Parents, Tree!There
  <2>2. u = [c \in Categories |-> u[c]]
    OBVIOUS
  <2> QED
    BY <2>1, <2>2 DEF Parents
<1>6. Parented(u)
  BY <1>1, <1>2, <1>4, <1>5 DEF Parented, Tree!There
<1>7. ASSUME Grounded(t), id \notin Tree!Below(t, to), ~Grounded(u) PROVE FALSE
  <2>1. PICK S \in SUBSET (Tree!There(t) \ {to}) :
          S # {} /\ (\A c \in S : u[c] \in S) /\ \E c \in S : t[c] \notin S
    BY <1>4, <1>7, NewParent
  <2>2. id \in S
    BY <1>2, <2>1 DEF Tree!There
  <2>3. to \notin Tree!Chain(t, id)
    BY <1>7 DEF Tree!Below
  <2>4. Tree!Chain(t, id) \subseteq S
    <3> DEFINE T == S \cup {to}
    <3>1. \A d \in T \cap Tree!Chain(t, id) : t[d] \in T
      BY <1>2, <2>1, <2>3 DEF Tree!There
    <3>2. Tree!Chain(t, id) \subseteq T
      BY <2>2, <3>1, ChainWithin
    <3> QED
      BY <2>3, <3>2
  <2>5. Tree!Root \in Tree!Chain(t, id)
    BY <1>7, GroundedIsRooted DEF Tree!InTree, Tree!Rooted
  <2> QED
    BY <2>1, <2>4, <2>5, Numbers DEF Tree!There
<1> QED
  BY <1>4, <1>6, <1>7
-----------------------------------------------------------------------------
(* The inductive invariant. *)

Places == Categories \cup {Tree!Root}

\* The domains of the variables.
TreeTypes ==
  /\ Parented(parents)
  /\ home \in Tree!There(parents) \cup {Tree!Root}
  /\ deleted \subseteq Categories
  /\ home = Tree!Root => deleted # {}
  /\ forest \in [tree : Parents, loading : BOOLEAN]
  /\ panel \in [mode : {"idle", "create", "edit", "merge"}, target : Places, parent : Places,
                drop : Places]
  /\ panel.mode = "edit" => panel.target # Tree!Root
  /\ panel.mode = "merge" => panel.drop # panel.parent /\ panel.parent # Tree!Root
  /\ requests \subseteq [op : {"load", "create", "move", "merge", "delete"}, id : Places,
                        to : Places, step : {"sent", "done", "failed"}, tree : Parents]
  /\ \A q \in requests : q.op = "merge" => q.id # q.to
  /\ {stale, merged} \subseteq BOOLEAN

\* The panel keeps the parent of the category, or gives it one that is not below it.
Offered(t) ==
  panel.mode = "edit" =>
    panel.parent = t[panel.target] \/ panel.parent \notin Tree!Below(t, panel.target)

\* As long as no request met another or failed, there is one at most, and the page has the
\* server's tree, except while a change is on its way to it.
Fresh(q) ==
  /\ \A r \in requests : r = q
  /\ q.op = "load" => /\ q.step # "failed" /\ forest.loading
                      /\ q.step = "done" => q.tree = parents
                      /\ Offered(parents)
  /\ q.op # "load" => Offered(forest.tree)
  /\ q.op # "load" /\ q.step # "done" => forest.tree = parents
  /\ q.op = "move" /\ q.step = "sent" => q.to \notin Tree!Below(parents, q.id)

InStep ==
  ~stale =>
    /\ \A q \in requests : Fresh(q)
    /\ requests = {} => forest.tree = parents /\ Offered(forest.tree)
    /\ ~merged => Grounded(parents)

TreeInv == TreeTypes /\ InStep

\* An answer, and what it leaves.
LEMMA AnsweredKeeps ==
  ASSUME TreeTypes, NEW q \in requests, NEW r,
         r \in [op : {q.op}, id : {q.id}, to : {q.to}, step : {"sent", "done", "failed"},
               tree : Parents],
         requests' = (requests \ {q}) \cup {r}
  PROVE  /\ requests' \subseteq [op : {"load", "create", "move", "merge", "delete"}, id : Places,
                               to : Places, step : {"sent", "done", "failed"}, tree : Parents]
         /\ \A p \in requests' : p.op = "merge" => p.id # p.to
BY DEF TreeTypes

\* A request that is sent.
LEMMA SendKeeps ==
  ASSUME Tree!CategoryAssumption, TreeInv, NEW op \in {"load", "create", "move", "merge", "delete"},
         NEW id \in Places, NEW to \in Places, op = "merge" => id # to,
         Tree!Send(Tree!Request(op, id, to))
  PROVE  /\ requests' \subseteq [op : {"load", "create", "move", "merge", "delete"}, id : Places,
                               to : Places, step : {"sent", "done", "failed"}, tree : Parents]
         /\ \A q \in requests' : q.op = "merge" => q.id # q.to
         /\ stale' \in BOOLEAN
         /\ ~stale' => /\ ~stale /\ requests = {}
                       /\ \A q \in requests' : q.op = op /\ q.id = id /\ q.to = to /\ q.step = "sent"
                       /\ \A q, r \in requests' : q = r
<1> DEFINE q == Tree!Request(op, id, to)
<1>1. FirstParents \in Parents
  BY DEF Tree!CategoryAssumption, Parents
<1>2. /\ q \in [op : {"load", "create", "move", "merge", "delete"}, id : Places,
               to : Places, step : {"sent", "done", "failed"}, tree : Parents]
      /\ q.op = op /\ q.id = id /\ q.to = to /\ q.step = "sent"
  BY <1>1 DEF Tree!Request
<1>3. requests' = requests \cup {q} /\ stale' = (stale \/ requests # {})
  BY DEF Tree!Send
<1> HIDE DEF q
<1> QED
  BY <1>2, <1>3 DEF TreeInv, TreeTypes

LEMMA TreeInit ==
  ASSUME Tree!CategoryAssumption, Tree!Init PROVE TreeInv
<1>1. Parented(FirstParents) /\ FirstParents \in Parents
  BY DEF Tree!CategoryAssumption, Parented, Parents
<1>2. Grounded(FirstParents)
  BY RootedIsGrounded DEF Tree!CategoryAssumption
<1>3. FirstHome \in Tree!There(FirstParents) /\ FirstHome # Tree!Root
  BY Numbers DEF Tree!CategoryAssumption, Tree!There
<1>4. TreeTypes
  BY <1>1, <1>3 DEF Tree!Init, Tree!Idle, TreeTypes, Places
<1>5. InStep
  BY <1>2 DEF Tree!Init, Tree!Idle, InStep, Offered
<1> QED
  BY <1>4, <1>5 DEF TreeInv
-----------------------------------------------------------------------------
(* The steps of the page. *)

LEMMA RefreshInv ==
  ASSUME Tree!CategoryAssumption, TreeInv, Tree!Refresh PROVE TreeInv'
<1>1. /\ Tree!Send(Tree!Request("load", Tree!Root, Tree!Root))
      /\ forest' = [forest EXCEPT !.loading = TRUE]
      /\ UNCHANGED <<parents, home, merged, deleted, panel>>
  BY DEF Tree!Refresh, Tree!Page, Tree!serverVars
<1>2. Tree!Root \in Places
  BY DEF Places
<1>3. TreeTypes'
  BY <1>1, <1>2, SendKeeps DEF TreeInv, TreeTypes
<1>4. InStep'
  <2>1. SUFFICES ASSUME ~stale' PROVE InStep'
    BY DEF InStep
  <2>2. /\ ~stale /\ requests = {}
        /\ \A q \in requests' : q.op = "load" /\ q.step = "sent"
        /\ \A q, r \in requests' : q = r
    BY <1>1, <1>2, <2>1, SendKeeps
  <2>3. forest.tree = parents /\ Offered(parents) /\ (~merged => Grounded(parents))
    BY <2>2 DEF TreeInv, InStep
  <2>4. forest'.loading /\ forest'.tree = forest.tree
    BY <1>1 DEF TreeInv, TreeTypes
  <2>5. Offered(parents)' /\ Offered(forest.tree)'
    BY <1>1, <2>3, <2>4 DEF Offered
  <2> QED
    BY <1>1, <2>1, <2>2, <2>3, <2>4, <2>5 DEF InStep, Fresh
<1> QED
  BY <1>3, <1>4 DEF TreeInv

\* Only the panel changes: it offers what it may, and the page is not loading.
LEMMA PanelKeeps ==
  ASSUME TreeInv, ~forest.loading, Offered(forest.tree) => Offered(forest.tree)',
         panel' \in [mode : {"idle", "create", "edit", "merge"}, target : Places,
                    parent : Places, drop : Places],
         panel'.mode = "edit" => panel'.target # Tree!Root,
         panel'.mode = "merge" => panel'.drop # panel'.parent /\ panel'.parent # Tree!Root,
         UNCHANGED <<parents, home, merged, deleted, forest, requests, stale>>
  PROVE  TreeInv'
<1>1. TreeTypes'
  BY DEF TreeInv, TreeTypes
<1>2. ASSUME ~stale, NEW q \in requests PROVE Fresh(q)'
  <2>1. Fresh(q) /\ q.op # "load"
    BY <1>2 DEF TreeInv, InStep, Fresh
  <2> QED
    BY <2>1 DEF Fresh
<1>3. InStep'
  BY <1>2 DEF TreeInv, InStep
<1> QED
  BY <1>1, <1>3 DEF TreeInv

LEMMA OpenInv ==
  ASSUME Tree!CategoryAssumption, TreeInv, NEW mode \in {"create", "edit", "merge"},
         NEW c \in Places, Tree!Open(mode, c)
  PROVE  TreeInv'
<1>1. /\ ~forest.loading
      /\ UNCHANGED <<parents, home, merged, deleted, forest, requests, stale>>
      /\ c \in Tree!InTree(forest.tree) \cup IF mode = "create" THEN {Tree!Root} ELSE {}
  BY DEF Tree!Open, Tree!Page, Tree!serverVars
<1>2. c # Tree!Root => c \in Tree!There(forest.tree)
  BY <1>1 DEF Tree!InTree
<1>3. mode # "create" => c \in Tree!There(forest.tree) /\ c # Tree!Root
  BY <1>1, Numbers DEF Tree!InTree, Tree!There
<1>4. Tree!Root \in Places
  BY DEF Places
<1>5. CASE mode = "create"
  <2>1. panel' = [Tree!Idle EXCEPT !.mode = "create", !.parent = c]
    BY <1>5 DEF Tree!Open
  <2> QED
    BY <1>1, <1>4, <2>1, PanelKeeps DEF Tree!Idle, Offered
<1>6. CASE mode = "edit"
  <2>1. panel' = [mode |-> "edit", target |-> c, parent |-> forest.tree[c], drop |-> Tree!Root]
    BY <1>6 DEF Tree!Open
  <2>2. forest.tree[c] \in Places
    BY <1>3, <1>6 DEF TreeInv, TreeTypes, Parents, Tree!There, Places
  <2>3. Offered(forest.tree)'
    BY <1>1, <2>1 DEF Offered
  <2> QED
    BY <1>1, <1>3, <1>4, <1>6, <2>1, <2>2, <2>3, PanelKeeps
<1>7. CASE mode = "merge"
  <2>1. panel' = [mode |-> "merge", target |-> c, parent |-> c, drop |-> Tree!Root]
    BY <1>7 DEF Tree!Open
  <2>2. Offered(forest.tree)'
    BY <2>1 DEF Offered
  <2> QED
    BY <1>1, <1>3, <1>4, <1>7, <2>1, <2>2, PanelKeeps
<1> QED
  BY <1>5, <1>6, <1>7

LEMMA ChooseInv ==
  ASSUME Tree!CategoryAssumption, TreeInv, NEW c \in Places, NEW d \in Places,
         Tree!Choose(c, d)
  PROVE  TreeInv'
<1>1. /\ ~forest.loading
      /\ UNCHANGED <<parents, home, merged, deleted, forest, requests, stale>>
      /\ panel' = [panel EXCEPT !.parent = c, !.drop = d]
      /\ \/ /\ panel.mode \in {"create", "edit"} /\ d = Tree!Root
            /\ c \in Tree!ParentOptions \cup {Tree!Root}
         \/ /\ panel.mode = "merge" /\ c # d
            /\ {c, d} \subseteq Tree!There(forest.tree)
  BY DEF Tree!Choose, Tree!Page, Tree!serverVars
<1>2. /\ panel' \in [mode : {"idle", "create", "edit", "merge"}, target : Places,
                     parent : Places, drop : Places]
      /\ panel'.mode = panel.mode /\ panel'.target = panel.target
      /\ panel'.parent = c /\ panel'.drop = d
  BY <1>1 DEF TreeInv, TreeTypes
<1>3. Tree!Root \notin Tree!There(forest.tree)
  BY Numbers DEF Tree!There
<1>4. panel'.mode = "edit" => panel'.target # Tree!Root
  BY <1>2 DEF TreeInv, TreeTypes
<1>5. panel'.mode = "merge" => panel'.drop # panel'.parent /\ panel'.parent # Tree!Root
  BY <1>1, <1>2, <1>3
<1>6. Offered(forest.tree)'
  <2>1. SUFFICES ASSUME panel.mode = "edit" PROVE c \notin Tree!Below(forest.tree, panel.target)
    BY <1>1, <1>2 DEF Offered
  <2>2. c \in (Tree!There(forest.tree) \ Tree!Below(forest.tree, panel.target)) \cup {Tree!Root}
    BY <1>1, <1>2, <1>4, <2>1 DEF Tree!ParentOptions
  <2> QED
    BY <1>3, <2>2 DEF Tree!Below
<1> QED
  BY <1>1, <1>2, <1>4, <1>5, <1>6, PanelKeeps

LEMMA ClosePanelInv ==
  ASSUME Tree!CategoryAssumption, TreeInv, Tree!ClosePanel PROVE TreeInv'
<1>1. /\ ~forest.loading /\ panel' = Tree!Idle
      /\ UNCHANGED <<parents, home, merged, deleted, forest, requests, stale>>
  BY DEF Tree!ClosePanel, Tree!Page, Tree!serverVars
<1>2. Tree!Root \in Places
  BY DEF Places
<1> QED
  BY <1>1, <1>2, PanelKeeps DEF Tree!Idle, Offered

\* A change that is sent.
LEMMA ChangeKeeps ==
  ASSUME Tree!CategoryAssumption, TreeInv, NEW op \in {"create", "move", "merge", "delete"},
         NEW id \in Places, NEW to \in Places, op = "merge" => id # to,
         op = "move" /\ Offered(forest.tree) => to \notin Tree!Below(forest.tree, id),
         Tree!Send(Tree!Request(op, id, to)),
         UNCHANGED <<parents, home, merged, deleted, forest, panel>>
  PROVE  TreeInv'
<1>1. TreeTypes'
  BY SendKeeps DEF TreeInv, TreeTypes
<1>2. InStep'
  <2>1. SUFFICES ASSUME ~stale' PROVE InStep'
    BY DEF InStep
  <2>2. /\ ~stale /\ requests = {}
        /\ \A q \in requests' : q.op = op /\ q.id = id /\ q.to = to /\ q.step = "sent"
        /\ \A q, r \in requests' : q = r
    BY <2>1, SendKeeps
  <2>3. forest.tree = parents /\ Offered(forest.tree) /\ (~merged => Grounded(parents))
    BY <2>2 DEF TreeInv, InStep
  <2>4. Offered(forest.tree)'
    BY <2>3 DEF Offered
  <2>5. op = "move" => to \notin Tree!Below(parents, id)
    BY <2>3
  <2>6. \A q \in requests' : Fresh(q)'
    BY <2>2, <2>3, <2>4, <2>5 DEF Fresh
  <2> QED
    BY <2>1, <2>3, <2>4, <2>6 DEF InStep
<1> QED
  BY <1>1, <1>2 DEF TreeInv

LEMMA SaveInv ==
  ASSUME Tree!CategoryAssumption, TreeInv, Tree!Save PROVE TreeInv'
<1>1. UNCHANGED <<parents, home, merged, deleted, forest, panel>>
  BY DEF Tree!Save, Tree!Page, Tree!serverVars
<1>2. Tree!Root \in Places /\ {panel.target, panel.parent, panel.drop} \subseteq Places
  BY DEF Places, TreeInv, TreeTypes
<1>3. CASE panel.mode = "create"
  <2>1. Tree!Send(Tree!Request("create", Tree!Root, panel.parent))
    BY <1>3 DEF Tree!Save
  <2> QED
    BY <1>1, <1>2, <2>1, ChangeKeeps
<1>4. CASE panel.mode = "edit"
  <2>1. /\ panel.parent # forest.tree[panel.target]
        /\ Tree!Send(Tree!Request("move", panel.target, panel.parent))
    BY <1>4 DEF Tree!Save
  <2>2. Offered(forest.tree) => panel.parent \notin Tree!Below(forest.tree, panel.target)
    BY <1>4, <2>1 DEF Offered
  <2> QED
    BY <1>1, <1>2, <2>1, <2>2, ChangeKeeps
<1>5. CASE panel.mode = "merge"
  <2>1. Tree!Send(Tree!Request("merge", panel.parent, panel.drop))
    BY <1>5 DEF Tree!Save
  <2>2. panel.parent # panel.drop
    BY <1>5 DEF TreeInv, TreeTypes
  <2> QED
    BY <1>1, <1>2, <2>1, <2>2, ChangeKeeps
<1>6. panel.mode \in {"create", "edit", "merge"}
  BY DEF Tree!Save
<1> QED
  BY <1>3, <1>4, <1>5, <1>6

LEMMA DeleteInv ==
  ASSUME Tree!CategoryAssumption, TreeInv, NEW c \in Categories, Tree!Delete(c)
  PROVE  TreeInv'
<1>1. /\ UNCHANGED <<parents, home, merged, deleted, forest, panel>>
      /\ Tree!Send(Tree!Request("delete", c, Tree!Root))
  BY DEF Tree!Delete, Tree!Page, Tree!serverVars
<1>2. Tree!Root \in Places /\ c \in Places
  BY DEF Places
<1> QED
  BY <1>1, <1>2, ChangeKeeps
-----------------------------------------------------------------------------
(* The steps of the server, and of the answers. *)

\* The server has served a request: what becomes of the parents and of the question.
LEMMA ServedKeeps ==
  ASSUME TreeInv, NEW q \in requests, q.step = "sent", NEW step \in {"done", "failed"},
         Tree!Answered(q, step), UNCHANGED <<forest, panel, stale>>, q.op # "load",
         Parented(parents)', home' \in Tree!There(parents)' \cup {Tree!Root},
         deleted' \subseteq Categories, home' = Tree!Root => deleted' # {},
         merged' \in BOOLEAN, step = "failed" => parents' = parents,
         ~stale /\ ~merged' => Grounded(parents)'
  PROVE  TreeInv'
<1>1. PICK r : r = [q EXCEPT !.step = step]
  OBVIOUS
<1>2. requests' = (requests \ {q}) \cup {r}
  BY <1>1 DEF Tree!Answered
<1>3. /\ r \in [op : {q.op}, id : {q.id}, to : {q.to}, step : {"sent", "done", "failed"},
               tree : Parents]
      /\ r.op = q.op /\ r.step = step
  BY <1>1 DEF TreeInv, TreeTypes
<1>4. TreeTypes'
  BY <1>2, <1>3, AnsweredKeeps DEF TreeInv, TreeTypes
<1>5. ASSUME ~stale PROVE (\A p \in requests' : Fresh(p)') /\ requests' # {}
  <2>1. Fresh(q) /\ requests' = {r}
    BY <1>2, <1>5 DEF TreeInv, InStep, Fresh
  <2>2. Fresh(r)'
    BY <1>3, <2>1 DEF Fresh, Offered
  <2> QED
    BY <2>1, <2>2
<1>6. InStep'
  BY <1>5 DEF InStep
<1> QED
  BY <1>4, <1>6 DEF TreeInv

LEMMA ServeLoadInv ==
  ASSUME Tree!CategoryAssumption, TreeInv, NEW q \in requests, Tree!Serve(q),
         Tree!ServeLoad(q)
  PROVE  TreeInv'
<1>1. /\ UNCHANGED <<parents, home, merged, deleted, forest, panel, stale>>
      /\ q.op = "load" /\ q.step = "sent"
  BY DEF Tree!Serve, Tree!ServeLoad, Tree!serverVars
<1>2. PICK r : r = [q EXCEPT !.step = "done", !.tree = parents]
  OBVIOUS
<1>3. requests' = (requests \ {q}) \cup {r}
  BY <1>2 DEF Tree!ServeLoad
<1>4. /\ r \in [op : {q.op}, id : {q.id}, to : {q.to}, step : {"sent", "done", "failed"},
               tree : Parents]
      /\ r.op = "load" /\ r.step = "done" /\ r.tree = parents
  BY <1>1, <1>2 DEF TreeInv, TreeTypes, Parented
<1>5. TreeTypes'
  BY <1>1, <1>3, <1>4, AnsweredKeeps DEF TreeInv, TreeTypes
<1>6. ASSUME ~stale PROVE (\A p \in requests' : Fresh(p)') /\ requests' # {}
  <2>1. Fresh(q) /\ requests' = {r}
    BY <1>3, <1>6 DEF TreeInv, InStep, Fresh
  <2>2. Fresh(r)'
    BY <1>1, <1>4, <2>1 DEF Fresh, Offered
  <2> QED
    BY <2>1, <2>2
<1>7. InStep'
  BY <1>1, <1>6 DEF TreeInv, InStep
<1> QED
  BY <1>5, <1>7 DEF TreeInv

\* The category that is born is one that was not.
LEMMA NewbornIs ==
  ASSUME Tree!CategoryAssumption, NEW S \in SUBSET Categories, S # {}
  PROVE  Tree!Min(S) \in S
<1>1. PICK n \in S : \A m \in S : n <= m
  BY Numbers, LeastElement
<1> QED
  BY <1>1 DEF Tree!Min

LEMMA ServePlaceInv ==
  ASSUME Tree!CategoryAssumption, TreeInv, NEW q \in requests, Tree!Serve(q),
         Tree!ServePlace(q)
  PROVE  TreeInv'
<1>1. /\ UNCHANGED <<home, merged, deleted, forest, panel, stale>>
      /\ q.op \in {"create", "move"} /\ q.step = "sent"
  BY DEF Tree!Serve, Tree!ServePlace
<1>2. PICK id : id = IF q.op = "move" THEN q.id
                     ELSE Tree!Min({c \in Categories : parents[c] = Tree!Unborn})
  OBVIOUS
<1>3. /\ q.op = "create" => \E c \in Categories : parents[c] = Tree!Unborn
      /\ \/ Tree!Answered(q, "failed") /\ UNCHANGED parents
         \/ /\ {q.to} \ {Tree!Root} \subseteq Tree!There(parents)
            /\ q.op = "move" => id \in Tree!There(parents)
            /\ parents' = [parents EXCEPT ![id] = q.to] /\ Tree!Answered(q, "done")
  BY <1>2 DEF Tree!ServePlace
<1>4. CASE Tree!Answered(q, "failed") /\ UNCHANGED parents
  <2>1. ~stale /\ ~merged => Grounded(parents)'
    BY <1>4 DEF TreeInv, InStep, Grounded
  <2> QED
    BY <1>1, <1>4, <2>1, ServedKeeps DEF TreeInv, TreeTypes
<1>5. CASE /\ {q.to} \ {Tree!Root} \subseteq Tree!There(parents)
           /\ q.op = "move" => id \in Tree!There(parents)
           /\ parents' = [parents EXCEPT ![id] = q.to] /\ Tree!Answered(q, "done")
  <2>1. q.to \in Tree!There(parents) \cup {Tree!Root} /\ Parented(parents)
    BY <1>5 DEF TreeInv, TreeTypes
  <2>2. /\ Parented(parents') /\ Tree!There(parents) \subseteq Tree!There(parents')
        /\ ~stale /\ ~merged => Grounded(parents')
    <3>1. CASE q.op = "move"
      <4>1. ~stale => q.to \notin Tree!Below(parents, id)
        BY <1>1, <1>2, <3>1 DEF TreeInv, InStep, Fresh
      <4>2. ~stale /\ ~merged => Grounded(parents)
        BY DEF TreeInv, InStep
      <4>3. id \in Tree!There(parents) /\ parents' = [parents EXCEPT ![id] = q.to]
        BY <1>5, <3>1
      <4>4. /\ parents' \in Parents /\ parents'[id] = q.to
            /\ \A c \in Categories \ {id} : parents'[c] = parents[c]
        BY <2>1, <4>3 DEF Parented, Parents, Tree!There
      <4>5. /\ Parented(parents') /\ Tree!There(parents') = Tree!There(parents)
            /\ Grounded(parents) /\ q.to \notin Tree!Below(parents, id) => Grounded(parents')
        BY <2>1, <4>3, <4>4, MoveKeeps
      <4> QED
        BY <4>1, <4>2, <4>5
    <3>2. CASE q.op = "create"
      <4>1. id \in Categories /\ parents[id] = Tree!Unborn
        <5> DEFINE S == {c \in Categories : parents[c] = Tree!Unborn}
        <5>1. S \in SUBSET Categories /\ S # {} /\ id = Tree!Min(S)
          BY <1>2, <1>3, <3>2
        <5>2. id \in S
          BY <5>1, NewbornIs
        <5> QED
          BY <5>2
      <4>2. ~stale /\ ~merged => Grounded(parents)
        BY DEF TreeInv, InStep
      <4>3. /\ parents' \in Parents /\ parents'[id] = q.to
            /\ \A c \in Categories \ {id} : parents'[c] = parents[c]
        BY <1>5, <2>1, <4>1 DEF Parented, Parents, Tree!There
      <4>4. /\ Parented(parents') /\ Tree!There(parents') = Tree!There(parents) \cup {id}
            /\ Grounded(parents) => Grounded(parents')
        BY <2>1, <4>1, <4>3, BirthKeeps
      <4> QED
        BY <4>2, <4>4
    <3> QED
      BY <1>1, <3>1, <3>2
  <2>3. home' \in Tree!There(parents)' \cup {Tree!Root}
    BY <1>1, <2>2 DEF TreeInv, TreeTypes
  <2> QED
    BY <1>1, <1>5, <2>2, <2>3, ServedKeeps DEF TreeInv, TreeTypes
<1> QED
  BY <1>3, <1>4, <1>5

LEMMA ServeDeleteInv ==
  ASSUME Tree!CategoryAssumption, TreeInv, NEW q \in requests, Tree!Serve(q),
         Tree!ServeDelete(q)
  PROVE  TreeInv'
<1>1. /\ UNCHANGED <<merged, forest, panel, stale>> /\ q.op = "delete" /\ q.step = "sent"
  BY DEF Tree!Serve, Tree!ServeDelete
<1>2. CASE q.id \notin Tree!There(parents)
  <2>1. Tree!Answered(q, "failed") /\ UNCHANGED <<parents, home, deleted>>
    BY <1>2 DEF Tree!ServeDelete
  <2>2. ~stale /\ ~merged => Grounded(parents)'
    BY <2>1 DEF TreeInv, InStep, Grounded
  <2> QED
    BY <1>1, <2>1, <2>2, ServedKeeps DEF TreeInv, TreeTypes
<1>3. CASE q.id \in Tree!There(parents)
  <2>1. /\ parents' = Tree!Left(q.id, Tree!Promoted(q.id))
        /\ home' = IF home = q.id THEN Tree!Root ELSE home
        /\ deleted' = deleted \cup {q.id} /\ Tree!Answered(q, "done")
    BY <1>3 DEF Tree!ServeDelete
  <2>2. /\ Parented(parents') /\ Tree!There(parents') = Tree!There(parents) \ {q.id}
        /\ Grounded(parents) => Grounded(parents')
    <3>1. PICK up : up = IF parents[q.id] = q.id THEN Tree!Root ELSE parents[q.id]
      OBVIOUS
    <3>2. parents' = [c \in Categories |-> IF c = q.id THEN Tree!Gone
                                           ELSE IF parents[c] = q.id THEN up ELSE parents[c]]
      BY <2>1, <3>1 DEF Tree!Left, Tree!Promoted
    <3>3. Parented(parents)
      BY DEF TreeInv, TreeTypes
    <3> QED
      BY <1>3, <3>1, <3>2, <3>3, DeletionKeeps
  <2>3. /\ home' \in Tree!There(parents)' \cup {Tree!Root} /\ deleted' \subseteq Categories
        /\ deleted' # {}
    BY <1>3, <2>1, <2>2 DEF TreeInv, TreeTypes, Tree!There
  <2>4. ~stale /\ ~merged' => Grounded(parents)'
    BY <1>1, <2>2 DEF TreeInv, InStep
  <2>5. merged' \in BOOLEAN
    BY <1>1 DEF TreeInv, TreeTypes
  <2> QED
    BY <1>1, <2>1, <2>2, <2>3, <2>4, <2>5, ServedKeeps
<1> QED
  BY <1>2, <1>3

LEMMA ServeMergeInv ==
  ASSUME Tree!CategoryAssumption, TreeInv, NEW q \in requests, Tree!Serve(q),
         Tree!ServeMerge(q)
  PROVE  TreeInv'
<1>1. /\ UNCHANGED <<deleted, forest, panel, stale>> /\ q.op = "merge" /\ q.step = "sent"
  BY DEF Tree!Serve, Tree!ServeMerge
<1>2. CASE ~({q.id, q.to} \subseteq Tree!There(parents))
  <2>1. Tree!Answered(q, "failed") /\ UNCHANGED <<parents, home, merged>>
    BY <1>2 DEF Tree!ServeMerge
  <2>2. ~stale /\ ~merged => Grounded(parents)'
    BY <2>1 DEF TreeInv, InStep, Grounded
  <2> QED
    BY <1>1, <2>1, <2>2, ServedKeeps DEF TreeInv, TreeTypes
<1>3. CASE {q.id, q.to} \subseteq Tree!There(parents)
  <2>1. /\ parents' = Tree!Left(q.to, q.id)
        /\ home' = IF home = q.to THEN q.id ELSE home
        /\ merged' = (merged \/ q.id \in Tree!Below(parents, q.to))
        /\ Tree!Answered(q, "done")
    BY <1>3 DEF Tree!ServeMerge
  <2>2. /\ Parented(parents') /\ Tree!There(parents') = Tree!There(parents) \ {q.to}
        /\ Grounded(parents) /\ q.id \notin Tree!Below(parents, q.to) => Grounded(parents')
        /\ q.id # q.to
    <3>1. parents' = [c \in Categories |-> IF c = q.to THEN Tree!Gone
                                           ELSE IF parents[c] = q.to THEN q.id ELSE parents[c]]
      BY <2>1 DEF Tree!Left
    <3>2. Parented(parents) /\ q.id # q.to
      BY <1>1 DEF TreeInv, TreeTypes
    <3> QED
      BY <1>3, <3>1, <3>2, MergeKeeps
  <2>3. /\ home' \in Tree!There(parents)' \cup {Tree!Root}
        /\ home' = Tree!Root => deleted' # {}
    BY <1>1, <1>3, <2>1, <2>2, Numbers DEF TreeInv, TreeTypes, Tree!There
  <2>4. ~stale /\ ~merged' => Grounded(parents)'
    BY <2>1, <2>2 DEF TreeInv, TreeTypes, InStep
  <2>5. merged' \in BOOLEAN /\ deleted' \subseteq Categories
    BY <1>1, <2>1 DEF TreeInv, TreeTypes
  <2> QED
    BY <1>1, <2>1, <2>2, <2>3, <2>4, <2>5, ServedKeeps
<1> QED
  BY <1>2, <1>3

LEMMA LoseInv ==
  ASSUME Tree!CategoryAssumption, TreeInv, NEW q \in requests, Tree!Lose(q)
  PROVE  TreeInv'
<1>1. UNCHANGED <<parents, home, merged, deleted, forest, panel>> /\ stale' = TRUE
  BY DEF Tree!Lose, Tree!serverVars
<1>2. PICK r : r = [q EXCEPT !.step = "failed"]
  OBVIOUS
<1>3. requests' = (requests \ {q}) \cup {r}
  BY <1>2 DEF Tree!Lose, Tree!Answered
<1>4. r \in [op : {q.op}, id : {q.id}, to : {q.to}, step : {"sent", "done", "failed"},
            tree : Parents]
  BY <1>2 DEF TreeInv, TreeTypes
<1>5. TreeTypes'
  BY <1>1, <1>3, <1>4, AnsweredKeeps DEF TreeInv, TreeTypes
<1> QED
  BY <1>1, <1>5 DEF TreeInv, InStep

LEMMA AnswerInv ==
  ASSUME Tree!CategoryAssumption, TreeInv, NEW q \in requests, Tree!Answer(q)
  PROVE  TreeInv'
<1>1. UNCHANGED <<parents, home, merged, deleted, stale>> /\ q.step # "sent"
  BY DEF Tree!Answer, Tree!serverVars
<1>2. ~merged /\ ~stale => Grounded(parents)'
  BY <1>1 DEF TreeInv, InStep, Grounded
<1>3. CASE Tree!AnswerLoad(q)
  <2>1. /\ q.op = "load" /\ requests' = requests \ {q} /\ UNCHANGED panel
        /\ forest' = [loading |-> FALSE, tree |-> IF q.step = "done" THEN q.tree ELSE forest.tree]
    BY <1>3 DEF Tree!AnswerLoad
  <2>2. forest' \in [tree : Parents, loading : BOOLEAN]
    BY <2>1 DEF TreeInv, TreeTypes
  <2>3. TreeTypes'
    BY <1>1, <2>1, <2>2 DEF TreeInv, TreeTypes
  <2>4. ASSUME ~stale PROVE requests' = {} /\ forest'.tree = parents /\ Offered(forest.tree)'
    <3>1. Fresh(q) /\ q.step = "done"
      BY <1>1, <2>1, <2>4 DEF TreeInv, TreeTypes, InStep, Fresh
    <3>2. requests' = {} /\ forest'.tree = parents /\ Offered(parents)
      BY <2>1, <3>1 DEF Fresh
    <3> QED
      BY <2>1, <3>2 DEF Offered
  <2>5. InStep'
    BY <1>1, <1>2, <2>4 DEF InStep
  <2> QED
    BY <2>3, <2>5 DEF TreeInv
<1>4. CASE Tree!AnswerChange(q) /\ q.step = "done"
  <2>1. PICK r : r = Tree!Request("load", Tree!Root, Tree!Root)
    OBVIOUS
  <2>2. /\ requests' = (requests \ {q}) \cup {r}
        /\ forest' = [forest EXCEPT !.loading = TRUE] /\ panel' = Tree!Idle
    BY <1>4, <2>1 DEF Tree!AnswerChange
  <2>3. /\ r \in [op : {"load", "create", "move", "merge", "delete"}, id : Places,
                 to : Places, step : {"sent", "done", "failed"}, tree : Parents]
        /\ r.op = "load" /\ r.step = "sent"
    BY <2>1 DEF Tree!Request, Places, Tree!CategoryAssumption, Parents
  <2>4. /\ forest' \in [tree : Parents, loading : BOOLEAN] /\ forest'.loading
        /\ panel' \in [mode : {"idle", "create", "edit", "merge"}, target : Places,
                      parent : Places, drop : Places]
        /\ panel'.mode = "idle"
    BY <2>2 DEF TreeInv, TreeTypes, Tree!Idle, Places
  <2>5. TreeTypes'
    BY <1>1, <2>2, <2>3, <2>4 DEF TreeInv, TreeTypes
  <2>6. ASSUME ~stale PROVE requests' = {r} /\ Fresh(r)'
    <3>1. requests' = {r}
      BY <2>2, <2>6 DEF TreeInv, InStep, Fresh
    <3> QED
      BY <2>3, <2>4, <3>1 DEF Fresh, Offered
  <2>7. InStep'
    BY <1>1, <1>2, <2>6 DEF InStep
  <2> QED
    BY <2>5, <2>7 DEF TreeInv
<1>5. CASE Tree!AnswerChange(q) /\ q.step # "done"
  <2>1. q.op # "load" /\ requests' = requests \ {q} /\ UNCHANGED <<forest, panel>>
    BY <1>5 DEF Tree!AnswerChange
  <2>2. TreeTypes'
    BY <1>1, <2>1 DEF TreeInv, TreeTypes
  <2>3. ASSUME ~stale PROVE requests' = {} /\ forest'.tree = parents /\ Offered(forest.tree)'
    <3>1. Fresh(q)
      BY <2>3 DEF TreeInv, InStep
    <3> QED
      BY <1>5, <2>1, <3>1 DEF Fresh, Offered
  <2>4. InStep'
    BY <1>1, <1>2, <2>3 DEF InStep
  <2> QED
    BY <2>2, <2>4 DEF TreeInv
<1> QED
  BY <1>3, <1>4, <1>5 DEF Tree!Answer

\* The inductive invariant of the categories: the parents that are there, and what the page
\* and its one request know of them, as long as no request met another or failed.
THEOREM TreesAlwaysCoherent ==
  ASSUME Tree!CategoryAssumption PROVE Tree!Spec => []TreeInv
<1>1. Tree!Init => TreeInv
  BY TreeInit
<1>2. TreeInv /\ [Tree!Next]_Tree!categoryVars => TreeInv'
  <2> SUFFICES ASSUME TreeInv, [Tree!Next]_Tree!categoryVars PROVE TreeInv'
    OBVIOUS
  <2>1. CASE Tree!Refresh
    BY <2>1, RefreshInv
  <2>2. CASE Tree!ClosePanel
    BY <2>2, ClosePanelInv
  <2>3. CASE Tree!Save
    BY <2>3, SaveInv
  <2>4. CASE \E mode \in {"create", "edit", "merge"}, c \in Places : Tree!Open(mode, c)
    BY <2>4, OpenInv
  <2>5. CASE \E c, d \in Places : Tree!Choose(c, d)
    BY <2>5, ChooseInv
  <2>6. CASE \E c \in Categories : Tree!Delete(c)
    BY <2>6, DeleteInv
  <2>7. ASSUME NEW q \in requests, Tree!Serve(q) PROVE TreeInv'
    BY <2>7, ServeLoadInv, ServePlaceInv, ServeDeleteInv, ServeMergeInv DEF Tree!Serve
  <2>8. CASE \E q \in requests : Tree!Lose(q)
    BY <2>8, LoseInv
  <2>9. CASE \E q \in requests : Tree!Answer(q)
    BY <2>9, AnswerInv
  <2>10. CASE UNCHANGED Tree!categoryVars
    BY <2>10 DEF Tree!categoryVars, TreeInv, TreeTypes, InStep, Fresh, Offered, Grounded, Parented
  <2> QED
    BY <2>1, <2>2, <2>3, <2>4, <2>5, <2>6, <2>7, <2>8, <2>9, <2>10 DEF Tree!Next, Places
<1> QED
  BY <1>1, <1>2, PTL DEF Tree!Spec

\* Type correctness; every category hangs under a root, so that the tree shows it, unless a
\* parent was chosen from an old list, or a category was merged into one below it; and the
\* question keeps a category as long as none was deleted.
THEOREM CategoriesAlwaysForest ==
  ASSUME Tree!CategoryAssumption
  PROVE  Tree!Spec => [](Tree!TypeOK /\ Tree!ForestUnlessStale /\ Tree!QuestionsAreKept)
<1>1. ASSUME TreeInv PROVE Tree!TypeOK
  BY <1>1 DEF TreeInv, TreeTypes, Tree!TypeOK, Parented, Parents, Places, Tree!There
<1>2. ASSUME TreeInv PROVE Tree!ForestUnlessStale
  BY <1>2, GroundedIsRooted
     DEF TreeInv, TreeTypes, InStep, Tree!ForestUnlessStale, Tree!CategoriesAreInTree
<1>3. ASSUME TreeInv PROVE Tree!QuestionsAreKept
  BY <1>3 DEF TreeInv, TreeTypes, Tree!QuestionsAreKept
<1> QED
  BY <1>1, <1>2, <1>3, TreesAlwaysCoherent, PTL

\* With nothing under way the page shows the tree of the server, unless a request met another
\* or failed.
THEOREM QuietTreeIsAlwaysCurrent ==
  ASSUME Tree!CategoryAssumption PROVE Tree!Spec => []Tree!QuietTreeIsCurrent
<1>1. TreeInv => Tree!QuietTreeIsCurrent
  BY DEF TreeInv, InStep, Tree!QuietTreeIsCurrent
<1> QED
  BY <1>1, TreesAlwaysCoherent, PTL

=============================================================================

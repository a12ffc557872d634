------------------------ MODULE AssessmentAttempts ------------------------
(***************************************************************************)
(* The attempts of one participant at the assessments delivered to him     *)
(* (services/assessment_service.py, services/star_service.py), with the     *)
(* requests of the participant and of the administrators overlapping.      *)
(*                                                                         *)
(* A request is a READ COMMITTED transaction: each of its reads sees what  *)
(* is committed at that moment, the session keeps the rows it read first,   *)
(* and a commit writes the columns that differ from what was read.  The    *)
(* membership row, which counts stars, is read first of all: the tenant     *)
(* dependency loads it to authorise the request.                           *)
(*                                                                         *)
(* The answers to an attempt are one value; Score gives its percentage.    *)
(***************************************************************************)
EXTENDS Integers, FiniteSets, FiniteSetsExt

CONSTANTS
  Deliveries,   \* deliveries of the participant
  Requests,     \* requests that can be in flight together
  Settings,     \* what create_delivery and update_delivery may be given
  Answers,      \* selections a participant can save
  Score,        \* score_percent of each selection
  Goal,         \* a milestone: tests_completed at which an achievement unlocks
  Extra,        \* extra_minutes of an extension
  MaxNumber,    \* bound: attempts_allowed of a delivery
  MaxTime,      \* bound: the last instant of the model
  MaxRequests   \* bound: requests that ever begin

Numbers  == 1 .. MaxNumber
NoTime   == -1                  \* a timestamp that is NULL, a duration that is not set
NoAnswer == "unanswered"        \* no assessment_attempt_answers row
Nobody   == "nobody"

Setting == [from : 0 .. MaxTime, until : {NoTime} \cup 0 .. MaxTime,
            allowed : Numbers, duration : {NoTime} \cup Nat]

AttemptsAssumption ==
  /\ Settings \subseteq Setting
  /\ NoAnswer \notin Answers /\ Score \in [Answers \cup {NoAnswer} -> 0 .. 100]
  /\ Goal \in Nat \ {0} /\ Extra \in Nat \ {0}
  /\ MaxNumber \in Nat /\ MaxTime \in Nat /\ MaxRequests \in Nat
  /\ Nobody \notin Requests

VARIABLES
  setup,      \* assessment_deliveries: window, attempts_allowed, duration
  attempts,   \* assessment_attempts of the participant by delivery and number
  member,     \* tenant_memberships: total_stars, tests_completed
  unlocked,   \* user_achievements rows of the milestone
  now,        \* the clock
  op,         \* what each request was asked for
  stage,      \* how far it got
  snap,       \* what it has read
  holder,     \* the request that holds the lock of the membership row
  granted,    \* the most attempts ever allowed, to state AttemptsNumbered
  begun       \* requests begun so far, for MaxRequests

stored == <<setup, attempts, member, unlocked>>
vars   == <<stored, now, op, stage, snap, holder, granted, begun>>

-----------------------------------------------------------------------------
Absent == [status |-> "absent", expires |-> NoTime, answer |-> NoAnswer,
           graded |-> NoAnswer, stars |-> 0]

Used(d)       == {n \in Numbers : attempts[d][n].status # "absent"}
InProgress(d) == {n \in Numbers : attempts[d][n].status = "in_progress"}
Scored        == {a \in Deliveries \X Numbers : attempts[a[1]][a[2]].status = "scored"}

\* Mutant: a linear scale.
StarsLinear(percent) == percent \div 20 + 1

\* compute_stars
Stars(percent) ==
  CASE percent >= 90 -> 5
    [] percent >= 75 /\ percent < 90 -> 4
    [] percent >= 60 /\ percent < 75 -> 3
    [] percent >= 40 /\ percent < 60 -> 2
    [] OTHER -> 1

Late(expires, time) == expires # NoTime /\ time > expires

Idle == [kind |-> "none"]

Operations ==
       [kind : {"start", "extend", "retake", "stop"}, on : Deliveries]
  \cup [kind : {"update"}, on : Deliveries, to : Settings]
  \cup (UNION {[kind : {"submit"}, on : {d}, number : Used(d)] : d \in Deliveries})
  \cup (UNION {[kind : {"save"}, on : {d}, number : Used(d), answer : Answers] : d \in Deliveries})

Init ==
  /\ setup \in [Deliveries -> Settings]
  /\ attempts = [d \in Deliveries |-> [n \in Numbers |-> Absent]]
  /\ member = [stars |-> 0, tests |-> 0]
  /\ unlocked = 0
  /\ now = 0
  /\ op = [r \in Requests |-> Idle]
  /\ stage = [r \in Requests |-> "idle"]
  /\ snap = [r \in Requests |-> Idle]
  /\ holder = Nobody
  /\ granted = [d \in Deliveries |-> setup[d].allowed]
  /\ begun = 0

-----------------------------------------------------------------------------
\* Steps of a request.

Attempt(r) == attempts[op[r].on][op[r].number]

\* The request is authorised; the membership row is now in its session.
Begin(r) ==
  /\ stage[r] = "idle"
  /\ begun < MaxRequests
  /\ begun' = begun + 1
  /\ \E o \in Operations : op' = [op EXCEPT ![r] = o]
  /\ stage' = [stage EXCEPT ![r] = "begun"]
  /\ snap' = [snap EXCEPT ![r] = [member |-> member]]
  /\ UNCHANGED <<stored, now, holder, granted>>

\* A response is sent and the session closed: without a commit, a rollback.
Leave(r) ==
  /\ op' = [op EXCEPT ![r] = Idle]
  /\ stage' = [stage EXCEPT ![r] = "idle"]
  /\ snap' = [snap EXCEPT ![r] = Idle]

Reach(r, to, read) ==
  /\ stage' = [stage EXCEPT ![r] = to]
  /\ snap' = [snap EXCEPT ![r] = read]
  /\ UNCHANGED op

Reads == UNCHANGED <<stored, now, holder, granted, begun>>

At(r, kind, place) == op[r].kind = kind /\ stage[r] = place

\* start_attempt: the delivery and its window.
FindDelivery(r) ==
  LET s == setup[op[r].on]
  IN  /\ At(r, "start", "begun")
      /\ IF now < s.from \/ Late(s.until, now)
         THEN Leave(r)
         ELSE Reach(r, "open", [setup |-> s, at |-> now])
      /\ Reads

\* An attempt in progress is handed out again, whether it has expired or not.
Resume(r) ==
  /\ At(r, "start", "open")
  /\ InProgress(op[r].on) # {}
  /\ Leave(r)
  /\ Reads

\* Mutant: the attempt in progress is not looked for.
FindNothing(r) ==
  /\ At(r, "start", "open")
  /\ Reach(r, "none", snap[r])
  /\ Reads

FindNone(r) ==
  /\ At(r, "start", "open")
  /\ InProgress(op[r].on) = {}
  /\ Reach(r, "none", snap[r])
  /\ Reads

\* Mutant: off by one.
CountLate(r) ==
  LET n == Cardinality(Used(op[r].on))
  IN  /\ At(r, "start", "none")
      /\ IF n > snap[r].setup.allowed
         THEN Leave(r)
         ELSE Reach(r, "counted", [setup |-> snap[r].setup, at |-> snap[r].at, number |-> n + 1])
      /\ Reads

\* The attempts are counted and compared with attempts_allowed as read before.
Count(r) ==
  LET n == Cardinality(Used(op[r].on))
  IN  /\ At(r, "start", "none")
      /\ IF n >= snap[r].setup.allowed
         THEN Leave(r)
         ELSE Reach(r, "counted", [setup |-> snap[r].setup, at |-> snap[r].at, number |-> n + 1])
      /\ Reads

Expiry(s, at) == IF s.duration # NoTime THEN at + s.duration ELSE s.until

\* The insert: the unique constraint on the attempt number may refuse it.
Insert(r) ==
  LET d == op[r].on
      n == snap[r].number
  IN  /\ At(r, "start", "counted")
      /\ attempts' = IF n \in Used(d) THEN attempts
                     ELSE [attempts EXCEPT ![d][n] =
                             [Absent EXCEPT !.status = "in_progress",
                                            !.expires = Expiry(snap[r].setup, snap[r].at)]]
      /\ Leave(r)
      /\ UNCHANGED <<setup, member, unlocked, now, holder, granted, begun>>

\* Mutant: the status of the attempt is not asked for.
ReadAnyAttempt(r) ==
  /\ stage[r] = "begun"
  /\ op[r].kind \in {"save", "submit"}
  /\ Reach(r, "read", [row |-> Attempt(r), member |-> snap[r].member])
  /\ Reads

\* autosave_answers and submit_attempt read the attempt and its answers and
\* refuse what is not in progress.  A submission that comes too late marks the
\* attempt expired, flushes, and raises: the mark is rolled back.
ReadAttempt(r) ==
  /\ stage[r] = "begun"
  /\ \/ /\ op[r].kind = "save"
        /\ IF Attempt(r).status # "in_progress" THEN Leave(r)
           ELSE Reach(r, "read", [row |-> Attempt(r)])
     \/ /\ op[r].kind = "submit"
        /\ IF Attempt(r).status # "in_progress" \/ Late(Attempt(r).expires, now) THEN Leave(r)
           ELSE Reach(r, "read", [row |-> Attempt(r), member |-> snap[r].member])
  /\ Reads

\* A flushed submission holds the row of its attempt, and those of the answers
\* it has marked, until it commits.
Submitting(d, n) == {q \in Requests : holder = q /\ op[q].on = d /\ op[q].number = n}

MarkedBySubmission(d, n) == \E q \in Submitting(d, n) : snap[q].row.answer # NoAnswer

\* The answer row is inserted or updated; expires_at plays no part.  A row that
\* another request has inserted meanwhile is found by the SELECT before the
\* insert, and updated, or refuses the insert by its unique constraint.
SaveAnswer(r) ==
  LET d == op[r].on
      n == op[r].number
      loaded == snap[r].row.answer
  IN  /\ At(r, "save", "read")
      /\ \/ /\ loaded = op[r].answer \/ (loaded = NoAnswer /\ Attempt(r).answer # NoAnswer)
            /\ UNCHANGED attempts
         \/ /\ loaded # op[r].answer
            /\ Attempt(r).answer # NoAnswer => ~MarkedBySubmission(d, n)
            /\ attempts' = [attempts EXCEPT ![d][n].answer = op[r].answer]
      /\ Leave(r)
      /\ UNCHANGED <<setup, member, unlocked, now, holder, granted, begun>>

\* Mutant: the membership row is not locked until the commit.
FlushUnlocked(r) ==
  /\ At(r, "submit", "read")
  /\ Reach(r, "flushed", snap[r])
  /\ Reads

\* The first flush of submit_attempt updates the attempt and the membership
\* row, and holds both row locks until the commit.
Flush(r) ==
  /\ At(r, "submit", "read")
  /\ holder = Nobody
  /\ holder' = r
  /\ Reach(r, "flushed", snap[r])
  /\ UNCHANGED <<stored, now, granted, begun>>

\* check_and_unlock_achievements, with tests_completed of the session.
Unlock(r) ==
  /\ At(r, "submit", "flushed")
  /\ Reach(r, "unlocked",
       [row |-> snap[r].row, member |-> snap[r].member,
        unlock |-> unlocked = 0 /\ snap[r].member.tests + 1 >= Goal])
  /\ Reads

\* The commit of the submission: score, stars, counters and achievement.
Commit(r) ==
  LET answer == snap[r].row.answer
      stars  == Stars(Score[answer])
  IN  /\ At(r, "submit", "unlocked")
      /\ attempts' = [attempts EXCEPT ![op[r].on][op[r].number] =
                        [@ EXCEPT !.status = "scored", !.graded = answer, !.stars = stars]]
      /\ member' = [stars |-> snap[r].member.stars + stars, tests |-> snap[r].member.tests + 1]
      /\ unlocked' = IF snap[r].unlock THEN unlocked + 1 ELSE unlocked
      /\ holder' = Nobody
      /\ Leave(r)
      /\ UNCHANGED <<setup, now, granted, begun>>

-----------------------------------------------------------------------------
\* Requests of administrators: one read, one commit.

AdminKinds == {"extend", "retake", "update", "stop"}

\* The delivery, and for an extension its running attempts that can expire.
AdminRead(r) ==
  LET d == op[r].on
  IN  /\ op[r].kind \in AdminKinds
      /\ stage[r] = "begun"
      /\ Reach(r, "read", [setup |-> setup[d],
                           rows  |-> {n \in InProgress(d) : attempts[d][n].expires # NoTime},
                           until |-> [n \in Numbers |-> attempts[d][n].expires]])
      /\ Reads

\* A column is written when it differs from the one that was read.
Merged(current, loaded, new) == IF new = loaded THEN current ELSE new

ChangeSetup(r, new) ==
  LET d == op[r].on
      old == snap[r].setup
  IN  setup' = [setup EXCEPT ![d] =
        [c \in DOMAIN old |-> Merged(setup[d][c], old[c], new[c])]]

\* extend-time adds to the expiry that was read; it waits for the lock of a
\* submission that has been flushed.
Extend(r) ==
  LET d == op[r].on
  IN  /\ At(r, "extend", "read")
      /\ \A n \in snap[r].rows : Submitting(d, n) = {}
      /\ attempts' = [attempts EXCEPT ![d] =
           [n \in Numbers |-> IF n \in snap[r].rows
                              THEN [@[n] EXCEPT !.expires = snap[r].until[n] + Extra]
                              ELSE @[n]]]
      /\ UNCHANGED setup

GrantRetake(r) ==
  /\ At(r, "retake", "read")
  /\ snap[r].setup.allowed < MaxNumber
  /\ ChangeSetup(r, [snap[r].setup EXCEPT !.allowed = @ + 1])
  /\ UNCHANGED attempts

UpdateDelivery(r) ==
  /\ At(r, "update", "read")
  /\ ChangeSetup(r, op[r].to)
  /\ UNCHANGED attempts

StopDelivery(r) ==
  /\ At(r, "stop", "read")
  /\ ChangeSetup(r, [snap[r].setup EXCEPT !.until = now])
  /\ UNCHANGED attempts

Administer(r) ==
  /\ Extend(r) \/ GrantRetake(r) \/ UpdateDelivery(r) \/ StopDelivery(r)
  /\ granted' = [d \in Deliveries |-> Max({granted[d], setup'[d].allowed})]
  /\ Leave(r)
  /\ UNCHANGED <<member, unlocked, now, holder, begun>>

Tick ==
  /\ now < MaxTime
  /\ now' = now + 1
  /\ UNCHANGED <<stored, op, stage, snap, holder, granted, begun>>

Start(r)  == FindDelivery(r) \/ Resume(r) \/ FindNone(r) \/ Count(r) \/ Insert(r)
Submit(r) == Flush(r) \/ Unlock(r) \/ Commit(r)

Next ==
  \/ \E r \in Requests : \/ Begin(r) \/ Start(r) \/ ReadAttempt(r) \/ SaveAnswer(r)
                         \/ Submit(r) \/ AdminRead(r) \/ Administer(r)
  \/ Tick

Spec == Init /\ [][Next]_vars

-----------------------------------------------------------------------------
Row == [status : {"absent", "in_progress", "scored"}, expires : {NoTime} \cup Nat,
        answer : Answers \cup {NoAnswer}, graded : Answers \cup {NoAnswer}, stars : 0 .. 5]

\* Every column holds a value of its domain.
TypeOK ==
  /\ setup \in [Deliveries -> Setting]
  /\ attempts \in [Deliveries -> [Numbers -> Row]]
  /\ member \in [stars : Nat, tests : Nat]
  /\ unlocked \in Nat
  /\ now \in 0 .. MaxTime
  /\ stage \in [Requests -> {"idle", "begun", "open", "none", "counted", "read", "flushed", "unlocked"}]
  /\ \A r \in Requests : stage[r] = "idle" <=> op[r] = Idle
  /\ holder \in Requests \cup {Nobody}
  /\ granted \in [Deliveries -> Numbers]

\* Attempts are numbered without gaps, and there are never more of them than
\* attempts_allowed has been at some time, although starts that overlap count
\* the same attempts and read attempts_allowed too early.
AttemptsNumbered ==
  \A d \in Deliveries :
    /\ Used(d) = 1 .. Cardinality(Used(d))
    /\ Cardinality(Used(d)) <= granted[d]

\* A submission sent twice may lose a count but never counts twice: the
\* membership is read before the attempt is seen in progress.
NeverOvercounted == member.tests <= Cardinality(Scored)

\* The milestone is unlocked once: user_achievements are read under the lock
\* of the membership row, so its unique constraint never fails a submission.
MilestoneOnce == unlocked <= 1

\* "One in-progress attempt at a time" (docs/assessments-ai-roadmap.md).
OneInProgress == \A d \in Deliveries : Cardinality(InProgress(d)) <= 1

\* "Atomically increment total_stars and tests_completed" (award_stars): the
\* membership row counts exactly the stars of the scored attempts.
StarsCounted ==
  /\ member.tests = Cardinality(Scored)
  /\ member.stars = MapThenSumSet(LAMBDA a : attempts[a[1]][a[2]].stars, Scored)

\* The review of a scored attempt shows the answers its score was given for.
ScoreMatchesAnswers ==
  \A a \in Scored :
    attempts[a[1]][a[2]].answer = attempts[a[1]][a[2]].graded

\* One request is handled before the next begins.
OneByOne == \A q, r \in Requests : q = r

\* What start_attempt, autosave_answers, submit_attempt and the administrators leave of the
\* attempts, the stars and the milestone: however requests overlap, numbers without gaps
\* and nothing counted twice; one by one also all that the code says of them.
AttemptsAreTrue ==
  /\ AttemptsNumbered /\ NeverOvercounted /\ MilestoneOnce
  /\ OneByOne => OneInProgress /\ StarsCounted /\ ScoreMatchesAnswers

\* "Allow a participant to re-take this delivery by incrementing
\* attempts_allowed" (grant_retake): while attempts are left, start_attempt
\* hands out no attempt that can no longer be submitted.
RetakeIsOpen ==
  [][\A r \in Requests :
       Resume(r) /\ Cardinality(Used(op[r].on)) < setup[op[r].on].allowed =>
         \E n \in InProgress(op[r].on) : ~Late(attempts[op[r].on][n].expires, now)]_vars
=============================================================================

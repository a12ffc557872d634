----------------------------- MODULE TestTaking -----------------------------
(***************************************************************************)
(* A participant takes a test: the page of a delivery,                     *)
(* src/frontend/app/(app)/assessments/take/[deliveryId]/page.tsx, with its *)
(* debounced autosave, its countdown and its submission, and what the      *)
(* server makes of the requests, src/backend/app/services/                 *)
(* assessment_service.py (one request at a time; AssessmentAttempts looks  *)
(* inside overlapping ones).                                               *)
(*                                                                         *)
(* Answers are partial functions from questions to sets of options.  The   *)
(* requests under way form a set: they may be served and answered in any   *)
(* order.                                                                  *)
(***************************************************************************)
EXTENDS Integers, FiniteSets, Functions

CONSTANTS
    Questions,    \* the questions of the test
    Multi,        \* those where several options may be selected
    Options,      \* the options of a question
    Allowed,      \* attempts_allowed of the delivery
    MaxChoices,   \* bound: options the participant clicks
    MaxCalls,     \* bound: requests
    MaxRenewals,  \* bound: access tokens renewed while the page is open
    MaxLost       \* bound: requests or answers that are lost

TakingAssumption ==
    /\ Multi \subseteq Questions
    /\ {Allowed, MaxChoices, MaxCalls, MaxRenewals, MaxLost} \subseteq Nat

Attempts == 1..Allowed
NoAnswers == [q \in {} |-> {}]
Answers == UNION {[Q -> SUBSET Options] : Q \in SUBSET Questions}

VARIABLES
    timed,      \* the delivery has a duration
    status,     \* status[a]: the row of attempt a on the server
    late,       \* late[a]: its expires_at has passed
    stored,     \* stored[a]: the answers of attempt a on the server
    screen,     \* state of the page
    attempt,    \* attemptPayload: the attempt the page works on, or 0
    answers,    \* answers of the page
    submitting, \* submitting of the page
    submitted,  \* submittedRef: the countdown has submitted
    left,       \* timeLeft: "none" (null), "some" or "zero"
    watch,      \* what the countdown's closure has seen: attempt and submitting
    autosave,   \* the answers that wait for the debounce of 500 ms, and for whom
    calls,      \* the requests under way
    count,      \* choices, requests, renewals and losses so far
    shown,      \* history: shown[a]: the answers the page showed for a question of a
    doubt       \* history: the last save of the answers failed or was overtaken

server == <<timed, status, late, stored>>
page == <<screen, attempt, answers, submitting, submitted, left, watch>>
history == <<shown, doubt>>
takingVars == <<server, page, autosave, calls, count, history>>

NoSave == [attempt |-> 0, answers |-> NoAnswers]

Init ==
    /\ timed \in BOOLEAN
    /\ status = [a \in Attempts |-> "none"]
    /\ late = [a \in Attempts |-> FALSE]
    /\ stored = [a \in Attempts |-> NoAnswers]
    /\ screen = "start"
    /\ attempt = 0
    /\ answers = NoAnswers
    /\ submitting = FALSE
    /\ submitted = FALSE
    /\ left = "none"
    /\ watch = [attempt |-> 0, busy |-> FALSE]
    /\ autosave = NoSave
    /\ calls = {}
    /\ count = [choices |-> 0, calls |-> 0, renewals |-> 0, lost |-> 0]
    /\ shown = [a \in Attempts |-> {}]
    /\ doubt = [last |-> 0, open |-> FALSE]

(***************************************************************************)
(* Requests                                                                *)
(***************************************************************************)

Send(kind, a, ans) ==
    /\ count.calls < MaxCalls
    /\ count' = [count EXCEPT !.calls = @ + 1]
    /\ calls' = calls \cup {[id |-> count'.calls, kind |-> kind, attempt |-> a,
                             answers |-> ans, reply |-> "none"]}

Answer(c, reply) == calls' = (calls \ {c}) \cup {[c EXCEPT !.reply = reply]}
Waiting(c, kind) == c.kind = kind /\ c.reply = "none"

(***************************************************************************)
(* The server                                                              *)
(***************************************************************************)

InProgress == {a \in Attempts : status[a] = "in_progress"}
Fresh == {a \in Attempts : status[a] = "none" /\ \A b \in 1..(a - 1) : status[b] # "none"}

(* start_attempt: the attempt in progress, or a new one while attempts remain. *)
ServeStart(c) ==
    /\ Waiting(c, "start")
    /\ \/ \E a \in InProgress : /\ calls' = (calls \ {c}) \cup
                                     {[c EXCEPT !.reply = "ok", !.attempt = a]}
                                /\ UNCHANGED status
       \/ /\ InProgress = {}
          /\ \E a \in Fresh : /\ calls' = (calls \ {c}) \cup
                                   {[c EXCEPT !.reply = "ok", !.attempt = a]}
                              /\ status' = [status EXCEPT ![a] = "in_progress"]
       \/ /\ InProgress = {} /\ Fresh = {}
          /\ Answer(c, "error")
          /\ UNCHANGED status
    /\ UNCHANGED <<timed, late, stored, page, autosave, count, history>>

(* autosave_answers: one row per question, updated or inserted, as long as the
   attempt is in progress.  The page ignores the answer. *)
ServeSave(c) ==
    /\ Waiting(c, "save")
    /\ stored' = IF status[c.attempt] = "in_progress"
                 THEN [stored EXCEPT ![c.attempt] =
                         [q \in DOMAIN @ \cup DOMAIN c.answers |->
                            IF q \in DOMAIN c.answers THEN c.answers[q] ELSE @[q]]]
                 ELSE stored
    /\ calls' = calls \ {c}
    /\ doubt' = IF c.id > doubt.last THEN [last |-> c.id, open |-> FALSE]
                ELSE [doubt EXCEPT !.open = TRUE]
    /\ UNCHANGED <<timed, status, late, page, autosave, count, shown>>

(* submit_attempt scores the stored answers; of an attempt that is over, or
   past its expiry, it says so.  (The expired mark is rolled back.) *)
ServeSubmit(c) ==
    /\ Waiting(c, "submit")
    /\ IF status[c.attempt] = "in_progress" /\ ~late[c.attempt]
       THEN /\ status' = [status EXCEPT ![c.attempt] = "scored"]
            /\ Answer(c, "ok")
       ELSE /\ Answer(c, "error")
            /\ UNCHANGED status
    /\ UNCHANGED <<timed, late, stored, page, autosave, count, history>>

(* A request, or the answer to it, is lost. *)
Lose(c) ==
    /\ c.reply # "error"
    /\ count.lost < MaxLost
    /\ count' = [count EXCEPT !.lost = @ + 1]
    /\ IF c.kind = "save"
       THEN /\ calls' = calls \ {c}
            /\ doubt' = IF c.id > doubt.last THEN [last |-> c.id, open |-> TRUE] ELSE doubt
       ELSE Answer(c, "error") /\ UNCHANGED doubt
    /\ UNCHANGED <<server, page, autosave, shown>>

Expires(a) ==
    /\ timed /\ status[a] = "in_progress" /\ ~late[a]
    /\ late' = [late EXCEPT ![a] = TRUE]
    /\ UNCHANGED <<timed, status, stored, page, autosave, calls, count, history>>

(***************************************************************************)
(* The page                                                                *)
(***************************************************************************)

(* The countdown's effect runs again when the screen changes, or timeLeft
   becomes or ceases to be null, and keeps what it sees then. *)
Watching(s, l) ==
    watch' = IF s # screen \/ (l = "none") # (left = "none")
             THEN [attempt |-> attempt', busy |-> submitting'] ELSE watch

GoTo(s) ==
    /\ screen' = s
    /\ Watching(s, left)

(* The context holds another access token: the effect that awaits the token
   shows the start screen, whatever the page is at. *)
TokenRenewed ==
    /\ count.renewals < MaxRenewals
    /\ count' = [count EXCEPT !.renewals = @ + 1]
    /\ UNCHANGED <<attempt, answers, submitting, submitted, left>>
    /\ GoTo("start")
    /\ UNCHANGED <<server, autosave, calls, history>>

(* startAttempt *)
StartAttempt ==
    /\ screen = "start"
    /\ Send("start", 0, NoAnswers)
    /\ UNCHANGED <<attempt, answers, submitting, submitted, left>>
    /\ GoTo("loading")
    /\ UNCHANGED <<server, autosave, history>>

(* Mutant: the answers of the previous attempt are kept. *)
AttemptStartedKept(c) ==
    /\ c.kind = "start" /\ c.reply # "none"
    /\ calls' = calls \ {c}
    /\ IF c.reply = "ok"
       THEN /\ attempt' = c.attempt
            /\ left' = IF ~timed THEN left ELSE IF late[c.attempt] THEN "zero" ELSE "some"
            /\ screen' = "question"
       ELSE /\ screen' = "start"
            /\ UNCHANGED <<attempt, left>>
    /\ UNCHANGED <<answers, submitting, submitted>>
    /\ Watching(screen', left')
    /\ UNCHANGED <<server, autosave, count, history>>

(* The answer to startAttempt: the attempt, with no answers, from its first
   question; or the start screen again. *)
AttemptStarted(c) ==
    /\ c.kind = "start" /\ c.reply # "none"
    /\ calls' = calls \ {c}
    /\ IF c.reply = "ok"
       THEN /\ attempt' = c.attempt
            /\ answers' = NoAnswers
            /\ left' = IF ~timed THEN left ELSE IF late[c.attempt] THEN "zero" ELSE "some"
            /\ screen' = "question"
       ELSE /\ screen' = "start"
            /\ UNCHANGED <<attempt, answers, left>>
    /\ UNCHANGED <<submitting, submitted>>
    /\ Watching(screen', left')
    /\ UNCHANGED <<server, autosave, count, history>>

(* What the answers to q become when option o is clicked. *)
Selected(q, o) ==
    LET current == IF q \in DOMAIN answers THEN answers[q] ELSE {}
        next == IF q \notin Multi THEN {o}
                ELSE IF o \in current THEN current \ {o} ELSE current \cup {o}
    IN  [p \in DOMAIN answers \cup {q} |-> IF p = q THEN next ELSE answers[p]]

(* Mutant: only the answer that was clicked waits for the debounce. *)
AutosaveOne(ans, q) ==
    autosave' = [attempt |-> attempt, answers |-> [p \in {q} |-> ans[p]]]

(* autosave: all the answers of the page wait for the debounce, in place of
   those that waited. *)
Autosave(ans, q) == autosave' = [attempt |-> attempt, answers |-> ans]

(* selectAnswer *)
SelectAnswer(q, o) ==
    /\ screen = "question"
    /\ count.choices < MaxChoices
    /\ count' = [count EXCEPT !.choices = @ + 1]
    /\ answers' = Selected(q, o)
    /\ Autosave(answers', q)
    /\ shown' = [shown EXCEPT ![attempt] = @ \cup {<<q, answers'[q]>>}]
    /\ UNCHANGED <<server, screen, attempt, submitting, submitted, left, watch,
                   calls, doubt>>

(* The 500 ms are over. *)
AutosaveFires ==
    /\ autosave # NoSave
    /\ Send("save", autosave.attempt, autosave.answers)
    /\ autosave' = NoSave
    /\ UNCHANGED <<server, page, history>>

(* The buttons Review and Back to questions; the questions of the review lead
   back too. *)
Review == screen = "question" /\ GoTo("review")
BackToQuestions == screen = "review" /\ GoTo("question")

Move ==
    /\ UNCHANGED <<attempt, answers, submitting, submitted, left>>
    /\ Review \/ BackToQuestions
    /\ UNCHANGED <<server, autosave, calls, count, history>>

(* submitTest, with what its closure has seen: nothing without an attempt or
   while a submission is under way.  What waits for the debounce goes on
   waiting. *)
SubmitTest(a, busy) ==
    IF a = 0 \/ busy
    THEN UNCHANGED <<submitting, calls, count>>
    ELSE Send("submit", a, NoAnswers) /\ submitting' = TRUE

ClickSubmit ==
    /\ screen = "review" /\ ~submitting
    /\ SubmitTest(attempt, submitting)
    /\ UNCHANGED <<server, screen, attempt, answers, submitted, left, watch,
                   autosave, shown, doubt>>

(* The countdown reaches zero, about when the attempt expires on the server:
   it submits, once in the life of the page. *)
TimeUp ==
    /\ screen \in {"question", "review"}
    /\ left # "none"
    /\ ~(left = "zero" /\ submitted)
    /\ left' = "zero"
    /\ submitted' = TRUE
    /\ IF submitted THEN UNCHANGED <<submitting, calls, count>>
       ELSE SubmitTest(watch.attempt, watch.busy)
    /\ UNCHANGED <<server, screen, attempt, answers, watch, autosave, shown, doubt>>

(* The answer to submitTest: the result, or an error on the same screen. *)
Submitted(c) ==
    /\ c.kind = "submit" /\ c.reply # "none"
    /\ calls' = calls \ {c}
    /\ submitting' = FALSE
    /\ screen' = IF c.reply = "ok" THEN "result" ELSE screen
    /\ UNCHANGED <<attempt, answers, submitted, left>>
    /\ Watching(screen', left)
    /\ UNCHANGED <<server, autosave, count, history>>

Next ==
    \/ \E c \in calls :
         \/ ServeStart(c) \/ ServeSave(c) \/ ServeSubmit(c) \/ Lose(c)
         \/ AttemptStarted(c) \/ Submitted(c)
    \/ \E a \in Attempts : Expires(a)
    \/ TokenRenewed \/ StartAttempt \/ AutosaveFires \/ Move \/ ClickSubmit \/ TimeUp
    \/ \E q \in Questions, o \in Options : SelectAnswer(q, o)

Spec == Init /\ [][Next]_takingVars

(***************************************************************************)
(* Properties                                                              *)
(***************************************************************************)

(* The types of the variables. *)
TypeOK ==
    /\ timed \in BOOLEAN
    /\ status \in [Attempts -> {"none", "in_progress", "scored"}]
    /\ late \in [Attempts -> BOOLEAN]
    /\ stored \in [Attempts -> Answers]
    /\ screen \in {"loading", "start", "question", "review", "result"}
    /\ attempt \in 0..Allowed
    /\ answers \in Answers
    /\ submitting \in BOOLEAN /\ submitted \in BOOLEAN
    /\ left \in {"none", "some", "zero"}
    /\ watch \in [attempt : 0..Allowed, busy : BOOLEAN]
    /\ autosave \in [attempt : 0..Allowed, answers : Answers]
    /\ calls \subseteq [id : 1..MaxCalls, kind : {"start", "save", "submit"},
                        attempt : 0..Allowed, answers : Answers,
                        reply : {"none", "ok", "error"}]

(* Saves of the answers that wait for the debounce, or for the server. *)
Unsaved == autosave # NoSave \/ \E c \in calls : c.kind = "save"

(* While an attempt can still be submitted, every answer the page shows is
   stored, unless a save waits or is under way, or the last save was lost or
   overtaken by an older one: each save replaces the one that waited, which is
   right only as each carries every answer, also after the page has been sent back
   to the start screen and resumed. *)
AnswersAreStored ==
    attempt # 0 /\ status[attempt] = "in_progress" /\ ~Unsaved /\ ~doubt.open =>
        \A q \in DOMAIN answers :
            q \in DOMAIN stored[attempt] /\ stored[attempt][q] = answers[q]

(* What is stored for an attempt is what the page showed for that attempt at some
   time: answers of one attempt never end up in another, whatever is started,
   resumed and saved late. *)
StoredWasShown ==
    \A a \in Attempts : \A q \in DOMAIN stored[a] : <<q, stored[a][q]>> \in shown[a]

=============================================================================

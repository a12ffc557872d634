---------------------------- MODULE MCAssessments ----------------------------
(* The parts of the assessments module for TLC, each on a small instance.  They run   *)
(* side by side in one exploration: a behaviour is about one part, whose variables    *)
(* take the first slots, and no part shares state with another here.                  *)
EXTENDS Integers, Sequences, FiniteSets, TLC

CONSTANTS d1, r1, r2, r3

VARIABLES
    open,  \* the part that a behaviour is about; its variables:
   p1, p2, p3, p4, p5, p6, p7, p8, p9, p10, p11, p12, p13, p14, p15, p16, p17

slots == <<open, p1, p2, p3, p4, p5, p6, p7, p8, p9, p10, p11, p12, p13, p14, p15, p16,
          p17>>

\* The slots that a part with so many variables does not use.
Rest16 == <<p17>>
Rest14 == <<p15, p16, Rest16>>
Rest13 == <<p14, Rest14>>
Rest11 == <<p12, p13, Rest13>>
Rest9 == <<p10, p11, Rest11>>
Rest4 == <<p5, p6, p7, p8, p9, Rest9>>
Off16 == p17 = "off"
Off14 == p15 = "off" /\ p16 = "off" /\ Off16
Off13 == p14 = "off" /\ Off14
Off11 == p12 = "off" /\ p13 = "off" /\ Off13
Off9 == p10 = "off" /\ p11 = "off" /\ Off11
Off4 == p5 = "off" /\ p6 = "off" /\ p7 = "off" /\ p8 = "off" /\ p9 = "off" /\ Off9

\* One attempt of one time unit, two in a window that closes at 1, two from 1 on.
Limits == {[from |-> 0, until |-> -1, allowed |-> 1, duration |-> 1],
           [from |-> 0, until |-> 1, allowed |-> 2, duration |-> -1],
           [from |-> 1, until |-> -1, allowed |-> 2, duration |-> -1]}
Scores == "right" :> 100 @@ "wrong" :> 30 @@ "unanswered" :> 30

\* Three categories one in the other, and one that is not there yet.
Chain == 1 :> 0 @@ 2 :> 1 @@ 3 :> 2 @@ 4 :> -2

\* Two requests of the participant and the administrators that overlap, and six one by one.
Overlap == INSTANCE AssessmentAttempts WITH Deliveries <- {d1}, Settings <- Limits,
    Answers <- {"right", "wrong"}, Score <- Scores, Goal <- 1, Extra <- 1, MaxNumber <- 2,
    MaxTime <- 2, Requests <- {r1, r2}, MaxRequests <- 4, setup <- p1, attempts <- p2,
    member <- p3, unlocked <- p4, now <- p5, op <- p6, stage <- p7, snap <- p8,
    holder <- p9, granted <- p10, begun <- p11

Alone == INSTANCE AssessmentAttempts WITH Deliveries <- {d1}, Settings <- Limits,
    Answers <- {"right", "wrong"}, Score <- Scores, Goal <- 1, Extra <- 1, MaxNumber <- 2,
    MaxTime <- 2, Requests <- {r3}, MaxRequests <- 6, setup <- p1, attempts <- p2,
    member <- p3, unlocked <- p4, now <- p5, op <- p6, stage <- p7, snap <- p8,
    holder <- p9, granted <- p10, begun <- p11

Taking == INSTANCE TestTaking WITH Questions <- {1, 2}, Multi <- {2}, Options <- {"a"},
    Allowed <- 2, MaxChoices <- 2, MaxCalls <- 4, MaxRenewals <- 1, MaxLost <- 1,
    timed <- p1, status <- p2, late <- p3, stored <- p4, screen <- p5, attempt <- p6,
    answers <- p7, submitting <- p8, submitted <- p9, left <- p10, watch <- p11,
    autosave <- p12, calls <- p13, count <- p14, shown <- p15, doubt <- p16

\* A delivery that allows one attempt only: the second start is refused.
Once == INSTANCE TestTaking WITH Questions <- {1, 2}, Multi <- {2}, Options <- {"a"},
    Allowed <- 1, MaxChoices <- 1, MaxCalls <- 3, MaxRenewals <- 1, MaxLost <- 1,
    timed <- p1, status <- p2, late <- p3, stored <- p4, screen <- p5, attempt <- p6,
    answers <- p7, submitting <- p8, submitted <- p9, left <- p10, watch <- p11,
    autosave <- p12, calls <- p13, count <- p14, shown <- p15, doubt <- p16

\* Two questions with the same prompt: three gestures, or two and a change by another user.
Bank == INSTANCE QuestionBankPage WITH BankQuestions <- {1, 2}, Prompt <- <<1, 1>>,
    Filters <- {{}, {"draft"}}, PageSizes <- {1, 9}, DefaultSize <- 9,
    InitialBank <- <<"draft", "draft">>, MaxGestures <- 3, MaxRequests <- 2, MaxOthers <- 0,
    bank <- p1, view <- p2, rows <- p3, total <- p4, selected <- p5, allMode <- p6,
    target <- p7, preview <- p8, busy <- p9, due <- p10, requests <- p11, tally <- p12,
    changed <- p13, doubt <- p14

Shared == INSTANCE QuestionBankPage WITH BankQuestions <- {1, 2}, Prompt <- <<1, 1>>,
    Filters <- {{}, {"draft"}}, PageSizes <- {1, 9}, DefaultSize <- 9,
    InitialBank <- <<"draft", "draft">>, MaxGestures <- 2, MaxRequests <- 2, MaxOthers <- 1,
    bank <- p1, view <- p2, rows <- p3, total <- p4, selected <- p5, allMode <- p6,
    target <- p7, preview <- p8, busy <- p9, due <- p10, requests <- p11, tally <- p12,
    changed <- p13, doubt <- p14

\* The token is renewed once, or a request fails.
Builder == INSTANCE TestBuilder WITH Pool <- {"p", "q"}, MaxVersions <- 3,
    KeepPublished <- 1, MaxEdits <- 1, MaxOps <- 2, MaxRenewals <- 1, MaxFailures <- 0,
    versions <- p1, inUse <- p2, current <- p3, composition <- p4, history <- p5,
    saving <- p6, loading <- p7, waiting <- p8, aside <- p9, spent <- p10, clicked <- p11,
    unsaved <- p12, mixed <- p13

Failing == INSTANCE TestBuilder WITH Pool <- {"p", "q"}, MaxVersions <- 3,
    KeepPublished <- 1, MaxEdits <- 1, MaxOps <- 2, MaxRenewals <- 0, MaxFailures <- 1,
    versions <- p1, inUse <- p2, current <- p3, composition <- p4, history <- p5,
    saving <- p6, loading <- p7, waiting <- p8, aside <- p9, spent <- p10, clicked <- p11,
    unsaved <- p12, mixed <- p13

Page == INSTANCE DeliveriesPage WITH Employees <- {1, 2}, InitialRows <- {1}, MaxRows <- 2,
    MaxGestures <- 2, MaxTurns <- 1, MaxHandlers <- 2, MaxLost <- 1, rows <- p1,
    assigned <- p2, wish <- p3, view <- p4, statuses <- p5, fetching <- p6, loading <- p7,
    sheet <- p8, edit <- p9, saving <- p10, extend <- p11, retake <- p12, handlers <- p13,
    tally <- p14, doubt <- p15, crossed <- p16, failed <- p17

Tree == INSTANCE CategoriesPage WITH Categories <- 1..4, FirstParents <- Chain,
    FirstHome <- 2, MaxGestures <- 2, MaxRequests <- 2, MaxLost <- 1, parents <- p1,
    home <- p2, forest <- p3, panel <- p4, requests <- p5, stale <- p6, merged <- p7,
    deleted <- p8, tally <- p9

Menu == INSTANCE CategoryMenu WITH Categories <- 1..3, MaxReloads <- 1, tree <- p1,
    path <- p2, selected <- p3, reloads <- p4

ASSUME Overlap!AttemptsAssumption
ASSUME Taking!TakingAssumption
ASSUME Bank!BankAssumption
ASSUME Builder!BuilderAssumption
ASSUME Page!DeliveriesAssumption
ASSUME Tree!CategoryAssumption

Init ==
    \/ open = "overlap" /\ Overlap!Init /\ Off11
    \/ open = "alone" /\ Alone!Init /\ Off11
    \/ open = "taking" /\ Taking!Init /\ Off16
    \/ open = "once" /\ Once!Init /\ Off16
    \/ open = "bank" /\ Bank!Init /\ Off14
    \/ open = "shared" /\ Shared!Init /\ Off14
    \/ open = "builder" /\ Builder!Init /\ Off13
    \/ open = "failing" /\ Failing!Init /\ Off13
    \/ open = "page" /\ Page!Init
    \/ open = "categories" /\ Tree!Init /\ Off9
    \/ open = "menu" /\ Menu!Init /\ Off4

Next ==
    \/ open = "overlap" /\ Overlap!Next /\ UNCHANGED <<open, Rest11>>
    \/ open = "alone" /\ Alone!Next /\ UNCHANGED <<open, Rest11>>
    \/ open = "taking" /\ Taking!Next /\ UNCHANGED <<open, Rest16>>
    \/ open = "once" /\ Once!Next /\ UNCHANGED <<open, Rest16>>
    \/ open = "bank" /\ Bank!Next /\ UNCHANGED <<open, Rest14>>
    \/ open = "shared" /\ Shared!Next /\ UNCHANGED <<open, Rest14>>
    \/ open = "builder" /\ Builder!Next /\ UNCHANGED <<open, Rest13>>
    \/ open = "failing" /\ Failing!Next /\ UNCHANGED <<open, Rest13>>
    \/ open = "page" /\ Page!Next /\ UNCHANGED open
    \/ open = "categories" /\ Tree!Next /\ UNCHANGED <<open, Rest9>>
    \/ open = "menu" /\ Menu!Next /\ UNCHANGED <<open, Rest4>>

Spec == Init /\ [][Next]_slots

(* What the requests leave of the attempts: numbers without gaps, stars and tests
   never counted twice, a milestone unlocked once; and when requests follow one another,
   one attempt in progress at most, every scored attempt counted, and scores that are
   those of the answers. *)
AttemptsAreTrue ==
    /\ open = "overlap" => Overlap!TypeOK /\ Overlap!AttemptsAreTrue
    /\ open = "alone" => Alone!TypeOK /\ Alone!AttemptsAreTrue

(* The records each part keeps, and their types: one draft of a test, a version that
   was delivered, categories that form a forest unless requests met, questions that keep
   a category, answers that the participant gave. *)
RecordsAreKept ==
    /\ open = "taking" => Taking!TypeOK /\ Taking!StoredWasShown
    /\ open = "once" => Once!TypeOK /\ Once!StoredWasShown
    /\ open = "bank" => Bank!TypeOK
    /\ open = "shared" => Shared!TypeOK
    /\ open = "builder" => Builder!TypeOK /\ Builder!OneDraft /\ Builder!DeliveredStays
    /\ open = "failing" => Failing!TypeOK /\ Failing!OneDraft /\ Failing!DeliveredStays
    /\ open = "page" => Page!TypeOK /\ Page!AssignedOnce
    /\ open = "categories" => Tree!TypeOK /\ Tree!ForestUnlessStale /\ Tree!QuestionsAreKept
    /\ open = "menu" => Menu!TypeOK

(* What a click did is what the page showed at the click: the answers of a test that
   is over, the questions that were named, the version that was published, the limits
   that were asked for, the categories that are picked. *)
DoneAsClicked ==
    /\ open = "taking" => Taking!AnswersAreStored
    /\ open = "once" => Once!AnswersAreStored
    /\ open = "bank" => Bank!SelectionIsListed /\ Bank!DeletedWasNamed
    /\ open = "shared" => Shared!SelectionIsListed /\ Shared!DeletedWasNamed
    /\ open = "builder" => Builder!PublishedAsClicked
    /\ open = "failing" => Failing!PublishedAsClicked
    /\ open = "page" => Page!DoneAsAsked
    /\ open = "menu" => Menu!SelectionIsShown

(* A page at rest shows what the server has, unless it missed a failure or another
   user's change. *)
QuietPagesAreCurrent ==
    /\ open = "bank" => Bank!QuietListIsCurrent
    /\ open = "shared" => Shared!QuietListIsCurrent
    /\ open = "builder" => Builder!QuietPageIsDraft
    /\ open = "failing" => Failing!QuietPageIsDraft
    /\ open = "page" => Page!QuietPageIsCurrent
    /\ open = "categories" => Tree!QuietTreeIsCurrent

(* The bulk action archives the questions that its dialog named. *)
ArchivedAsNamed ==
    /\ open = "bank" => Bank!ArchivedWasNamed
    /\ open = "shared" => Shared!ArchivedWasNamed

\* The requests that overlap are alike.
RequestSymmetry == Permutations({r1, r2})

==============================================================================

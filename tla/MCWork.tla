-------------------------------- MODULE MCWork --------------------------------
(* Tracks, the employee's flow, releases and work orders for TLC, each part on a       *)
(* small instance.  They run side by side in one exploration: a behaviour is about     *)
(* one part, whose variables take the first slots, and no part shares state with       *)
(* another here.                                                                       *)
EXTENDS Integers, Sequences, FiniteSets, TLC

VARIABLES
    open,  \* the part that a behaviour is about; its variables:
   p1, p2, p3, p4, p5, p6, p7, p8, p9, p10, p11, p12, p13, p14, p15, p16, p17, p18, p19,
    p20, p21, p22, p23, p24

slots == <<open, p1, p2, p3, p4, p5, p6, p7, p8, p9, p10, p11, p12, p13, p14, p15, p16, p17,
          p18, p19, p20, p21, p22, p23, p24>>

\* The slots that a part with so many variables does not use.
Rest16 == <<p17, p18, p19, p20, p21, p22, p23, p24>>
Rest15 == <<p16, Rest16>>
Rest14 == <<p15, Rest15>>
Rest13 == <<p14, Rest14>>
Rest10 == <<p11, p12, p13, Rest13>>
Off16 == /\ p17 = "off" /\ p18 = "off" /\ p19 = "off" /\ p20 = "off"
         /\ p21 = "off" /\ p22 = "off" /\ p23 = "off" /\ p24 = "off"
Off15 == p16 = "off" /\ Off16
Off14 == p15 = "off" /\ Off15
Off13 == p14 = "off" /\ Off14
Off10 == p11 = "off" /\ p12 = "off" /\ p13 = "off" /\ Off13

\* Lines of a body, as in WorkOrderBody.
Line(kind, tag) == [kind |-> kind, tag |-> tag, x |-> "", y |-> "", z |-> ""]
Entry(n, who) == [Line("item", who) EXCEPT !.x = n]

\* Nothing, a preamble, sections out of order, and a table with a log after it.
Bodies ==
    {<< >>,
     <<Line("text", "preamble")>>,
     <<Line("heading", "summary"), Line("text", "a"), Line("blank", ""), Line("heading", "other"),
       Line("text", "b"), Line("heading", "devlog"), Entry("5", "you")>>,
     <<Line("heading", "versions"), Line("header", "3"), Line("sep", "3"),
       [Line("row", "") EXCEPT !.x = "image:1", !.z = "c"], Line("blank", ""),
       Line("heading", "devlog"), Entry("6", "me")>>}

\* What is typed: a paragraph, an image, and a paragraph with a section of its own.
Typed == {<<Line("text", "t"), Line("blank", "")>>,
          <<Line("text", "image:1"), Line("text", "u")>>,
          <<Line("text", "t"), Line("heading", "devlog"), Line("item", "i")>>}

Flow == INSTANCE EmployeeFlow WITH Tasks <- {1, 2},
    Kinds <- {<<"review", "checklist">>, <<"text", "quiz">>}, Boxes <- {"a", "b"},
    MaxGestures <- 2, MaxTurns <- 2, MaxRequests <- 2, MaxReviews <- 1, MaxLost <- 1,
    kind <- p1, tasks <- p2, received <- p3, clicked <- p4, view <- p5, selected <- p6,
    typed <- p7, attempts <- p8, loading <- p9, submitting <- p10, updating <- p11,
    requests <- p12, tally <- p13, doubt <- p14

List == INSTANCE TracksPage WITH Tracks <- {1, 2}, Assigned <- {2}, NoFilter <- "all",
    Filters <- {"all", "some"}, Matching <- [all |-> {1, 2}, some |-> {1}], MaxEvents <- 3,
    MaxRequests <- 2, rows <- p1, deleted <- p2, shown <- p3, loading <- p4, filter <- p5,
    switching <- p6, asked <- p7, deleting <- p8, exiting <- p9, hiding <- p10,
    cascade <- p11, offer <- p12, requests <- p13, events <- p14, doubt <- p15

Versions == INSTANCE TrackVersions WITH MaxRows <- 2, MaxEvents <- 4, MaxEdits <- 1,
    MaxRequests <- 2, rows <- p1, released <- p2, crossed <- p3, work <- p4, kept <- p5,
    loading <- p6, saving <- p7, edits <- p8, listed <- p9, waiting <- p10, requests <- p11,
    events <- p12, doubt <- p13

Builder == INSTANCE TrackBuilder WITH DraftTasks <- <<1, 2>>, MaxSteps <- 3,
    MaxRequests <- 2, phases <- p1, fresh <- p2, selected <- p3, asked <- p4, preview <- p5,
    ticked <- p6, drafting <- p7, mode <- p8, target <- p9, applying <- p10, saving <- p11,
    left <- p12, requests <- p13, created <- p14, steps <- p15, lost <- p16

Runs == INSTANCE DeploymentRuns WITH Steps <- {1}, MaxRuns <- 2, MaxGestures <- 3,
    MaxRequests <- 2, MaxOthers <- 1, MaxLost <- 1, serial <- p1, runs <- p2, release <- p3,
    record <- p4, shown <- p5, loading <- p6, confirming <- p7, noting <- p8, busy <- p9,
    requests <- p10, loads <- p11, spent <- p12, doubt <- p13

Note == INSTANCE ReleaseNoteEditor WITH Titles <- {"a", "b"}, MaxItems <- 3,
    MaxGestures <- 3, MaxRequests <- 2, MaxLost <- 1, note <- p1, items <- p2,
    loading <- p3, failed <- p4, saveState <- p5, undoRef <- p6, toast <- p7, timers <- p8,
    requests <- p9, crashed <- p10, tally <- p11, undone <- p12, doubt <- p13

Order == INSTANCE WorkOrderEditor WITH Forms <- {"a", "b"}, Blank <- "blank",
    Empty <- "empty", MaxEvents <- 3, MaxRequests <- 2, MaxTasks <- 1, isNew <- p1,
    loading <- p2, form <- p3, seen <- p4, rowKnown <- p5, linkShown <- p6, banner <- p7,
    timer <- p8, picked <- p9, saving <- p10, working <- p11, draft <- p12, stored <- p13,
    raw <- p14, row <- p15, linked <- p16, status <- p17, onSave <- p18, file <- p19,
    tasks <- p20, requests <- p21, crossed <- p22, doubt <- p23, events <- p24

Body == INSTANCE WorkOrderBody WITH InitialBodies <- Bodies, Texts <- Typed,
    MaxEntries <- 2, MaxRows <- 2, MaxSteps <- 2, body <- p1, active <- p2, draft <- p3,
    editing <- p4, shown <- p5, entries <- p6, changed <- p7, headed <- p8, replaced <- p9,
    steps <- p10

ASSUME Flow!FlowAssumption
ASSUME List!TracksAssumption
ASSUME Versions!VersionsAssumption
ASSUME Builder!BuilderAssumption
ASSUME Runs!RunsAssumption
ASSUME Note!EditorAssumption
ASSUME Order!WorkOrderAssumption
ASSUME Body!BodyAssumption

Init ==
    \/ open = "flow" /\ Flow!Init /\ Off14
    \/ open = "list" /\ List!Init /\ Off15
    \/ open = "versions" /\ Versions!Init /\ Off13
    \/ open = "builder" /\ Builder!Init /\ Off16
    \/ open = "runs" /\ Runs!Init /\ Off13
    \/ open = "note" /\ Note!Init /\ Off13
    \/ open = "order" /\ Order!Init
    \/ open = "body" /\ Body!Init /\ Off10

Next ==
    \/ open = "flow" /\ Flow!Next /\ UNCHANGED <<open, Rest14>>
    \/ open = "list" /\ List!Next /\ UNCHANGED <<open, Rest15>>
    \/ open = "versions" /\ Versions!Next /\ UNCHANGED <<open, Rest13>>
    \/ open = "builder" /\ Builder!Next /\ UNCHANGED <<open, Rest16>>
    \/ open = "runs" /\ Runs!Next /\ UNCHANGED <<open, Rest13>>
    \/ open = "note" /\ Note!Next /\ UNCHANGED <<open, Rest13>>
    \/ open = "order" /\ Order!Next /\ UNCHANGED open
    \/ open = "body" /\ Body!Next /\ UNCHANGED <<open, Rest10>>

Spec == Init /\ [][Next]_slots

(* The records each part keeps, and their types: one current version and one active run,
   deletions that were confirmed for the track, answers that reach the task they were
   typed for, drafts that are not overwritten, sections that are not mixed. *)
RecordsAreKept ==
    /\ open = "flow" => Flow!TypeOK /\ Flow!TextsReachTheirTask
    /\ open = "list" => List!TypeOK /\ List!CascadeDeletesNamed
    /\ open = "versions" => Versions!TypeOK /\ Versions!OneCurrent /\ Versions!ReleasedStays
    /\ open = "builder" => Builder!TypeOK /\ Builder!IdsAreUnique /\ Builder!TickedIsCorrect
    /\ open = "runs" => /\ Runs!TypeOK
                        /\ Runs!OneActiveUnlessReopened
                        /\ Runs!RecordsFollowRuns
    /\ open = "note" => Note!TypeOK
    /\ open = "order" => /\ Order!TypeOK
                         /\ Order!OfferedDraftStays
                         /\ Order!NewDraftsAreOffered
    /\ open = "body" => Body!TypeOK /\ Body!SectionsApart /\ Body!OneHeadingEach

(* What a click did stays done: edits that were saved, tracks created once, runs closed
   with the items they had, deletions undone, work orders stored and pushed, entries of
   the log; and a mark of a checklist was clicked. *)
DoneAsClicked ==
    /\ open = "flow" => Flow!MarksWereClicked
    /\ open = "versions" => Versions!SavedStays
    /\ open = "builder" => Builder!CreatedOnce
    /\ open = "runs" => Runs!ClosedRunsAreTrue
    /\ open = "note" => Note!UndoneStays
    /\ open = "order" => Order!SavedIsStored /\ Order!SyncedIsPushed
    /\ open = "body" => Body!EntriesStay

(* A page at rest shows what the server has, unless it missed a failure or another
   user's change. *)
QuietPagesAreCurrent ==
    /\ open = "flow" => Flow!QuietFlowIsCurrent
    /\ open = "list" => List!QuietListIsCurrent
    /\ open = "versions" => Versions!QuietPagesAreCurrent
    /\ open = "runs" => Runs!QuietTabIsCurrent
    /\ open = "note" => Note!QuietEditorIsCurrent

(* A task leaves the builder of a track only by a dialog that named it or its phase, or
   by a draft that replaces the builder. *)
TasksStay == [][open = "builder" => Builder!LeavesAsAsked]_slots

===============================================================================

----------------------------- MODULE EmployeeFlow -----------------------------
(***************************************************************************)
(* The page on which an employee works through an assignment, src/frontend/*)
(* app/(app)/my-onboarding/[assignmentId]/page.tsx.  A submission changes  *)
(* the page before it is answered, every answer is followed by a silent    *)
(* load, and the employee turns to another task meanwhile; the mentor      *)
(* reviews.  The service is that of progress_service.py, one request at a  *)
(* time and without the refresh of the assignment, which is the subject of *)
(* AssignmentProgress; as there, only the first mark of a checklist is kept*)
(* while its status is that of the marks as the request saw them.          *)
(***************************************************************************)
EXTENDS Integers, FiniteSets, FiniteSetsExt

CONSTANTS
    Tasks,          \* tasks of the assignment
    Kinds,          \* the choices of task types, each a function on Tasks
    Boxes,          \* items of a checklist, all required
    MaxGestures,    \* bound: submissions, ticks and notes
    MaxTurns,       \* bound: turns to another task and texts typed
    MaxRequests,    \* bound: requests under way before another gesture
    MaxReviews,     \* bound: decisions of the mentor
    MaxLost         \* bound: requests that fail and answers that are lost

FlowAssumption ==
    /\ Tasks # {} /\ 0 \notin Tasks
    /\ {MaxGestures, MaxTurns, MaxRequests, MaxReviews, MaxLost} \subseteq Nat

VARIABLES
    kind,       \* task_type
    tasks,      \* the tasks on the server: status, whether metadata_json holds a
                \* checklist_state, and the ticked items of it
    received,   \* history: the submissions, each with the task its text was typed for
    clicked,    \* history: the boxes that the employee ever clicked to tick
    view,       \* assignment and selectedTask: the tasks as the page shows them
    selected,   \* the selected task, 0 before the first load
    typed,      \* answerText, fileUrl or quizAnswers: the task they were typed for, 0 if empty
    attempts,   \* quizAttempts: the task whose attempts are listed, 0 for none
    loading,    \* the loading screen is shown
    submitting, \* the buttons that submit are disabled
    updating,   \* checklistUpdatingId, "none" for null
    requests,   \* requests under way
    tally,      \* gestures, turns, reviews, losses so far
    doubt       \* history: the page was told too little or too late to be sure

pageVars == <<view, selected, typed, attempts, loading, submitting, updating>>
flowVars == <<kind, tasks, received, clicked, pageVars, requests, tally, doubt>>

Untouched == [t \in Tasks |-> [status |-> "not_started", saved |-> FALSE, ticked |-> {}]]
Ask(op, t) == [id |-> 1 + Max({0} \cup {q.id : q \in requests}), op |-> op, task |-> t,
               text |-> 0, box |-> "none", checked |-> FALSE, then |-> "none",
               again |-> FALSE, mixed |-> requests # {}, answer |-> "none",
               view |-> Untouched]
FirstLoad == [id |-> 1, op |-> "load", task |-> 0, text |-> 0, box |-> "none",
              checked |-> FALSE, then |-> "none", again |-> FALSE, mixed |-> FALSE,
              answer |-> "none", view |-> Untouched]

(* A request that goes out while others are under way may be overtaken by them. *)
Sent(set, q) == {[r EXCEPT !.mixed = TRUE] : r \in set} \cup {q}

Init ==
    /\ kind \in Kinds
    /\ tasks = Untouched
    /\ received = {}
    /\ clicked = [t \in Tasks |-> {}]
    /\ view = Untouched
    /\ selected = 0 /\ typed = 0 /\ attempts = 0
    /\ loading = TRUE /\ submitting = FALSE /\ updating = "none"
    /\ requests = {FirstLoad}
    /\ tally = [gestures |-> 0, turns |-> 0, reviews |-> 0, lost |-> 0]
    /\ doubt = FALSE

(***************************************************************************)
(* The service and the mentor                                              *)
(***************************************************************************)

(* submit_task *)
Submitted(t) ==
    CASE kind[t] = "quiz" -> {"completed", "revision_requested"}
      [] kind[t] = "review" -> {"pending_review"}
      [] OTHER -> {"completed"}

(* update_checklist_item: the marks with the new one, from those that are stored. *)
Marked(q) ==
    IF q.checked THEN tasks[q.task].ticked \cup {q.box} ELSE tasks[q.task].ticked \ {q.box}

(* The row that is written.  metadata_json is copied shallowly and the checklist_state in it
   edited in place, so that only the request that adds the checklist_state stores marks. *)
Ticked(q) ==
    [status |-> IF Marked(q) = {} THEN "not_started"
                ELSE IF Marked(q) = Boxes THEN "completed" ELSE "in_progress",
     saved |-> TRUE,
     ticked |-> IF tasks[q.task].saved THEN tasks[q.task].ticked ELSE Marked(q)]

(* The answer to a tick is made from the object in memory, with the mark, stored or not. *)
Serve(q) ==
    /\ q.answer = "none"
    /\ CASE q.op = "submit" ->
              /\ \E s \in Submitted(q.task) : tasks' = [tasks EXCEPT ![q.task].status = s]
              /\ received' = received \cup {[task |-> q.task, text |-> q.text]}
         [] q.op = "tick" ->
              tasks' = [tasks EXCEPT ![q.task] = Ticked(q)] /\ UNCHANGED received
         [] OTHER -> UNCHANGED <<tasks, received>>
    /\ requests' = (requests \ {q}) \cup
         {[q EXCEPT !.answer = "ok",
                    !.view = IF q.op = "tick" THEN [tasks' EXCEPT ![q.task].ticked = Marked(q)]
                             ELSE tasks']}
    /\ UNCHANGED <<kind, clicked, pageVars, tally, doubt>>

(* mentor_review_task *)
Review(t) ==
    /\ tally.reviews < MaxReviews
    /\ tasks[t].status = "pending_review"
    /\ \E s \in {"completed", "revision_requested"} : tasks' = [tasks EXCEPT ![t].status = s]
    /\ tally' = [tally EXCEPT !.reviews = @ + 1]
    /\ doubt' = TRUE
    /\ requests' = {[q EXCEPT !.mixed = TRUE] : q \in requests}
    /\ UNCHANGED <<kind, received, clicked, pageVars>>

(***************************************************************************)
(* Loading                                                                 *)
(***************************************************************************)

(* The effect of another selection: the inputs are emptied, a quiz asks for its
   attempts.  The answer to an earlier question is not refused. *)
Select(t, set) ==
    /\ selected' = t
    /\ IF t = selected THEN UNCHANGED <<typed, attempts>> /\ requests' = set
       ELSE /\ typed' = 0
            /\ IF kind[t] = "quiz"
               THEN UNCHANGED attempts /\ requests' = Sent(set, Ask("attempts", t))
               ELSE attempts' = 0 /\ requests' = set

(* load: the same task stays selected; at first it is the recommended one. *)
Loaded(q) ==
    /\ IF q.answer = "ok"
       THEN /\ view' = q.view
            /\ \E t \in Tasks : (selected # 0 => t = selected) /\ Select(t, requests \ {q})
       ELSE /\ UNCHANGED <<view, selected, typed, attempts>>
            /\ requests' = IF q.again THEN Sent(requests \ {q},
                               [Ask("load", 0) EXCEPT !.then = q.then]) ELSE requests \ {q}
    /\ loading' = FALSE
    /\ IF q.again /\ q.answer # "ok" THEN UNCHANGED <<submitting, updating>>
       ELSE /\ submitting' = (submitting /\ q.then # "submit")
            /\ updating' = IF q.then = "tick" THEN "none" ELSE updating
    /\ doubt' = (q.answer # "ok" \/ q.mixed \/ \E r \in requests \ {q} : r.op # "attempts")
    /\ UNCHANGED <<kind, tasks, received, clicked, tally>>

(* Another access token: the effect loads, with the loading screen. *)
Renew ==
    /\ ~ \E q \in requests : q.op = "load"
    /\ tally.turns < MaxTurns
    /\ tally' = [tally EXCEPT !.turns = @ + 1]
    /\ loading' = TRUE
    /\ requests' = Sent(requests, Ask("load", 0))
    /\ UNCHANGED <<kind, tasks, received, clicked, view, selected, typed, attempts, submitting,
                   updating, doubt>>

AttemptsLoaded(q) ==
    /\ attempts' = IF q.answer = "ok" THEN q.task ELSE 0
    /\ requests' = requests \ {q}
    /\ UNCHANGED <<kind, tasks, received, clicked, view, selected, typed, loading, submitting,
                   updating, tally, doubt>>

(***************************************************************************)
(* Working                                                                 *)
(***************************************************************************)

Working ==
    /\ ~loading /\ selected # 0
    /\ Cardinality(requests) < MaxRequests
Locked == view[selected].status \in {"completed", "pending_review"}

(* Mutant: the inputs survive another selection. *)
TurnToKeepingText(t) ==
    /\ ~loading /\ t # selected /\ selected # 0
    /\ tally.turns < MaxTurns
    /\ tally' = [tally EXCEPT !.turns = @ + 1]
    /\ selected' = t
    /\ UNCHANGED <<kind, tasks, received, clicked, view, typed, attempts, requests, loading,
                   submitting, updating, doubt>>

(* The task buttons of the timeline, and Prev and Next of the wizard. *)
TurnTo(t) ==
    /\ ~loading /\ t # selected /\ selected # 0
    /\ tally.turns < MaxTurns
    /\ tally' = [tally EXCEPT !.turns = @ + 1]
    /\ Select(t, requests)
    /\ UNCHANGED <<kind, tasks, received, clicked, view, loading, submitting, updating, doubt>>

(* The inputs of the selected task *)
Type ==
    /\ ~loading /\ selected # 0 /\ typed = 0 /\ ~Locked
    /\ kind[selected] # "checklist"
    /\ tally.turns < MaxTurns
    /\ tally' = [tally EXCEPT !.turns = @ + 1]
    /\ typed' = selected
    /\ UNCHANGED <<kind, tasks, received, clicked, view, selected, attempts, loading, submitting,
                   updating, requests, doubt>>

(* submitTask shows the outcome it expects; submitQuiz waits for it. *)
Submit ==
    /\ Working /\ ~submitting /\ ~Locked
    /\ kind[selected] # "checklist"
    /\ tally.gestures < MaxGestures
    /\ tally' = [tally EXCEPT !.gestures = @ + 1]
    /\ submitting' = TRUE
    /\ view' = IF kind[selected] = "quiz" THEN view
               ELSE [view EXCEPT ![selected].status =
                       IF kind[selected] = "review" THEN "pending_review" ELSE "completed"]
    /\ requests' = Sent(requests, [Ask("submit", selected) EXCEPT !.text = typed])
    /\ UNCHANGED <<kind, tasks, received, clicked, selected, typed, attempts, loading, updating,
                   doubt>>

(* Mutant: a refused submission is not followed by a load. *)
SubmitAnsweredOnce(q) ==
    /\ typed' = IF q.answer = "ok" THEN 0 ELSE typed
    /\ submitting' = (submitting /\ q.answer = "ok")
    /\ requests' = IF q.answer # "ok" THEN requests \ {q}
                   ELSE Sent(requests \ {q}, [Ask("load", 0) EXCEPT
                        !.mixed = requests # {q}, !.then = "submit", !.again = TRUE])
    /\ UNCHANGED <<kind, tasks, received, clicked, view, selected, attempts, loading, updating,
                   tally, doubt>>

(* The inputs are emptied, whichever task they belong to by now; a load follows,
   and once more if it fails where the submission had not. *)
SubmitAnswered(q) ==
    /\ typed' = IF q.answer = "ok" THEN 0 ELSE typed
    /\ requests' = Sent(requests \ {q}, [Ask("load", 0) EXCEPT
                        !.mixed = requests # {q}, !.then = "submit", !.again = q.answer = "ok"])
    /\ UNCHANGED <<kind, tasks, received, clicked, view, selected, attempts, loading, submitting,
                   updating, tally, doubt>>

(* Mutant: the note of an item is saved with the box as it will be. *)
TickNoteToggles(box, note) ==
    /\ Working /\ kind[selected] = "checklist" /\ ~Locked /\ updating # box
    /\ tally.gestures < MaxGestures
    /\ tally' = [tally EXCEPT !.gestures = @ + 1]
    /\ updating' = box
    /\ LET checked == box \notin view[selected].ticked
       IN  /\ requests' = Sent(requests, [Ask("tick", selected) EXCEPT !.box = box,
                                                                    !.checked = checked])
           /\ clicked' = IF note \/ ~checked THEN clicked
                         ELSE [clicked EXCEPT ![selected] = @ \cup {box}]
    /\ UNCHANGED <<doubt, kind, tasks, received, view, selected, typed, attempts, loading, submitting>>

(* updateChecklistItem: a click on the box, or a note saved with the box as it is
   shown.  Only the item last clicked is disabled. *)
Tick(box, note) ==
    /\ Working /\ kind[selected] = "checklist" /\ ~Locked /\ updating # box
    /\ tally.gestures < MaxGestures
    /\ tally' = [tally EXCEPT !.gestures = @ + 1]
    /\ updating' = box
    /\ LET checked == (box \in view[selected].ticked) <=> note
       IN  /\ requests' = Sent(requests, [Ask("tick", selected) EXCEPT !.box = box,
                                                                    !.checked = checked])
           /\ clicked' = IF note \/ ~checked THEN clicked
                         ELSE [clicked EXCEPT ![selected] = @ \cup {box}]
    /\ UNCHANGED <<doubt, kind, tasks, received, view, selected, typed, attempts, loading, submitting>>

TickAnswered(q) ==
    /\ view' = IF q.answer = "ok" THEN [view EXCEPT ![q.task] = q.view[q.task]] ELSE view
    /\ requests' = Sent(requests \ {q}, [Ask("load", 0) EXCEPT
                        !.mixed = requests # {q}, !.then = "tick", !.again = q.answer = "ok"])
    /\ doubt' = (doubt \/ q.mixed \/ q.answer # "ok")
    /\ UNCHANGED <<kind, tasks, received, clicked, selected, typed, attempts, loading, submitting,
                   updating, tally>>

Answered(q) ==
    /\ q.answer # "none"
    /\ CASE q.op = "load" -> Loaded(q)
         [] q.op = "attempts" -> AttemptsLoaded(q)
         [] q.op = "submit" -> SubmitAnswered(q)
         [] q.op = "tick" -> TickAnswered(q)

(* A request fails before it did anything, or its answer is lost. *)
Lose(q) ==
    /\ tally.lost < MaxLost /\ q.answer \in {"none", "ok"}
    /\ tally' = [tally EXCEPT !.lost = @ + 1]
    /\ requests' = (requests \ {q}) \cup {[q EXCEPT !.answer = "error"]}
    /\ UNCHANGED <<kind, tasks, received, clicked, pageVars, doubt>>

Next ==
    \/ \E q \in requests : Serve(q) \/ Answered(q) \/ Lose(q)
    \/ \E t \in Tasks : Review(t) \/ TurnTo(t)
    \/ Renew \/ Type \/ Submit
    \/ \E box \in Boxes, note \in BOOLEAN : Tick(box, note)

Spec == Init /\ [][Next]_flowVars

(***************************************************************************)
(* Properties                                                              *)
(***************************************************************************)

(* The types of the variables. *)
TypeOK ==
    /\ \A t \in Tasks : /\ tasks[t].ticked \subseteq Boxes
                        /\ tasks[t].status \in {"not_started", "in_progress", "pending_review",
                                                "revision_requested", "completed"}
    /\ selected \in Tasks \cup {0} /\ typed \in {0, selected} /\ attempts \in Tasks \cup {0}
    /\ {loading, submitting, doubt} \subseteq BOOLEAN

(* What is submitted for a task was typed for it, whatever task is selected when
   an earlier submission is answered, reviewed or loaded. *)
TextsReachTheirTask == \A s \in received : s.text \in {0, s.task}

(* When nothing is under way, the page shows the tasks as they are, and no button
   is disabled for good, unless it was told too late or not at all. *)
QuietFlowIsCurrent ==
    requests = {} => /\ ~submitting /\ updating = "none" /\ ~loading
                     /\ ~doubt => view = tasks

(* A box that the server has ticked or the page shows ticked was clicked, and a checklist is
   completed only when each of its boxes was: whatever requests overtake each other or fail,
   although a note is saved with the box as it is shown and the status is counted from marks
   that are not stored. *)
MarksWereClicked ==
    \A t \in Tasks, rows \in {tasks, view} : kind[t] = "checklist" =>
        /\ rows[t].ticked \subseteq clicked[t]
        /\ rows[t].status = "completed" => Boxes \subseteq clicked[t]

=============================================================================

----------------------------- MODULE TrackBuilder -----------------------------
(***************************************************************************)
(* The page that creates a track, src/frontend/app/(app)/tracks/new/       *)
(* page.tsx, with the builder of phases and tasks, components/tracks/      *)
(* track-builder.tsx, and the sheet that edits a quiz, task-details-sheet. *)
(* tsx.  Everything is local until the track is created; drafts of phases  *)
(* come from the AI route and are applied in one of three ways.            *)
(***************************************************************************)
EXTENDS Integers, FiniteSets, Sequences, SequencesExt, FiniteSetsExt

CONSTANTS
    DraftTasks,     \* tasks in each phase of an AI draft, a sequence
    MaxSteps,       \* bound: gestures, drafts and losses
    MaxRequests     \* bound: requests under way before another gesture

BuilderAssumption ==
    /\ DraftTasks \in Seq(Nat \ {0}) /\ DraftTasks # << >>
    /\ {MaxSteps, MaxRequests} \subseteq Nat

VARIABLES
    phases,     \* the phases, each with a client_id and its tasks
    fresh,      \* client_ids given out so far
    selected,   \* selectedTaskId: the task whose sheet is open, 0 for null
    asked,      \* phaseToDelete and taskToDelete, with the dialog that confirms
    preview,    \* aiPhases: a draft is shown
    ticked,     \* aiSelected
    drafting,   \* aiLoading
    mode,       \* aiApplyMode
    target,     \* aiTargetPhaseId
    applying,   \* the dialog that confirms an application is open
    saving,     \* the buttons that create are disabled
    left,       \* the page was left for the track it created
    requests,   \* requests under way
    created,    \* the tracks on the server
    steps,      \* gestures, drafts and losses so far
    lost        \* history: answers to creations that were lost

builderVars == <<phases, fresh, selected, asked>>
draftVars == <<preview, ticked, drafting, mode, target, applying>>
saveVars == <<saving, left, created, lost>>
trackVars == <<builderVars, draftVars, saveVars, requests, steps>>

Ids(ps) == {ps[i].id : i \in DOMAIN ps}
TasksOf(p) == {p.tasks[j].id : j \in DOMAIN p.tasks}
TaskIds(ps) == UNION {TasksOf(ps[i]) : i \in DOMAIN ps}
IndexOf(ps, id) == SelectInSeq(ps, LAMBDA p : p.id = id)
None == [kind |-> "none", id |-> 0]

(* createEmptyTask, and the question that Add question adds *)
Task(id) == [id |-> id, single |-> TRUE, options |-> <<1, 2>>, correct |-> <<1>>, right |-> {1}]
TaskSeq(from, n) == [j \in 1..n |-> Task(from + j)]

Step == steps < MaxSteps /\ steps' = steps + 1
Here == ~left /\ ~applying /\ asked = None /\ selected = 0

Init ==
    /\ phases = <<[id |-> 1, tasks |-> <<Task(2)>>]>> /\ fresh = 2
    /\ selected = 0 /\ asked = None
    /\ preview = FALSE /\ ticked = {} /\ drafting = FALSE
    /\ mode = "replace" /\ target = 1 /\ applying = FALSE
    /\ saving = FALSE /\ left = FALSE /\ created = {} /\ lost = 0
    /\ requests = {}
    /\ steps = 0

(* setPhases, and the effect that keeps the target of a draft among the phases *)
SetPhases(ps) ==
    /\ phases' = ps
    /\ target' = IF target \in Ids(ps) THEN target ELSE IF ps = << >> THEN 0 ELSE ps[1].id

(***************************************************************************)
(* The builder                                                             *)
(***************************************************************************)

Building ==
    /\ Step /\ Here
    /\ UNCHANGED <<selected, asked, preview, ticked, drafting, mode, applying, saveVars, requests>>

(* handleAddPhase *)
AddPhase ==
    /\ Building
    /\ SetPhases(Append(phases, [id |-> fresh + 1, tasks |-> <<Task(fresh + 2)>>]))
    /\ fresh' = fresh + 2

(* addTask, and addBulkTasks with one line *)
AddTask(i) ==
    /\ Building
    /\ SetPhases([phases EXCEPT ![i].tasks = Append(@, Task(fresh + 1))])
    /\ fresh' = fresh + 1

Swapped(s, i) == [s EXCEPT ![i] = s[i + 1], ![i + 1] = s[i]]

(* movePhase and moveTask, down; up is the same move of the neighbour *)
MovePhase(i) ==
    /\ Building /\ i < Len(phases)
    /\ SetPhases(Swapped(phases, i)) /\ UNCHANGED fresh

MoveTask(i, j) ==
    /\ Building /\ j < Len(phases[i].tasks)
    /\ SetPhases([phases EXCEPT ![i].tasks = Swapped(@, j)]) /\ UNCHANGED fresh

(* Mutant: the tasks of the copy keep their ids. *)
DuplicatePhaseOnly(i) ==
    /\ Building
    /\ SetPhases(InsertAt(phases, i + 1, [phases[i] EXCEPT !.id = fresh + 1]))
    /\ fresh' = fresh + 1

DuplicatePhase(i) ==
    /\ Building
    /\ LET copy == [id |-> fresh + 1, tasks |->
                      [j \in DOMAIN phases[i].tasks |->
                         [phases[i].tasks[j] EXCEPT !.id = fresh + 1 + j]]]
       IN  /\ SetPhases(InsertAt(phases, i + 1, copy))
           /\ fresh' = fresh + 1 + Len(phases[i].tasks)

DuplicateTask(i, j) ==
    /\ Building
    /\ SetPhases([phases EXCEPT ![i].tasks =
                    InsertAt(@, j + 1, [@[j] EXCEPT !.id = fresh + 1])])
    /\ fresh' = fresh + 1

AskDelete(kind, id) ==
    /\ Here
    /\ asked' = [kind |-> kind, id |-> id]
    /\ UNCHANGED <<phases, fresh, selected, draftVars, saveVars, requests, steps>>

(* Mutant: the phase after the one that was asked for goes too. *)
ConfirmDeleteWide ==
    /\ Step /\ asked # None /\ ~left
    /\ LET i == IndexOf(phases, asked.id)
       IN  SetPhases(IF asked.kind = "phase" THEN SubSeq(phases, 1, i - 1)
                     ELSE [k \in DOMAIN phases |-> [phases[k] EXCEPT !.tasks =
                              SelectSeq(@, LAMBDA t : t.id # asked.id)]])
    /\ asked' = None
    /\ UNCHANGED <<fresh, selected, preview, ticked, drafting, mode, applying, saveVars, requests>>

(* confirmDeletePhase, confirmDeleteTask *)
ConfirmDelete ==
    /\ Step /\ asked # None /\ ~left
    /\ SetPhases(IF asked.kind = "phase" THEN SelectSeq(phases, LAMBDA p : p.id # asked.id)
                 ELSE [k \in DOMAIN phases |-> [phases[k] EXCEPT !.tasks =
                          SelectSeq(@, LAMBDA t : t.id # asked.id)]])
    /\ asked' = None
    /\ UNCHANGED <<fresh, selected, preview, ticked, drafting, mode, applying, saveVars, requests>>

CancelDelete ==
    /\ asked # None /\ ~left
    /\ asked' = None
    /\ UNCHANGED <<phases, fresh, selected, draftVars, saveVars, requests, steps>>

(***************************************************************************)
(* The sheet of a task                                                     *)
(***************************************************************************)

OpenSheet(t) ==
    /\ Here
    /\ selected' = t
    /\ UNCHANGED <<phases, fresh, asked, draftVars, saveVars, requests, steps>>

CloseSheet ==
    /\ selected # 0 /\ ~left
    /\ selected' = 0
    /\ UNCHANGED <<phases, fresh, asked, draftVars, saveVars, requests, steps>>

(* handleTaskUpdate at the place of the selected task *)
UpdateSelected(Change(_)) ==
    /\ Step /\ selected # 0 /\ ~left
    /\ SetPhases([i \in DOMAIN phases |-> [phases[i] EXCEPT !.tasks =
                    [j \in DOMAIN @ |-> IF @[j].id = selected THEN Change(@[j]) ELSE @[j]]]])
    /\ UNCHANGED <<fresh, selected, asked, preview, ticked, drafting, mode, applying, saveVars,
                   requests>>

AddOption ==
    UpdateSelected(LAMBDA t : [t EXCEPT !.options = Append(@, 1 + Max({0} \cup ToSet(@)))])

(* Mutant: the indices behind the option are not moved. *)
RemoveOptionOnly(k) ==
    UpdateSelected(LAMBDA t : IF k \notin DOMAIN t.options THEN t ELSE
        [t EXCEPT !.options = RemoveAt(@, k),
                  !.right = @ \ {t.options[k]},
                  !.correct = SelectSeq(@, LAMBDA n : n # k)])

(* The indices of the correct options behind the removed one move up. *)
RemoveOption(k) ==
    UpdateSelected(LAMBDA t : IF k \notin DOMAIN t.options THEN t ELSE
        LET rest == SelectSeq(t.correct, LAMBDA n : n # k)
        IN  [t EXCEPT !.options = RemoveAt(@, k),
                      !.right = @ \ {t.options[k]},
                      !.correct = [n \in DOMAIN rest |-> IF rest[n] > k THEN rest[n] - 1
                                                         ELSE rest[n]]])

(* The radio button or the box of an option *)
TickOption(k) ==
    UpdateSelected(LAMBDA t : IF k \notin DOMAIN t.options THEN t ELSE
        IF t.single THEN [t EXCEPT !.correct = <<k>>, !.right = {t.options[k]}]
        ELSE IF k \in ToSet(t.correct)
        THEN [t EXCEPT !.correct = SelectSeq(@, LAMBDA n : n # k), !.right = @ \ {t.options[k]}]
        ELSE [t EXCEPT !.correct = Append(@, k), !.right = @ \cup {t.options[k]}])

(* A single choice keeps the first of the correct options. *)
ChangeType ==
    UpdateSelected(LAMBDA t :
        IF ~t.single \/ t.correct = << >> THEN
            IF t.single THEN [t EXCEPT !.single = FALSE]
            ELSE IF t.correct = << >> THEN [t EXCEPT !.single = TRUE]
            ELSE [t EXCEPT !.single = TRUE, !.correct = <<Head(@)>>,
                           !.right = {t.options[Head(t.correct)]}]
        ELSE [t EXCEPT !.single = FALSE])

(***************************************************************************)
(* Drafts                                                                  *)
(***************************************************************************)

(* draftWithAI: Regenerate is there while a draft is under way, too. *)
ClickDraft ==
    /\ Step /\ Here /\ (drafting => preview)
    /\ Cardinality(requests) < MaxRequests
    /\ drafting' = TRUE
    /\ requests' = requests \cup {[id |-> 1 + Max({0} \cup {q.id : q \in requests}),
                                   op |-> "draft", content |-> << >>, served |-> FALSE]}
    /\ UNCHANGED <<builderVars, preview, ticked, mode, target, applying, saveVars>>

(* The draft, or an error, replaces what the preview shows. *)
Drafted(q) ==
    /\ q.op = "draft"
    /\ \E ok \in BOOLEAN : preview' = (preview \/ ok) /\ ticked' = IF ok THEN {} ELSE ticked
    /\ drafting' = FALSE
    /\ requests' = requests \ {q}
    /\ UNCHANGED <<builderVars, mode, target, applying, saveVars, steps>>

TickDraft(k) ==
    /\ Here /\ preview
    /\ ticked' = IF k \in ticked THEN ticked \ {k} ELSE ticked \cup {k}
    /\ UNCHANGED <<builderVars, preview, drafting, mode, target, applying, saveVars, requests,
                   steps>>

SetMode(m, p) ==
    /\ Here
    /\ mode' = m /\ target' = IF m = "append_tasks" THEN p ELSE target
    /\ UNCHANGED <<builderVars, preview, ticked, drafting, applying, saveVars, requests, steps>>

AskApply(open) ==
    /\ ~left /\ applying # open /\ (open => Here /\ preview)
    /\ applying' = open
    /\ UNCHANGED <<builderVars, preview, ticked, drafting, mode, target, saveVars, requests,
                   steps>>

(* selectedAiPhases: those that are ticked, or all of them *)
Chosen == SetToSortSeq(IF ticked = {} THEN DOMAIN DraftTasks ELSE ticked, <)
Counts(n) == FoldFunctionOnSet(LAMBDA a, b : a + b, 0, [k \in DOMAIN Chosen |->
                                   DraftTasks[Chosen[k]]], 1..n)
Wrapped == [k \in DOMAIN Chosen |->
               [id |-> fresh + k + Counts(k - 1),
                tasks |-> TaskSeq(fresh + k + Counts(k - 1), DraftTasks[Chosen[k]])]]

(* applySelectedAiPhases *)
Apply ==
    /\ Step /\ applying /\ ~left
    /\ LET i == IndexOf(phases, target)
       IN  CASE mode = "replace" -> SetPhases(Wrapped)
             [] mode = "append_phases" -> SetPhases(phases \o Wrapped)
             [] mode = "append_tasks" ->
                  IF i = 0 THEN UNCHANGED <<phases, target>>
                  ELSE SetPhases([phases EXCEPT ![i].tasks =
                                    @ \o TaskSeq(fresh, Counts(Len(Chosen)))])
    /\ fresh' = fresh + Len(Chosen) + Counts(Len(Chosen))
    /\ applying' = FALSE
    /\ UNCHANGED <<selected, asked, preview, ticked, drafting, mode, saveVars, requests>>

(***************************************************************************)
(* Creating                                                                *)
(***************************************************************************)

CanSubmit == phases # << >> /\ \A i \in DOMAIN phases : phases[i].tasks # << >>

(* Mutant: the button stays enabled while the track is created. *)
ClickCreateAgain ==
    /\ Step /\ Here /\ CanSubmit /\ Cardinality(requests) < MaxRequests
    /\ saving' = TRUE
    /\ requests' = requests \cup {[id |-> 1 + Max({0} \cup {q.id : q \in requests}),
                                   op |-> "create", content |-> phases, served |-> FALSE]}
    /\ UNCHANGED <<builderVars, draftVars, left, created, lost>>

(* onSubmit *)
ClickCreate ==
    /\ Step /\ Here /\ ~saving /\ CanSubmit /\ Cardinality(requests) < MaxRequests
    /\ saving' = TRUE
    /\ requests' = requests \cup {[id |-> 1 + Max({0} \cup {q.id : q \in requests}),
                                   op |-> "create", content |-> phases, served |-> FALSE]}
    /\ UNCHANGED <<builderVars, draftVars, left, created, lost>>

(* create_track_template *)
ServeCreate(q) ==
    /\ q.op = "create" /\ ~q.served
    /\ created' = created \cup {<<Cardinality(created) + 1, q.content>>}
    /\ requests' = (requests \ {q}) \cup {[q EXCEPT !.served = TRUE]}
    /\ UNCHANGED <<builderVars, draftVars, saving, left, lost, steps>>

(* The page is left for the track, with what was changed since the click. *)
Created(q) ==
    /\ q.op = "create" /\ q.served
    /\ left' = TRUE /\ saving' = FALSE
    /\ requests' = requests \ {q}
    /\ UNCHANGED <<builderVars, draftVars, created, lost, steps>>

(* The request fails, or its answer is lost. *)
CreateFails(q) ==
    /\ Step /\ q.op = "create" /\ ~left
    /\ saving' = FALSE
    /\ lost' = IF q.served THEN lost + 1 ELSE lost
    /\ requests' = requests \ {q}
    /\ UNCHANGED <<builderVars, draftVars, left, created>>

Next ==
    \/ AddPhase \/ ConfirmDelete \/ CancelDelete \/ CloseSheet \/ AddOption \/ ChangeType
    \/ \E i \in DOMAIN phases :
          \/ AddTask(i) \/ MovePhase(i) \/ DuplicatePhase(i) \/ AskDelete("phase", phases[i].id)
          \/ \E j \in DOMAIN phases[i].tasks :
                \/ MoveTask(i, j) \/ DuplicateTask(i, j)
                \/ AskDelete("task", phases[i].tasks[j].id) \/ OpenSheet(phases[i].tasks[j].id)
    \/ \E k \in 1..(MaxSteps + 2) : RemoveOption(k) \/ TickOption(k)
    \/ \E q \in requests : Drafted(q) \/ ServeCreate(q) \/ Created(q) \/ CreateFails(q)
    \/ \E k \in DOMAIN DraftTasks : TickDraft(k)
    \/ \E m \in {"replace", "append_phases", "append_tasks"}, p \in Ids(phases) : SetMode(m, p)
    \/ \E open \in BOOLEAN : AskApply(open)
    \/ ClickDraft \/ Apply \/ ClickCreate

Spec == Init /\ [][Next]_trackVars

(***************************************************************************)
(* Properties                                                              *)
(***************************************************************************)

(* The types of the variables. *)
TypeOK ==
    /\ Ids(phases) \cup TaskIds(phases) \subseteq 1..fresh
    /\ ticked \subseteq DOMAIN DraftTasks /\ selected \in 0..fresh
    /\ target \in Ids(phases) \cup {0} /\ (target = 0 => phases = << >>)
    /\ {preview, drafting, applying, saving, left} \subseteq BOOLEAN

(* No two phases or tasks share a client_id, whatever was copied, applied or moved:
   dialogs, the sheet and the target of a draft find them by it. *)
IdsAreUnique ==
    /\ Cardinality(Ids(phases)) = Len(phases)
    /\ \A i, k \in DOMAIN phases : \A j \in DOMAIN phases[i].tasks, l \in DOMAIN phases[k].tasks :
           phases[i].tasks[j].id = phases[k].tasks[l].id => i = k /\ j = l

(* The correct options of a question are those that were ticked, whatever was added,
   removed, copied or turned into a single choice since. *)
TickedIsCorrect ==
    \A i \in DOMAIN phases : \A j \in DOMAIN phases[i].tasks :
        LET t == phases[i].tasks[j]
        IN  /\ ToSet(t.correct) \subseteq DOMAIN t.options
            /\ {t.options[n] : n \in ToSet(t.correct)} = t.right
            /\ t.single => Len(t.correct) <= 1

(* A task leaves the builder only by the dialog that named it or its phase, or by
   a draft that replaces the builder. *)
LeavesAsAsked ==
    \A t \in TaskIds(phases) \ TaskIds(phases)' :
        \/ asked = [kind |-> "task", id |-> t]
        \/ \E i \in DOMAIN phases : /\ asked = [kind |-> "phase", id |-> phases[i].id]
                                    /\ t \in TasksOf(phases[i])
        \/ applying /\ mode = "replace"

TasksStay == [][LeavesAsAsked]_trackVars

(* A track is created once, unless an answer was lost, and as the page showed it
   at a click. *)
CreatedOnce ==
    /\ Cardinality(created) <= 1 + lost
    /\ left => created # {}
    /\ \A c \in created : \A i \in DOMAIN c[2] : c[2][i].tasks # << >>

=============================================================================

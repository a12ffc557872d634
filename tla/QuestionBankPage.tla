-------------------------- MODULE QuestionBankPage --------------------------
(***************************************************************************)
(* The question bank, src/frontend/app/(app)/assessments/questions/        *)
(* page.tsx: a filtered and paged list, the selection, the operations on   *)
(* many questions at a time and those on one, with the reloads that follow *)
(* them; and what src/backend/app/services/assessment_service.py makes of  *)
(* the requests.  Other users change the bank too.                         *)
(*                                                                         *)
(* A handler that awaits a request goes on with what its closure has seen: *)
(* a request carries the filters and the page of the render it was sent    *)
(* from, and its reload uses them again.  The filters are represented by   *)
(* the filter on the status.                                               *)
(***************************************************************************)
EXTENDS Integers, FiniteSets, FiniteSetsExt

CONSTANTS
    BankQuestions, \* ids, in the order of the list
    Prompt,        \* Prompt[q]: the normalised prompt, equal for duplicates
    Filters,       \* the filters the user tries: sets of statuses, {} for any
    PageSizes,     \* the page sizes
    DefaultSize,   \* the one the page starts with
    InitialBank,   \* the status of each question when the page is opened
    MaxGestures,   \* bound: what the user does
    MaxRequests,   \* bound: requests under way at a time
    MaxOthers      \* bound: changes by other users, and failures

Statuses == {"draft", "published", "archived"}

BankAssumption ==
    /\ BankQuestions \subseteq Nat /\ IsFiniteSet(BankQuestions)
    /\ Filters \subseteq SUBSET Statuses
    /\ PageSizes \subseteq Nat \ {0} /\ DefaultSize \in PageSizes
    /\ InitialBank \in [BankQuestions -> Statuses]
    /\ {MaxGestures, MaxRequests, MaxOthers} \subseteq Nat

VARIABLES
    bank,       \* bank[q]: the status of the question on the server, or "gone"
    view,       \* the filter, page and pageSize of the page
    rows,       \* questions: what the list shows
    total,      \* total: how many match, as the last answer said
    selected,   \* selectedQuestionIds
    allMode,    \* selectAllMode
    target,     \* archiveTarget or deleteTarget: the dialog that is open
    preview,    \* dedupePreview: the count its dialog shows, or -1
    busy,       \* bulkOpMessage is shown, over the whole page
    due,        \* a load waits for the debounce
    requests,   \* the requests under way
    tally,      \* gestures, and changes by others and failures
    changed,    \* history: what the selections were used for, and what was named
    doubt       \* history: the list is of a load that a newer one overtook, or of
                \* another view

shownVars == <<view, rows, total, selected, allMode, target, preview, busy, due>>
bankVars == <<bank, shownVars, requests, tally, changed, doubt>>

NoTarget == [kind |-> "none", ids |-> {}, total |-> -1]

Init ==
    /\ bank = InitialBank
    /\ view = [filter |-> {}, page |-> 1, size |-> DefaultSize]
    /\ rows = {}
    /\ total = 0
    /\ selected = {}
    /\ allMode = FALSE
    /\ target = NoTarget
    /\ preview = -1
    /\ busy = FALSE
    /\ due = TRUE
    /\ requests = {}
    /\ tally = [gestures |-> 0, others |-> 0]
    /\ changed = {}
    /\ doubt = FALSE

(***************************************************************************)
(* Requests and the server                                                 *)
(***************************************************************************)

Matching(filter) ==
    {q \in BankQuestions : bank[q] # "gone" /\ (filter = {} \/ bank[q] \in filter)}

(* What list_questions returns for a view. *)
Listed(v) ==
    {q \in Matching(v.filter) :
        Cardinality({r \in Matching(v.filter) : r < q}) \div v.size = v.page - 1}

NoReply == [ok |-> FALSE, rows |-> {}, total |-> -1]

(* Requests are numbered in the order they are sent. *)
NextId(rs) == 1 + Max({0} \cup {r.id : r \in rs})

(* A request of the page: what is to be done to which questions, the view its
   handler saw, and the ids its handler was called with. *)
Request(kind, scope, ids, of) ==
    [id |-> NextId(requests), kind |-> kind, scope |-> scope, ids |-> ids,
     view |-> view, of |-> of, served |-> FALSE, late |-> FALSE,
     reply |-> NoReply, after |-> "none"]

Send(r) ==
    /\ Cardinality(requests) < MaxRequests
    /\ requests' = requests \cup {r}

Answer(r, reply) ==
    requests' = (requests \ {r}) \cup {[r EXCEPT !.served = TRUE, !.reply = reply]}

Done == [NoReply EXCEPT !.ok = TRUE]

(* bulk_update_questions: the ids of the request, or whatever matches its filter. *)
Affected(r) ==
    IF r.scope = "selected" THEN {q \in r.ids : bank[q] # "gone"}
    ELSE Matching(r.view.filter)

(* deduplicate_questions archives all but one of the questions with one prompt
   that are not archived. *)
Extras ==
    {q \in Matching({"draft", "published"}) :
        \E p \in Matching({"draft", "published"}) : p < q /\ Prompt[p] = Prompt[q]}

Outcome(kind) ==
    CASE kind = "publish" -> "published"
      [] kind \in {"archive", "dedupe"} -> "archived"
      [] kind = "delete" -> "gone"

(* What a request does to the bank.  "update" is the editor, which may set the
   status, or the category dialog; "create" the editor or the copy. *)
Serve(r) ==
    /\ ~r.served
    /\ CASE r.kind = "load" ->
              /\ Answer(r, [ok |-> TRUE, rows |-> Listed(r.view),
                            total |-> Cardinality(Matching(r.view.filter))])
              /\ UNCHANGED bank
         [] r.kind = "scan" ->
              /\ Answer(r, [Done EXCEPT !.total = Cardinality(Extras)])
              /\ UNCHANGED bank
         [] r.kind = "update" /\ Affected(r) = {} ->
              /\ Answer(r, NoReply)
              /\ UNCHANGED bank
         [] r.kind = "create" \/ (r.kind = "update" /\ Affected(r) # {}) ->
              /\ bank' \in {[q \in BankQuestions |-> IF q \in r.ids THEN "draft" ELSE bank[q]],
                            bank}
              /\ r.kind = "create" => \A q \in r.ids : bank'[q] = "draft"
              /\ Answer(r, Done)
         [] OTHER ->
              LET hit == IF r.kind = "dedupe" THEN Extras ELSE Affected(r)
              IN  /\ bank' = [q \in BankQuestions |->
                                IF q \in hit THEN Outcome(r.kind) ELSE bank[q]]
                  /\ Answer(r, Done)
    /\ changed' = IF r.kind \in {"publish", "archive", "delete"} /\ r.scope = "selected"
                  THEN changed \cup {<<r.kind, q, r.of>> : q \in Affected(r)} ELSE changed
    /\ UNCHANGED <<shownVars, tally, doubt>>

(* The request fails, or its answer is lost. *)
Fail(r) ==
    /\ ~(r.served /\ ~r.reply.ok)
    /\ tally.others < MaxOthers
    /\ tally' = [tally EXCEPT !.others = @ + 1]
    /\ Answer(r, NoReply)
    /\ UNCHANGED <<bank, shownVars, changed, doubt>>

(* Another user publishes or deletes a question. *)
Other(q, s) ==
    /\ bank[q] \notin {s, "gone"}
    /\ tally.others < MaxOthers
    /\ tally' = [tally EXCEPT !.others = @ + 1]
    /\ bank' = [bank EXCEPT ![q] = s]
    /\ UNCHANGED <<shownVars, requests, changed, doubt>>

(***************************************************************************)
(* Answers                                                                 *)
(***************************************************************************)

(* Mutant: the selection outlives the questions it was made of. *)
ListedAnewKept(r) ==
    /\ rows' = r.reply.rows
    /\ total' = r.reply.total
    /\ UNCHANGED selected

(* load: the list and its total, for the filters the request was sent with,
   whatever the page filters by now.  The effect on questions drops from the
   selection what is not listed. *)
ListedAnew(r) ==
    /\ rows' = r.reply.rows
    /\ total' = r.reply.total
    /\ selected' = selected \cap rows'

Loaded(r) ==
    /\ r.served /\ r.kind = "load"
    /\ requests' = {[x EXCEPT !.late = @ \/ x.id < r.id] : x \in requests \ {r}}
    /\ IF r.reply.ok THEN ListedAnew(r) ELSE UNCHANGED <<rows, total, selected>>
    /\ busy' = (busy /\ r.after # "bulk")
    /\ doubt' = IF ~r.reply.ok THEN doubt
                ELSE r.late \/ r.view # view
    /\ UNCHANGED <<bank, view, allMode, target, preview, due, tally, changed>>

(* The reload of a handler, with what its closure has seen. *)
Reload(r, after) ==
    [Request("load", "selected", {}, {}) EXCEPT !.view = r.view, !.after = after]

Follow(r, after) ==
    /\ requests' = (requests \ {r}) \cup {Reload(r, after)}

(* archiveQuestions, deleteQuestions, publishQuestions after their request: the
   selection loses the ids of the call, and the list is loaded before the
   message goes away. *)
BulkDone(r) ==
    /\ r.served /\ r.kind \in {"archive", "delete", "publish"}
    /\ IF r.reply.ok
       THEN /\ allMode' = FALSE
            /\ selected' = selected \ r.of
            /\ Follow(r, "bulk")
            /\ UNCHANGED busy
       ELSE /\ busy' = FALSE
            /\ requests' = requests \ {r}
            /\ UNCHANGED <<allMode, selected>>
    /\ UNCHANGED <<bank, view, rows, total, target, preview, due, tally, changed, doubt>>

(* Mutant: the list is not loaded after a question was saved. *)
EditDoneQuietly(r) ==
    /\ r.served /\ r.kind \in {"create", "update"}
    /\ requests' = requests \ {r}
    /\ UNCHANGED <<bank, shownVars, tally, changed, doubt>>

(* duplicateQuestion, classifyQuestion and onSave of the editor. *)
EditDone(r) ==
    /\ r.served /\ r.kind \in {"create", "update"}
    /\ IF r.reply.ok THEN Follow(r, "none") ELSE requests' = requests \ {r}
    /\ UNCHANGED <<bank, shownVars, tally, changed, doubt>>

(* The dialog that removes duplicates: the count of a dry run, then the run. *)
Scanned(r) ==
    /\ r.served /\ r.kind = "scan"
    /\ preview' = IF r.reply.ok THEN r.reply.total ELSE preview
    /\ requests' = requests \ {r}
    /\ UNCHANGED <<bank, view, rows, total, selected, allMode, target, busy, due,
                   tally, changed, doubt>>

DedupeDone(r) ==
    /\ r.served /\ r.kind = "dedupe"
    /\ preview' = -1
    /\ IF r.reply.ok THEN Follow(r, "dedupe") ELSE requests' = requests \ {r}
    /\ UNCHANGED <<bank, view, rows, total, selected, allMode, target, busy, due,
                   tally, changed, doubt>>

(***************************************************************************)
(* Gestures                                                                *)
(***************************************************************************)

(* Mutant: the dialogs let the page behind them be used. *)
FreeBehind == ~busy

(* The message of an operation covers the page, and the dialogs are modal. *)
Free == ~busy /\ target = NoTarget /\ preview = -1
Gesture == tally.gestures < MaxGestures
Count == tally' = [tally EXCEPT !.gestures = @ + 1]

(* A filter: the effect on the filters goes back to the first page, and the
   load waits for the debounce.  The selection and its mode stay. *)
SetFilter(f) ==
    /\ Free /\ Gesture /\ f # view.filter
    /\ view' = [view EXCEPT !.filter = f, !.page = 1]
    /\ due' = TRUE
    /\ Count
    /\ UNCHANGED <<bank, rows, total, selected, allMode, target, preview, busy,
                   requests, changed, doubt>>

SetPageSize(n) ==
    /\ Free /\ Gesture /\ n # view.size
    /\ view' = [view EXCEPT !.size = n, !.page = 1]
    /\ due' = TRUE
    /\ Count
    /\ UNCHANGED <<bank, rows, total, selected, allMode, target, preview, busy,
                   requests, changed, doubt>>

TotalPages == IF total = 0 THEN 1 ELSE (total + view.size - 1) \div view.size

TurnPage ==
    /\ Free /\ Gesture
    /\ \/ view.page > 1 /\ view' = [view EXCEPT !.page = @ - 1]
       \/ view.page < TotalPages /\ view' = [view EXCEPT !.page = @ + 1]
    /\ due' = TRUE
    /\ Count
    /\ UNCHANGED <<bank, rows, total, selected, allMode, target, preview, busy,
                   requests, changed, doubt>>

(* The debounce of 250 ms is over; or the user refreshes. *)
Load ==
    /\ due
    /\ due' = FALSE
    /\ Send(Request("load", "selected", {}, {}))
    /\ UNCHANGED <<bank, view, rows, total, selected, allMode, target, preview, busy,
                   tally, changed, doubt>>

(* toggleSelect, toggleSelectAll and the menu of presets. *)
ToggleSelect(q) ==
    /\ q \in rows
    /\ selected' = IF q \in selected THEN selected \ {q} ELSE selected \cup {q}
    /\ allMode' = FALSE

SelectPage == selected' = rows /\ allMode' = FALSE
SelectAllMatching == selected' = rows /\ allMode' = TRUE
DeselectAll == selected' = {} /\ allMode' = FALSE

Select ==
    /\ Free /\ Gesture
    /\ \/ \E q \in rows : ToggleSelect(q)
       \/ SelectPage
       \/ SelectAllMatching
       \/ DeselectAll
    /\ Count
    /\ UNCHANGED <<bank, view, rows, total, target, preview, busy, due, requests, changed, doubt>>

(* The buttons Archive and Delete, and Archive of a question's menu, open a
   dialog that names what it is about. *)
Ask(kind, ids) ==
    target' = [kind |-> kind, ids |-> ids,
               total |-> IF allMode /\ ids = selected THEN total ELSE -1]

AskBulk ==
    /\ Free /\ Gesture
    /\ \/ /\ selected # {} \/ allMode
          /\ \E kind \in {"archive", "delete"} : Ask(kind, selected)
       \/ \E q \in rows : Ask("archive", {q})
    /\ Count
    /\ UNCHANGED <<bank, view, rows, total, selected, allMode, preview, busy, due,
                   requests, changed, doubt>>

(* buildBulkPayload: what matches the filters of this render, or the selection
   of this render, whatever ids the handler was called with. *)
BulkPayload(kind, of) ==
    Request(kind, IF allMode THEN "all_matching" ELSE "selected", selected, of)

Bulk(kind, of) ==
    IF of = {} /\ ~allMode THEN UNCHANGED <<busy, requests>>
    ELSE busy' = TRUE /\ Send(BulkPayload(kind, of))

(* The dialog is confirmed: archiveQuestions, deleteQuestions. *)
Confirm ==
    /\ target # NoTarget
    /\ target' = NoTarget
    /\ Bulk(target.kind, target.ids)
    /\ UNCHANGED <<bank, view, rows, total, selected, allMode, preview, due, tally,
                   changed, doubt>>

Dismiss ==
    /\ target # NoTarget \/ preview # -1
    /\ target' = NoTarget
    /\ preview' = -1
    /\ UNCHANGED <<bank, view, rows, total, selected, allMode, busy, due, requests,
                   tally, changed, doubt>>

(* publishQuestions: of the selection, or of one question's menu. *)
Publish ==
    /\ Free /\ Gesture
    /\ \E of \in {selected} \cup {{q} : q \in rows} :
         /\ of # {} \/ allMode
         /\ Bulk("publish", of)
    /\ Count
    /\ UNCHANGED <<bank, view, rows, total, selected, allMode, target, preview, due, changed, doubt>>

(* The editor, the category dialog, a copy (of a question that is listed, or of
   none), and the button Remove duplicates. *)
Edit(kind, ids) ==
    /\ Free /\ Gesture
    /\ Send(Request(kind, "selected", ids, {}))
    /\ Count
    /\ UNCHANGED <<bank, shownVars, changed, doubt>>

Deduping == \E r \in requests : r.kind \in {"scan", "dedupe"} \/ r.after = "dedupe"

EditOne ==
    \/ \E q \in rows : Edit("update", {q})
    \/ \E q \in BankQuestions : /\ bank[q] = "gone"
                                /\ \A r \in requests : r.kind = "create" => q \notin r.ids
                                /\ Edit("create", {q})
    \/ ~Deduping /\ Edit("scan", {})

ConfirmDedupe ==
    /\ preview # -1
    /\ preview' = -1
    /\ IF preview = 0
       THEN UNCHANGED requests
       ELSE Send(Request("dedupe", "selected", {}, {}))
    /\ UNCHANGED <<bank, view, rows, total, selected, allMode, target, busy, due,
                   tally, changed, doubt>>

Next ==
    \/ \E r \in requests : \/ Serve(r) \/ Fail(r)
                           \/ Loaded(r) \/ BulkDone(r) \/ EditDone(r)
                           \/ Scanned(r) \/ DedupeDone(r)
    \/ \E q \in BankQuestions, s \in {"published", "gone"} : Other(q, s)
    \/ \E f \in Filters : SetFilter(f)
    \/ \E n \in PageSizes : SetPageSize(n)
    \/ TurnPage \/ Load \/ Select \/ AskBulk \/ Confirm \/ Dismiss \/ Publish
    \/ EditOne \/ ConfirmDedupe

Spec == Init /\ [][Next]_bankVars

(***************************************************************************)
(* Properties                                                              *)
(***************************************************************************)

(* The types of the variables. *)
TypeOK ==
    /\ bank \in [BankQuestions -> Statuses \cup {"gone"}]
    /\ view \in [filter : Filters \cup {{}}, page : Nat \ {0}, size : PageSizes]
    /\ rows \subseteq BankQuestions
    /\ total \in 0..Cardinality(BankQuestions)
    /\ selected \subseteq BankQuestions
    /\ {allMode, busy, due, doubt} \subseteq BOOLEAN
    /\ target.ids \subseteq BankQuestions
    /\ preview \in -1..Cardinality(BankQuestions)

(* The selection only holds questions the list shows, whatever answers arrive
   while the user selects and whatever an operation removes: the user sees every
   question an operation on the selection is about. *)
SelectionIsListed == selected \subseteq rows

(* A permanent deletion of the selection removes no question that its dialog did
   not count, although the request is built from the selection at the time of
   the confirmation and answers may change that while the dialog is open. *)
DeletedWasNamed == \A c \in changed : c[1] = "delete" => c[2] \in c[3]

(* What the dialog of the archive says, "This will move this question to archived
   status", or the number of questions selected: it archives nothing else. *)
ArchivedWasNamed == \A c \in changed : c[1] = "archive" => c[2] \in c[3]

(* When nothing waits or is under way, the list and its total are what the server
   would list now for the filters and the page that are shown, provided nobody
   else changed the bank, nothing failed, and the last answer was to the newest
   load and for these filters: every operation and every change of the view is
   followed by a load that sees it. *)
QuietListIsCurrent ==
    requests = {} /\ ~due /\ tally.others = 0 /\ ~doubt =>
        rows = Listed(view) /\ total = Cardinality(Matching(view.filter))

=============================================================================

# Verification of the onboarding platform

The repository is an internal employee-onboarding platform: a FastAPI and
SQLAlchemy backend (`src/backend/app`) over PostgreSQL with row-level security
per tenant, background threads and Celery workers, and a Next.js frontend
(`src/frontend`) whose pages keep state of their own between requests. This
directory holds TLA+ models of the parts that carry state from one request,
click or task to the next, the TLC runs that check them, and proofs checked by
TLAPS.

**On the server**, a request handler is a function on a SQLAlchemy session
(`db/session.py`: `autoflush=False`, `expire_on_commit=False`) over a READ
COMMITTED transaction. Every SELECT sees what is committed when it runs, a row
that is already in the session keeps the attributes it was first loaded with, a
flush writes the columns whose value differs from the loaded one, and a handler
that raises leaves the session to be closed, which rolls everything back.
Several requests run at a time; nothing but row locks taken by writes and unique
constraints orders them.

**In the browser**, a handler that awaits a request goes on with what its closure
saw when it was called, not with the state that is on the screen when the answer
comes; effects run some time after the state they depend on; requests are
answered in any order, may fail, and may be served although their answer is lost.

So the models of pages have one action for each gesture, one for the serving of
a request, one for what its answer does, and one for its loss; models of handlers
that overlap have one action for each statement that reads or writes.

## Inventory

| Part | State it keeps | What is hard | What makes it correct |
|---|---|---|---|
| Progress of an assignment (`services/progress_service.py`, `assignment_service.py`) | tasks, submissions, quiz attempts, checklist JSON; derived: overdue marks, `is_next`, phase and assignment status and percentage | derived columns rewritten from each request's snapshot; days that pass; two derivations of one fact; limits checked before an insert | task, submission, phase and assignment tell one story; the recommendation is the first open task; completions are not taken back |
| Employee's flow (`my-onboarding/[assignmentId]`) | selected task, typed text, submissions shown before they are answered | silent loads between a click and its answer; marks that the service drops | a text reaches the task it was typed for; nothing is ticked or completed that nobody clicked |
| Attempts and stars (`services/assessment_service.py`, `star_service.py`) | deliveries, attempts, answers; stars and counts on the membership | check-then-insert, read-modify-write counters, a handler that raises after a flush, expiry | numbers without gaps, every scored attempt counted once at most |
| Taking a test (`assessments/take/[deliveryId]`) | answers, clock, delayed save | the clock, the button and the saves race | what is scored is what was answered |
| Questions, tests, deliveries, categories (`assessments/*`) | lists with filters and selections, drafts, groups of deliveries, a tree | stale selections and closures, chains of requests that fail halfway, trees that were loaded earlier | a click does what its dialog said; one draft; categories form a forest |
| Import of questions (`questions/page.tsx`, `endpoints/assessments.py`) | a job's record in Redis, its thread, the page that polls | read-modify-write of the record by thread and request, restarts, expiry | what the page reports is so, and it does not wait for ever |
| AI classification job (`assessment_classification_service.py`) | the job row, its report, the questions | a worker and administrators that write one row; heartbeats against long calls; questions that come and go between the count and the batches | counts differ from the total by no more than that; gaps only are filled; a rollback restores |
| Billing outbox (`modules/billing`) | usage events, outbox rows, ledger | locks released in the middle of a batch, stale copies, Stripe outside the transaction | one charge at most, none forgotten, every event settled |
| Subscriptions and plans (`stripe_adapter.py`, `admin/page.tsx`) | subscription rows, plans, prices | webhooks repeated and reordered; cascading deletion | the newest state wins; plans in use stay |
| Tracks (`track_service.py`, `tracks/*`) | templates, versions, the builder | overlapping publications; a preview of another track | one current version; deletions that were confirmed |
| Deployment runs (`deployment_run_service.py`) | runs, items, records, release status | a run reopened beside another; dialogs over stale rows | one active run; the status follows the runs |
| Release notes and work orders (`release-notes`, `work-orders`) | items with delayed deletion, drafts in localStorage, sections of a text | undo against reload; a push against a save | an edit is stored, a draft is not overwritten |
| Compliance (`compliance-hub/*`) | practices, matches, evidence, frameworks | one drawer for rows and answers of others | evidence of the right practice |
| Settings, tenants, users, connections (`settings`, `admin`, `users`, `integration-registry`) | cached lists, members, an encryption key in memory | documents read and written whole; answers for what is no longer selected | what is saved is stored and shown |
| Session and passwords (`auth-context.tsx`, `api.ts`, `auth_service.py`) | tokens in tabs and local storage; single-use links | rotation that meets other tabs and retries | a request runs once; a tab with a session watches over it |
| Release planning, tenancy, mail and single sign-on, dashboards | rows edited field by field, documents that are parsed, queries | little that carries over | - |

How they interact: tracks are copied into assignments; an assessment task of an
assignment opens a delivery, and scoring its attempt writes the task's row and
runs the refresh of the assignment; handlers emit usage events in their own
transaction, which the billing workers read; every handler reads the membership
row first, in the tenant dependency, and the award of stars writes to that copy.
Every page sends its requests through `lib/api.ts`, which renews the token and
repeats a request, so that any page may load itself anew at any time (`Renew`,
`TokenRenewed` in the modules).

## Modules

### The core: one module per component, and proofs beside it

| Module | Models |
|---|---|
| `AssignmentRows` | The rows of one assignment and the functions on them: what each handler does to its task, and `refresh_overdue_and_status`, `recompute_progress`, `refresh_next_task`, in the order the code calls them. No variables. |
| `AssignmentProgress` | One assignment, requests one after another: `SubmitQuiz`, `SubmitTask`, `UpdateChecklistItem`, `MentorReview`, `AssessmentScored` are whole handlers including the refresh and the commit, `NextDay` is midnight. It is the abstract specification of the next module. |
| `ProgressRequests` | The same handlers as the server runs them: `Begin`, `Load` (the eager loading of the assignment), `Prepare` (the second read: attempts counted or latest submission), `Commit` (flush and commit, merging with what others committed), `Overtake` for a submission written between another's read and its commit. |
| `BillingOutbox` | `Emit` is a handler's event, `Take` the worker's SELECT ... FOR UPDATE SKIP LOCKED, `Start` the flush that locks a row again, `Check`, `Insert`, `CallStripe` the handling, `Settle` the commit, `Crash` the loss of the worker. Stripe is a counter of the calls that got through. |
| `ClassificationJob` | The background task of each job: `Begin` (load, reset, count, first commit), `Round` (select the job and the next batch), `Refused` and `Store` (the AI fails or answers), `Complete`, `Fail`, `Crash`. The administrators: `Look` is what a request reads, `Start`, `Control` (cancel, pause, resume) and `Rollback` what it then writes; `EditQuestion` is the bulk update, `Enter`, `Leave` and `DeleteQuestion` the questions that are created or imported, edited in or out of what a job lists, and deleted. `Matching` is the job's query, which runs once for the count and again for every batch. `Seen` is what the SELECT of a round returns: the row as the session holds it. |
| `BrowserSession` | The tabs of one browser, the tokens each holds and has shown to its effects, its timer; requests that are answered 401, refresh and are sent again; the exchange of a refresh token, which the server reads, then revokes. |
| `TextImport` | A job's thread, the record in Redis that thread and cancelling request read and write back, commands of Redis and steps of the thread that fail, before the commit and after it (`UpdateFails`, `WorkFails`, `Save`), and the page that starts, polls, stops and picks up again after a reload. |

### Parts of the frontend with the handlers behind them

| Module | Models |
|---|---|
| `AssessmentAttempts` | One participant's attempts as the statements of overlapping requests: start, submit with `award_stars`, autosave; the administrators' extension, retake, update and stop. |
| `TestTaking` | The page of a test: answers, delayed saves, the clock, the submission by hand and by the clock. |
| `QuestionBankPage` | The list of questions: filters, pages, selection, bulk operations, single edits, duplicates. |
| `TestBuilder` | The draft of a test: composition, save, publish, history, in chains of requests of which each may fail. |
| `DeliveriesPage` | Groups of deliveries and the loops of requests that change them. |
| `CategoryForest`, `CategoriesPage`, `CategoryMenu` | The tree as an operator on parents; the page that moves, merges and deletes; the menu that picks. |
| `EmployeeFlow` | The page of an assignment over the service, one request at a time and without the refresh; as in `AssignmentProgress`, only the first mark of a checklist is stored, while status and answer are those of the marks the request saw. |
| `TracksPage`, `TrackVersions`, `TrackBuilder` | The list with its cascading deletion; versions saved, published and deleted in overlapping requests; the builder of a new track with its AI drafts. |
| `DeploymentRuns` | Runs of a release, as requests that read, decide and commit, and the tab over them. |
| `ReleaseNoteEditor`, `WorkOrderEditor`, `WorkOrderBody` | Items with five seconds to undo; the form with its draft and the pushes to git; the sections and tables of the text. |
| `TenantSettings`, `AdminConsole`, `PlanTemplates` | Lists of labels with their caches; tenants, their modules and members; plans and prices. |
| `CompliancePractices`, `ComplianceProfile` | Practices, matches and evidence in one drawer; frameworks, requirements and the stored match. |
| `UsersPage`, `PasswordLinks` | The directory and its dialogs; the links that set a password. |
| `StripeWebhooks` | Events of Stripe repeated, lost and reordered, and the rows they leave. |
| `ConnectionsPage` | Connections, the drawer, the form, the column picker, and the key that others load or replace. |

`..._proofs` modules hold the theorems. `MC...` modules give constants to TLC.
`MCAssessments`, `MCWork` and `MCAdmin` compose the second table: the parts of one
area run side by side in one exploration. `open` names the part a behaviour is
about, its variables take the first of the slots `p1`, `p2`, ..., the other slots
are `"off"`, and a property is the conjunction, over the parts, of that part's own
properties. No part shares state with another there, so this is as many separate
explorations at the cost of one.

What the models leave out: texts (a form, a label or a paragraph is one of two or
three values), scores of quizzes beyond passed or not, notes and audit rows,
percentages other than "100 or not" in `AssignmentProgress` (`ProgressRequests`
keeps them as sums), other tenants, and requests whose handler only reads, unless
a page keeps what it has read. Percentages are exact means: that the code rounds
them to two decimals (`assignment_service.py:550,568`, `progress_service.py:204`),
so that a mean may round up to 100 while a task is open, takes some 20000 tasks and
is left out. In `WorkOrderEditor`, so is the page's way out of a conflict
(`work-orders/[id]/page.tsx:1007-1047`): the dialog opens only for an answer 409
to a save, and the one 409 that a save gets is that of a new order whose id is
taken (`work_orders.py:381`), whose words are not those the page looks for. Definitions that follow a comment `Mutant:` are
plausible bugs that no specification uses: each shows that some property is able
to fail.

## Runs

| Run | Question | Bounds |
|---|---|---|
| `MCAssignmentProgress` | Do the rows of an assignment stay consistent, whatever the order of requests and as days pass? | three track shapes that together have every task type, a task with and without due date, a limited and an unlimited quiz, required and optional items, an empty phase and an assignment without required tasks; days 0 to 2, so that a due date lies before, on and after today |
| `MCAssignmentMarks` | *Violated.* Is a mark that was answered with success stored? The second mark is not: SQLAlchemy compares the new JSON with the loaded one, which the handler has edited in place. | same |
| `MCProgressRequests` | Two overlapping requests: by how much can a quiz pass its limit, and does a request that nobody disturbs restore all derived columns, however contradictory they were left? | two tasks, three requests, two at a time: enough for a stale commit followed by a repair (271,786 states) |
| `MCProgressSerial` | Do the transactions, one at a time, implement `AssignmentProgress` (refinement mapping `Serial`)? | two track shapes, any number of requests (106,606 states) |
| `MCBillingOutbox` | Two workers with overlapping batches, failing handlers and calls, a crash: one charge at most, no charge forgotten, attempts that match the status, every event settled in the end | two events in one batch (a batch of one would never lose a lock early), two tries, one crash |
| `MCClassificationJob` | Two jobs whose tasks may run side by side, over a bank that changes meanwhile: by how much do what is processed and what was counted differ, are only gaps filled in the mode for unclassified questions, does a rollback restore what nobody else has changed or deleted, does every task end? | two questions, one of which has a category, batches of one, three orders (both modes, and a dry run), and three events (requests, edits, questions that leave, come back or are deleted, failures) between the steps of the tasks: two starts and a rollback, a start, an edit and a rollback, a crash between two starts, a question that leaves and comes back while a job runs (465,970 states) |
| `MCBrowserSession` | Is a request executed once, is a tab with a session watched over, does a client get one successor of a token, and do sessions settle? | two tabs and a request, three pairs of tokens, a fault of the network, a gesture (975,135 states) |
| `MCTextImport` | Is what the page reports of an import so, and does it stop waiting? | one job of one chunk, and two faults: commands of Redis or steps of the thread that fail, requests without an answer, restarts of the server, reloads of the page (212,484 states) |
| `MCAssessments` | `AttemptsAreTrue`: numbers without gaps, stars never counted twice, a milestone once; one at a time also one attempt in progress, stars that add up, scores that match the answers. `RecordsAreKept`, `DoneAsClicked`, `QuietPagesAreCurrent` of taking a test, questions, tests, deliveries, categories | attempts: one delivery with three settings, four requests of which two overlap, six one by one; pages: two or three gestures, two requests under way, one of them lost or one change by another user (the bounds of each part are in the module) |
| `MCWork` | `RecordsAreKept`: texts reach their task, one current version, one active run unless one was reopened, drafts are not overwritten, sections stay apart. `DoneAsClicked`: boxes that were clicked, saves, one track created, closed runs, undone deletions, pushes, log entries. `QuietPagesAreCurrent`. `TasksStay`: a task leaves the builder only by a dialog that named it, or by a draft that replaces everything | two tasks or tracks, three to four events, two requests under way, one lost; for the text of a work order four bodies and three texts that are typed |
| `MCAdmin` | `RecordsAreKept`: unique values, modules of the right tenant, plans in use, evidence of its practice, requirements removed only as a mark, events of Stripe stored, links used up, endpoints nobody removed. `QuietPagesAreCurrent` | two or three tenants, plans, practices, users; three to five gestures, two requests under way, one lost (2,022,035 states) |
| `MCQuestionsArchived` | *Violated.* Does the bulk action archive the questions that its dialog named? Archiving one question from its row sends the selection instead. | those of `MCAssessments` |

A page "at rest" (`Quiet...`) has no request under way; the properties except pages
that missed a failure or a change by somebody else, each by the flag the module
names. Two gestures and two requests are the least with which an answer arrives
for what is no longer selected; the third gesture shows what the page then does
with it. Where a part has both a lost request and a third gesture, it is there
twice, once with each, as the comment says.

Deadlock is checked where requests never run out. The other runs bound the number
of requests, attempts, gestures or days, so that their systems stop, and say so in
the configuration.

### What the exemptions leave unasserted

The flags are not only about networks that fail. Several hazards of this code are in
the models as they are in the code, and the properties hold because they except them:

| Exemption | What may happen under it |
|---|---|
| `met` (`PasswordLinks`), `crossed` (`TrackVersions`, `DeploymentRuns` with `serial`) | two overlapping requests set a password by one link, leave two current versions, or start two runs |
| `origin` in `OneSuccessorEach` (`BrowserSession`) | two clients both exchange one refresh token; a refused refresh clears a session that another tab has renewed |
| `OneByOne` (`AssessmentAttempts`) | overlapping starts leave two attempts in progress, overlapping submissions lose stars |
| `copy[j].pause` in `TasksEnd`, `touched` and `moved` (`ClassificationJob`) | a job found paused waits for ever; two jobs overwrite each other's questions; a counter passes its total or stops short |
| `late` (`StripeWebhooks`) | an event that comes after a later one is stored over it |
| `failed`, `crossed` (`DeliveriesPage`), `stale`, `merged` (`CategoriesPage`) | a batch that failed halfway is made again in full; a merge below itself, or a parent chosen from an old list, makes a cycle |
| `waited` (`ConnectionsPage`), `mixed` (`UsersPage`), `doubt` (`AdminConsole`) | Edit, clicked while the connection is loaded again, erases its endpoints; saving one row drops the edits of another; modules shown for one tenant are saved for the next, while its own have not been answered |
| the status in `AnswersAreStored` (`TestTaking`) | an answer given within half a second before the submission is not stored |
| all that match, in `DeletedWasNamed` (`QuestionBankPage`) | the bulk action is about what matches the filter when it is confirmed |

Of these cases the properties say nothing. Where the code, a test or a document promises
the stronger form, it is in the list of disagreements below.

### Fairness

Four modules claim liveness. In `ClassificationJob`, weak fairness of `Begin` and
of the task's further steps is that FastAPI gives a background task a thread and
that calls to the AI time out; nothing is assumed of administrators, failures or
crashes. `TasksEnd` leaves out a task that found its job paused when it began: it
waits for a resumption it never sees. The branches of `Round` for a cancellation
and for the end of a pause are there as in the code, and never taken.

In `BillingOutbox`, weak fairness of `Take` is the beat that keeps scheduling the
task (`celery_app.py`), weak fairness of a worker's own steps is that a running
task goes on, strong fairness of `Start` is that PostgreSQL grants a row lock in
the order of the requests, and weak fairness of `BackoffElapses` is that time
passes. Crashes are not fair and are bounded: with a crash in every batch nothing
would settle. `Emit` is not fair.

In `BrowserSession`, weak fairness of `System` is that the server answers, React
runs effects and a timer fires; the user, the ageing of tokens and faults of the
network are not fair. In `TextImport`, the thread goes on, the page's interval
ticks, and requests are served and handled: polls apart from the others, since a
stream of polls must not stand in for the answer to a cancellation.

## Proofs

Eight modules prove theorems, for every value of the constants that the named
ASSUMEs of the modules allow (TLC evaluates those in the runs). Each follows one
argument: an invariant `IInv` that holds at first and after every step, one lemma
per action, and the properties as consequences of `IInv` or of a step from it.
TLC checked every `IInv` over the states of the run of its module, or of the part
of a composed run.

Seven of the eight have a second part, below a rule, and four a third, each about one more
component: a module of a composed run, taken as an instance (`Links == INSTANCE
PasswordLinks`) whose constants and variables are declared where the part begins. The
component stands there because its subject is next to that of the first part, or
because no names of theirs meet; they share no variable. Its theorems assume the
component's named assumption (`Links!LinksAssumption`), which the MC module of the composed run has TLC evaluate,
and hold for all constants, whereas the run takes two of each thing.

**`AssignmentRows_proofs`** has no theorem of a behaviour: it is what the functions
on rows preserve and compute, and both modules below cite it. `StoreKeeps` is the
heart: whatever rows a handler hands to the refresh, what is stored afterwards
agrees with what is derived from it.

**`AssignmentProgress_proofs`** proves all properties of `MCAssignmentProgress`,
for any number of tasks, phases, items and days. `IInv` adds to the type and
`SubmissionMatchesReview` that each row is `Good` (status, percentage and
completion date agree), that an overdue row is past its date, that the mark of the
next task is the one the last refresh left (`Recommended`), and that what is stored
on assignment and phases is what the refresh derives from the stored rows
(`Derived`). The last two are needed because `DerivationsAgree` and
`NextTaskIsFirstOpen` compare columns that different functions computed: they hold
only since every handler ends in the refresh.

*Second part: `TrackVersions`*, for any number of versions, edits, gestures and
requests. `VersionsInv`: what a request has read of the rows is still so, unless a
write was answered since it read them, and the version it is about to publish or
delete allows it (`Sound`); publications that did not cross leave one current version
and delete none (`Published`); a page that waits has asked, and a list that is not the
server's will be asked for (`Pages`); and a row is left for each version that is being
saved (`RoomForAll`, a bound of the model, without which the types are not inductive).

**`ProgressRequests_proofs`** proves the properties of both of its runs, for any
number of tasks, of requests and of shapes.
- `IInv` says that stored rows are rows whatever a commit merges (`Kept`), that the
  slot of a request holds what its stage needs (`Slots`), and that the attempts at a
  quiz, with those of the requests that have been let in but not committed
  (`Taking`), stay within the limit and the number of requests (`Admitted`).
  `AttemptsBounded` is not inductive without the latter: what may be exceeded is
  decided when a request counts, long before it is visible.
- Percentages are sums over a set of tasks, by the fold of the community modules.
  What such a sum is follows by induction over the size of the set, in the form of
  the choice of a least counterexample: a set of smallest size for which the
  statement fails cannot exist. It needs no induction rule with a formula as its
  parameter.
- `UndisturbedCommitsRepair` is an action property: if nobody has committed since a
  request loaded the rows, then what it stores is derived from what it stores.
  Nothing is assumed of the derived columns it found.
- `SerialWhenAlone` is the refinement: with one request at a time `RSpec` implements
  `AssignmentProgress!Spec`. `Begin`, `Load` and `Prepare` are stutters and `Commit`
  is the whole handler, since a lone request's snapshot is what is stored (`Lone`).
  It assumes that `Requests` has one element at most, as its run does; the sums of
  percentages map to "100 or not". No module has a RECURSIVE operator.

*Second part: `DeploymentRuns`*, for any number of runs, steps, gestures, other users
and losses. To the types and to what the properties say of rows, `RunsInv` adds
`OneAtATime` (requests that follow one another leave one run active that was not
re-opened) and `Followed`: a tab that is in no doubt shows the runs of the server, or
takes an answer that makes it load them, or loads them, once at a time; and the list
of such a load is what the server holds.

**`BillingOutbox_proofs`** proves the safety properties of the outbox for any number
of events, workers, tries and crashes. `IInv` adds that a worker owns the row lock
of the event it handles (`Owning`), that what it has read of the ledger is still
true while it does (`Charging`), and that a batch is loaded with tries left
(`Counting`). From `Owning` follows that check and insert cannot interleave for one
event, although the locks of the batch are gone.

*Second part: `StripeWebhooks`*, for any number of changes, prices and losses.
`WebhooksInv`: every state an object has had got its event (`AllTold`), a row holds one
of those states (`RowsAreStates`), no event of a subscription is handled before the
row that its checkout makes (`CheckoutFirst`), and the row of an object whose events
came in order is as new as the newest that was processed and shows the last price that
was known (`InOrder`).

*Third part: `PlanTemplates`*, for any plans, texts, gestures, requests and losses.
`PlansInv`: requests that did not meet follow one another, and the lists of the page
agree with the rows unless the server has done what is not answered yet, and then what
the answer makes of them will (`Listed`); what a load on a renewed token has read, one
list after the other, is what the server has (`Read`); a plan that is being made has no price in
the list (`New`). The latter was missing from the module: with four gestures a plan
that was deleted could be made again under its key, while the price it once had was
still listed. In the code a new plan has a new id, so the guard of `Create` now keeps
such a key out.

**`ClassificationJob_proofs`** proves the safety properties of the jobs for every
bank, size of a batch and number of jobs and administrators (a finite set, by
`AdminAssumption`). Its `IInv`: what an administrator's request has read is of a job
that was started, and a rollback's job has ended (`Request`); there is an unused job
for each request that may start one (`StartsFit`, the bound of the model, which
makes the types inductive); the row of a job agrees with where its task is
(`Task`); the questions that a job over the whole bank has taken, its batch apart from
those it has processed, are of those that it counted at first or have moved since, and
those it counted and has not taken are still ahead of it or have moved (`Counted`). For
the questions that nobody else has touched: what is asked about is as it is stored
(`Asks`), what was there at first is kept in the mode for gaps (`Gaps`), a question is as
it was or as its item says (`Whole`), and what a rollback has read is still so or needs
no restoring (`Rolls`). The last one is why `RollbackRestores` holds although a rollback reads
the bank some time before it writes.

*Second part: `EmployeeFlow`*, for any tasks, kinds of tasks and items of a checklist,
and any number of gestures, reviews and losses. `FlowInv` rests on who met whom: a
request that met no other is the only one (`FlowAlone`) and has read the tasks as they
are (`FlowFresh`). What disables a button is under way (`FlowWaits`). Unless the page is
in doubt, a task is shown as it is, or what brings it is under way (`FlowShows`): an answer
to a tick shows marks that are not stored, until the load that follows it. `FlowClicked`
says of everything that holds marks - the rows, the page, an answer, a tick that is sent,
which carries the box as the page showed it - that they were clicked. That a checklist ends
up as it was clicked last is not so: the service stores the first mark only.

**`BrowserSession_proofs`** proves that a request is executed once, that a tab with
a session is watched over, and that a client exchanges a token once, for any number
of tabs, requests, pairs, faults and gestures. `Pairing`: what anybody holds was
issued (`HeldIsIssued`), an answer carries a pair that nobody holds yet
(`AnswersAreNew`), a token that has a successor is revoked and a client that found
one valid has not exchanged it (`Rotated`). The server does not lock the row of a
token, so two clients may both exchange it; that one client does not is due to its
having one exchange under way. `Watching`: `TabIsWatched` as it stands says nothing
about the moment between a state and its effects; `Watched` adds that a tab whose
effects have run has seen its tokens.

*Second part: `PasswordLinks`*, for any number of tabs, passwords, links, forms and
losses. `LinksInv`: of a link that no two requests found unused at a time, one request
at most has found it, and none once it is used (`Single`); that is more than
`LinksAreUsedUp` says, and what makes it inductive, since the server reads a link some
time before it writes it. `SetsAreSubmitted` bounds what may yet be set by the forms
that were submitted, which the types need.

*Third part: `QuestionBankPage`*, for any questions, filters, sizes of a page, gestures,
requests, failures and changes by other users. `Numbered`: requests are told apart by
their ids, so a new one is the newest. `Named`: between the click that opens a dialog and
the request that it sends, and up to the answer, the selection that the request is sent
from has not grown beyond what the dialog counted. `Followed` is what `QuietListIsCurrent`
needs: unless another user acted or something failed, a load is due, or a change waits
for its answer and will make one due, or the newest load is not late and carries, if it
was served, what the server lists now; or all loads are late, and the page shows what is
listed, or is in doubt. That the newest load is current survives every change of the
bank because a change that is not answered yet is the second case.

**`TextImport_proofs`** proves `ReportsAreTrue` for any number of jobs, chunks, failing
commands of Redis, exceptions in the thread, lost requests, restarts and reloads. `Honest`
says of everything that holds a status - the record, an update under way, the copy that
update has read, an answer of the server, what the page has told - that it agrees with what
the job has saved, and (`Says`) that a job which is said to be cancelled or failed has a
thread that is over or in its except clause. Without the copy, an update that writes an
old record back could not be shown harmless. Of a job that is said to have failed, it
follows that nothing is stored only if its thread did not end in the except clause: the
update to "done" is within the same `try` as the commit.

*Second part: `TestBuilder`*, for any number of questions, versions, edits, gestures,
renewals of the token and failures. `BuilderInv` has three concerns.
- The versions (`Ordered`): they are made one after the other, a draft is the only one
  and has the greatest number. One draft is the property; the number is what makes it
  inductive, since the request for the next draft looks at the latest version only.
  What is computed by a choice of the greatest number, or by deleting all but the
  latest published versions, is described by `LatestIs` and `PublishKeeps`.
- The chain of requests (`Published`): what the handler is going to publish has been
  saved with the questions it saw when Publish was clicked, or is gone.
- The page (`Working`, `Loading`): at every point of the chain, what is shown is the
  draft or becomes it with the next answer, as long as no request failed and the load
  that was taken met neither a save nor a deletion.

*Third part: `CategoriesPage`*, for any finite set of categories that hang under roots at
first, and any gestures, requests and losses. What the model says by following parents
(`Chain`, a recursive function) the proof says without: a set of parents is `Grounded` if
no nonempty set of categories has all its parents within itself. A category that never
gets to a root would make such a set of all that it passes (`GroundedIsRooted`), and as many
steps as there are categories suffice, since none is passed twice. `MoveKeeps`,
`BirthKeeps`, `DeletionKeeps` and `MergeKeeps` say when `Grounded` survives what the
handlers do.
`TreeInv` adds that the page, while nothing is stale, is in step with the server
(`InStep`): a move carries no parent from below the category that it moves, which keeps
the server from a cycle that it does not look for itself. Three faults of the models came out of it: the cases for a category
that is its own parent overlapped, here and in the answers of `CompliancePractices`
and `TenantSettings`, so that TLC took an arm that the definition does not single out;
and nothing was assumed of the first categories.

**`AssessmentAttempts_proofs`** proves `AttemptsAreTrue` (`AttemptsAlwaysTrue`, with a
theorem for each of its parts), for any deliveries, requests, administrators, settings and
instants. The module is a part of a composed run and has no ASSUME of its own, so its
theorems assume `AttemptsAssumption`, which `MCAssessments` has TLC evaluate.
- When requests overlap, `IInv` says that what a request holds in its session stays
  true enough: a start has read a setting whose number of attempts was granted, and
  the number it counted is taken by now or the next (`Starting`); the counts that a
  submission has read leave room for its attempt (`Counting`), since they were read
  when it was not scored yet; and from its flush to its commit a submission holds
  the membership row, so that what it has found of the milestone is still so
  (`Locking`). From these follow `AlwaysNumbered`, `NeverCountedTwice` and
  `UnlockedOnce`.
- When requests follow one another (`OneByOne`, as in the part "alone" of the run),
  what a request has read is what is stored (`Current`), and `SerialInv` adds that
  to `IInv`: one attempt in progress, true scores, and stars that add up. The sum of
  the stars over a set that grows is shown as above, by a least counterexample:
  `SumsApart` says that a sum may take its elements in any order. Without
  `OneByOne` the three do not hold; the table below says how they fail.

*Second part: `TestTaking`*, for any number of questions, attempts, choices, requests,
renewals of the token and losses. `TakingInv` follows an answer from the page to the
row. `Numbered`: requests carry answers that the page showed for their attempt.
`Waits`: what waits for the debounce is all that the page shows. `LastSaveCarries`: if
nothing waits, the save that was sent last carries all of it; it is under way, or it
is over and its answers are stored unless it was lost or overtaken. The property
`AnswersAreStored` speaks of the last of these only, and each is the premise of the
next.

*Third part: `DeliveriesPage`*, for any number of deliveries, employees, gestures, attempts,
requests and losses. `PageInv` has four concerns.
- The buttons (`OneDialog`, `Buttons`): a button is disabled while there is one handler
  behind it, or the list that this handler loads at last, and never longer.
- The list (`Handled`, `InTouch`): an answer holds what the server has, unless it was read
  before a write; and the page shows what the server has, or a list is to come, or the page
  is in doubt.
- The loops of requests (`Altered`): as long as no two handlers that change deliveries met,
  a delivery differs from what was asked for only while a handler has still to get to it,
  and the form that is open shows what the deliveries have, but for the fields that were
  touched. `Extras` bounds what the dialog for more time may yet add.
- The loop of creations (`Counted`): a participant has one delivery more than was counted
  once the loop has passed them and before it is over.

Faults of the model came out of it that no run had shown. The page lists the newest
delivery first, so that it represents a group and the loops begin with it, where the model
took the oldest; a sheet makes its deliveries in the order of the clicks, and the results
of deliveries are answered in any order, where the model sorted both; the types bounded the
attempts by the number allowed, which an edit may lower; and the page shows a test as
completed once an attempt was handed in, even while another is under way.

### What stays with TLC

- Liveness under fairness: `EventuallySettled`, `TasksEnd`, `SessionsSettle`,
  `ImportsEnd`. The prover does not reason about ENABLED, which fairness needs.
- The composed invariants themselves (`AttemptsAreTrue`, `RecordsAreKept`,
  `DoneAsClicked`, `QuietPagesAreCurrent`), which put parts with small constants side
  by side. Their conjuncts about attempts, taking a test, the list of questions, the test
  builder, categories and the page of deliveries (`MCAssessments`), track versions,
  deployment runs and the page of an assignment (`MCWork`), Stripe's events, plans and
  password links (`MCAdmin`) are theorems for all constants, as above. The other
  conjuncts, and `TasksStay`, have no proofs: the model checker alone speaks for them.
- `MarkIsStored` and `ArchivedAsNamed`, which are violated.

## Where code and words disagree

Two disagreements have a run, `MCAssignmentMarks` and `MCQuestionsArchived`. Others
are stated in the modules, as properties with the words they come from, and are
known to fail:

| Property | Words | What happens |
|---|---|---|
| that a checklist ends up as it was clicked last (no property; `MarkIsStored` shows the cause) | "Checklist updated.", `my-onboarding/[assignmentId]/page.tsx:294` | marks after the first are not written (`progress_service.py:160-196`); the load after the answer takes them off the page again |
| that nothing is stored of an import reported failed (the last conjunct of `ReportsAreTrue`, without its exemption) | "Import failed on the server.", `assessments/questions/page.tsx:576` | if Redis or the closing of the session fails after the commit, the except clause writes `error` (`endpoints/assessments.py:579-595`) |
| that a completed job has processed what it counted (`ProgressAddsUp`, without `moved`) | "Processed x / y" on the page of questions | the total is counted once, the questions are selected again for every batch (`assessment_classification_service.py:209-211,254-257`) |
| `OneInProgress` (`AssessmentAttempts`) | "One in-progress attempt at a time", `docs/assessments-ai-roadmap.md` | two overlapping starts both find none; `AttemptsNumbered` holds then, and `OneInProgress` for requests one by one |
| `StarsCounted` with two deliveries | "Atomically increment total_stars", `star_service.py:119` | the stars of one of two submissions are lost |
| `RetakeIsOpen` | the docstring of `grant_retake` | the mark `expired` of an old attempt is rolled back with the exception that follows it, so the granted attempt cannot start |
| `NoBatchAfterCancel` (`ClassificationJob`) | comments on cancellation | the task's SELECT does not refresh the row it holds, so it never sees the request |
| `RollbackUndoes` | "Record per-question diff for review/rollback" | a question whose category or difficulty was kept is skipped |
| `OneActiveRun` (`DeploymentRuns`) | "Enforce one active run per release+DC+ENV", `deployment_run_service.py:137` | overlapping starts, and reopening an old run |
| `DraftsAreOffered` (`WorkOrderEditor`) | "Draft found from ... Restore it or discard", `work-orders/[id]/page.tsx:1158` | a load that succeeds counts as the latest save of the server (line 674), so a copy from before it is never later, and never offered |
| `TypesAreStored` (`TenantSettings`) | "survives page navigation / refresh", `lib/track-type.ts` | `schemas/settings.py:29-34` has no such list, and drops it |
| `ResetRemovesOverrides` (`AdminConsole`) | "Remove all manual overrides and restore the plan defaults", `admin/page.tsx` | assigning the plan again leaves every override as it is (`billing/service.py:18-57`) |
| `FailuresAreTrue` (`ComplianceProfile`) | the meaning of a failed request | the audit call after the commit takes keywords only (`audit_service.py:9-19`), so a stored change is answered with an error |
| `CategoriesAreInTree` (`CategoriesPage`) | "A category cannot be its own parent", `assessment_service.py:474` | a merge into a category below it (lines 521-566), or a parent chosen from a stale list, makes a cycle that no tree shows |
| `LinksAreSingleUse` (`PasswordLinks`) | "Single-use token", `models/token.py:36` | two requests that both found it unused both set a password |

In `ConnectionsPage` the column picker keeps the columns it was first mounted with,
so that "Apply" replaces those that were stored; a field that was cleared is sent as
null and keeps its old value on the server; a late answer closes whichever drawer or
form is open; a renewal of the token drops an edit. The guards of
`modules/billing/limits.py` are mounted on no endpoint, and `apply` of a
classification job calls `_get_or_create_category`, which is defined nowhere.

## Not modelled, and what could follow

Not modelled, and not planned: release planning (documents that are parsed and
written), tenancy (the database enforces it), mail and single sign-on (calls to
others), dashboards and reports (queries), and, of the integration registry, the
services, dictionaries and routes beside the connections.

What could follow, in this order: proofs for the other parts of the composed runs,
first those whose properties relate two actors (`WorkOrderEditor`, `UsersPage`), in the
manner of the second parts above; models of the pages of the registry beside the
connections.

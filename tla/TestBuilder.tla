----------------------------- MODULE TestBuilder -----------------------------
(***************************************************************************)
(* The builder of a test, src/frontend/app/(app)/assessments/tests/[id]/   *)
(* page.tsx: it works on the draft version of the test, saves it, publishes*)
(* it and goes on with the next draft, in up to four requests of which     *)
(* each may fail; a renewal of the access token loads the test anew at any *)
(* time.  The versions are those of src/backend/app/services/              *)
(* assessment_service.py, one request at a time.                           *)
(***************************************************************************)
EXTENDS Integers, Sequences, FiniteSets, FiniteSetsExt, SequencesExt

CONSTANTS
    Pool,           \* published questions of the bank
    MaxVersions,    \* bound: versions ever created
    KeepPublished,  \* keep_published: published versions a publication keeps
    MaxEdits,       \* bound: edits of the composition
    MaxOps,         \* bound: clicks on Save draft, Publish, and in the history
    MaxRenewals,    \* bound: renewals of the access token
    MaxFailures     \* bound: requests that fail or whose answer is lost

BuilderAssumption ==
    {MaxVersions, KeepPublished, MaxEdits, MaxOps, MaxRenewals, MaxFailures} \subseteq Nat

Ids == 1..MaxVersions

VARIABLES
    versions,   \* versions[v]: [status, number, published_at, questions]
    inUse,      \* the versions with deliveries
    current,    \* version of the page: the id of the draft it works on, 0 for null
    composition,\* versionQuestions
    history,    \* versionHistory: the rows of the sheet
    saving,     \* the handler that runs with saving set, and its request
    loading,    \* the loads of the test that are under way
    waiting,    \* loading: the loading screen is shown in place of the builder
    aside,      \* the request of the history sheet that is under way
    spent,      \* edits, clicks, renewals, failures so far
    clicked,    \* history: the composition whose Publish click published version v
    unsaved,    \* the composition has been edited since the last save was clicked
    mixed       \* history: the page's load overlapped a save, or a deletion was asked since

builderPage == <<current, composition, history, saving, loading, waiting, aside>>
builderVars == <<versions, inUse, builderPage, spent, clicked, unsaved, mixed>>

NoVersion == [status |-> "none", number |-> 0, published_at |-> 0, questions |-> <<>>]
Deleted == [NoVersion EXCEPT !.status = "gone"]
NoHandler == [stage |-> "idle", publish |-> FALSE, version |-> 0, questions |-> <<>>,
              reply |-> "none", result |-> 0]
NoAside == [action |-> "none", version |-> 0, reply |-> "none"]
Load == [stage |-> "test", reply |-> "none", result |-> 0, questions |-> <<>>,
         mixed |-> saving.stage # "idle" \/ aside.action = "delete"]

Existing == {v \in Ids : versions[v].status \notin {"none", "gone"}}
Unused == {v \in Ids : versions[v].status = "none"}
Drafts == {v \in Ids : versions[v].status = "draft"}
Latest == IF Existing = {} THEN 0
          ELSE CHOOSE v \in Existing : \A w \in Existing : versions[w].number <= versions[v].number

(* A test with its first draft, or published and not yet worked on again; the
   page is mounted and loads it. *)
Init ==
    /\ \E q \in Pool, status \in {"draft", "published"} :
         versions = [v \in Ids |->
            IF v = 1 THEN [status |-> status, number |-> 1,
                           published_at |-> IF status = "draft" THEN 0 ELSE 1,
                           questions |-> <<q>>]
            ELSE NoVersion]
    /\ inUse = {}
    /\ current = 0
    /\ composition = <<>>
    /\ history = {}
    /\ saving = NoHandler
    /\ aside = NoAside
    /\ loading = {Load}
    /\ waiting = TRUE
    /\ spent = [edits |-> 0, ops |-> 0, renewals |-> 0, failures |-> 0]
    /\ clicked = [v \in Ids |-> <<>>]
    /\ unsaved = FALSE
    /\ mixed = FALSE

(***************************************************************************)
(* The versions on the server                                              *)
(***************************************************************************)

(* Mutant: the rule of the single draft is not kept. *)
CreateAnother(v) ==
    /\ v \in Unused /\ \A w \in Unused : v <= w
    /\ versions' = [versions EXCEPT ![v] =
         [status |-> "draft", published_at |-> 0,
          number |-> IF Latest = 0 THEN 1 ELSE versions[Latest].number + 1,
          questions |-> IF Latest = 0 THEN <<>> ELSE versions[Latest].questions]]

(* create_test_version: the draft there is, or a copy of the latest version. *)
Create(v) ==
    IF Drafts # {} THEN v \in Drafts /\ UNCHANGED versions
    ELSE /\ v \in Unused /\ \A w \in Unused : v <= w
         /\ versions' = [versions EXCEPT ![v] =
              [status |-> "draft", published_at |-> 0,
               number |-> IF Latest = 0 THEN 1 ELSE versions[Latest].number + 1,
               questions |-> IF Latest = 0 THEN <<>> ELSE versions[Latest].questions]]

(* publish_test_version and prune_test_versions: all but the newest published
   versions go, unless they have deliveries. *)
PublishedAfter(v) == {w \in Ids : versions[w].status = "published"} \cup {v}
Pruned(v) ==
    {w \in PublishedAfter(v) \ ({v} \cup inUse) :
        Cardinality({u \in PublishedAfter(v) \ {w} : u = v \/
            versions[u].published_at > versions[w].published_at}) >= KeepPublished}

Publish(v) ==
    versions' = [w \in Ids |->
        IF w = v
        THEN [versions[v] EXCEPT !.status = "published",
                !.published_at = 1 + Max({versions[u].published_at : u \in Ids})]
        ELSE IF w \in Pruned(v) THEN Deleted ELSE versions[w]]

(* Somebody delivers a published version. *)
Deliver(v) ==
    /\ versions[v].status = "published" /\ v \notin inUse
    /\ inUse' = inUse \cup {v}
    /\ UNCHANGED <<versions, builderPage, spent, clicked, unsaved, mixed>>

(***************************************************************************)
(* Saving and publishing                                                   *)
(***************************************************************************)

(* The buttons Save draft and Publish: the handler keeps the version and the
   composition of its render. *)
Click(publish) ==
    /\ ~waiting /\ current # 0 /\ saving.stage = "idle"
    /\ spent.ops < MaxOps
    /\ publish => composition # <<>>
    /\ saving' = [NoHandler EXCEPT !.stage = "save", !.publish = publish,
                                   !.version = current, !.questions = composition]
    /\ spent' = [spent EXCEPT !.ops = @ + 1]
    /\ unsaved' = FALSE
    /\ loading' = {[l EXCEPT !.mixed = TRUE] : l \in loading}
    /\ UNCHANGED <<versions, inUse, current, composition, history, waiting, aside, clicked, mixed>>

SavingReplied(reply, result) ==
    saving' = [saving EXCEPT !.reply = reply, !.result = result]

(* update_test_version refuses what is not a draft. *)
ServeSave ==
    /\ saving.stage = "save" /\ saving.reply = "none"
    /\ IF versions[saving.version].status = "draft"
       THEN /\ versions' = [versions EXCEPT ![saving.version].questions = saving.questions]
            /\ SavingReplied("ok", saving.version)
       ELSE SavingReplied("error", 0) /\ UNCHANGED versions
    /\ UNCHANGED clicked

ServePublish ==
    /\ saving.stage = "publish" /\ saving.reply = "none"
    /\ LET v == saving.version
       IN  IF versions[v].status \in {"published", "gone"}
           THEN /\ SavingReplied(IF versions[v].status = "gone" THEN "error" ELSE "ok", v)
                /\ UNCHANGED <<versions, clicked>>
           ELSE /\ Publish(v) /\ SavingReplied("ok", v)
                /\ clicked' = [clicked EXCEPT ![v] = saving.questions]

ServeDraft ==
    /\ saving.stage = "draft" /\ saving.reply = "none"
    /\ \E v \in Ids : Create(v) /\ SavingReplied("ok", v)
    /\ UNCHANGED clicked

ServeHandler ==
    /\ ServeSave \/ ServePublish \/ ServeDraft
    /\ UNCHANGED <<inUse, current, composition, history, loading, waiting, aside, spent,
                   unsaved, mixed>>

(* Mutant: a failed save does not keep the publication from going on. *)
HandlerGoesOnAnyway ==
    /\ saving.reply # "none"
    /\ CASE saving.stage = "save" /\ saving.publish ->
              saving' = [saving EXCEPT !.stage = "publish", !.reply = "none"]
         [] saving.stage = "publish" /\ saving.reply = "ok" ->
              saving' = [saving EXCEPT !.stage = "draft", !.reply = "none"]
         [] OTHER -> saving' = NoHandler
    /\ current' = IF saving.stage \in {"save", "draft"} /\ saving.reply = "ok"
                THEN saving.result ELSE current
    /\ UNCHANGED <<versions, inUse, composition, history, waiting, loading, aside, spent, clicked,
                   unsaved, mixed>>

(* Mutant: the page stays on the version that it published. *)
HandlerGoesOnOldDraft ==
    /\ saving.reply # "none"
    /\ CASE saving.reply = "ok" /\ saving.stage = "save" /\ saving.publish ->
              saving' = [saving EXCEPT !.stage = "publish", !.reply = "none"]
         [] saving.reply = "ok" /\ saving.stage = "publish" ->
              saving' = [saving EXCEPT !.stage = "draft", !.reply = "none"]
         [] OTHER -> saving' = NoHandler
    /\ UNCHANGED <<versions, inUse, current, composition, history, loading, waiting, aside,
                   spent, clicked, unsaved, mixed>>

(* saveDraft and publish go on with an answer, or end with an error.  The page
   keeps its composition, and at last the new draft's id. *)
HandlerGoesOn ==
    /\ saving.reply # "none"
    /\ CASE saving.reply = "ok" /\ saving.stage = "save" /\ saving.publish ->
              saving' = [saving EXCEPT !.stage = "publish", !.reply = "none"]
         [] saving.reply = "ok" /\ saving.stage = "publish" ->
              saving' = [saving EXCEPT !.stage = "draft", !.reply = "none"]
         [] OTHER -> saving' = NoHandler
    /\ current' = IF saving.stage \in {"save", "draft"} /\ saving.reply = "ok"
                THEN saving.result ELSE current
    /\ UNCHANGED <<versions, inUse, composition, history, waiting, loading, aside, spent, clicked,
                   unsaved, mixed>>

(***************************************************************************)
(* Loading                                                                 *)
(***************************************************************************)

(* A renewed token gives loadTest another identity: its effect loads again. *)
TokenRenewed ==
    /\ spent.renewals < MaxRenewals
    /\ spent' = [spent EXCEPT !.renewals = @ + 1]
    /\ loading' = loading \cup {Load}
    /\ waiting' = TRUE
    /\ UNCHANGED <<versions, inUse, current, composition, history, saving, aside, clicked,
                   unsaved, mixed>>

(* The test with its versions; if none is a draft, a second request creates one. *)
ServeLoad(l) ==
    /\ l.reply = "none"
    /\ \/ /\ l.stage = "test"
          /\ UNCHANGED versions
          /\ loading' = (loading \ {l}) \cup
               {IF Drafts = {} THEN [l EXCEPT !.stage = "draft"]
                ELSE LET v == CHOOSE d \in Drafts : \A e \in Drafts : d <= e
                     IN [l EXCEPT !.reply = "ok", !.result = v,
                                  !.questions = versions[v].questions]}
       \/ /\ l.stage = "draft"
          /\ \E v \in Ids :
               /\ Create(v)
               /\ loading' = (loading \ {l}) \cup
                    {[l EXCEPT !.reply = "ok", !.result = v,
                               !.questions = versions'[v].questions]}
    /\ UNCHANGED <<inUse, current, composition, history, waiting, saving, aside, spent, clicked,
                   unsaved, mixed>>

(* The answer replaces the version and the composition of the page. *)
LoadAnswered(l) ==
    /\ l.reply # "none"
    /\ loading' = loading \ {l}
    /\ waiting' = FALSE
    /\ IF l.reply = "ok"
       THEN /\ current' = l.result
            /\ composition' = l.questions
            /\ unsaved' = FALSE
            /\ mixed' = l.mixed
       ELSE UNCHANGED <<current, composition, unsaved, mixed>>
    /\ UNCHANGED <<versions, inUse, history, saving, aside, spent, clicked>>

(***************************************************************************)
(* The composition                                                         *)
(***************************************************************************)

Edit(questions) ==
    /\ spent.edits < MaxEdits
    /\ composition' = questions
    /\ unsaved' = TRUE
    /\ spent' = [spent EXCEPT !.edits = @ + 1]
    /\ UNCHANGED <<versions, inUse, current, history, waiting, saving, loading, aside, clicked, mixed>>

(* addSingle and addChecked, of questions that are not in the test yet. *)
AddQuestion ==
    \E q \in Pool : q \notin ToSet(composition) /\ Edit(Append(composition, q))

RemoveQuestion == \E i \in DOMAIN composition : Edit(RemoveAt(composition, i))

MoveQuestion ==
    \E i \in 1..(Len(composition) - 1) :
        Edit([composition EXCEPT ![i] = composition[i + 1], ![i + 1] = composition[i]])

Compose == ~waiting /\ current # 0 /\ (AddQuestion \/ RemoveQuestion \/ MoveQuestion)

(***************************************************************************)
(* The history of versions                                                 *)
(***************************************************************************)

(* loadVersionHistory; it follows every action of the sheet. *)
OpenHistory ==
    /\ ~waiting /\ aside = NoAside
    /\ history' = {[id |-> v, status |-> versions[v].status, used |-> v \in inUse] : v \in Existing}
    /\ history' # history
    /\ UNCHANGED <<versions, inUse, current, waiting, composition, saving, loading, aside, spent,
                   clicked, unsaved, mixed>>

(* toggleArchiveVersion and handleDeleteVersion, as a row of the sheet offers. *)
ActOnVersion(row) ==
    /\ ~waiting /\ aside = NoAside /\ current # 0
    /\ spent.ops < MaxOps
    /\ \E action \in {"archive", "restore", "delete"} :
         /\ action = "archive" => row.status = "published"
         /\ action = "restore" => row.status = "archived"
         /\ action = "delete" => row.id # current /\ ~row.used
         /\ aside' = [NoAside EXCEPT !.action = action, !.version = row.id]
         /\ mixed' = (mixed \/ action = "delete")
         /\ loading' = {[l EXCEPT !.mixed = @ \/ action = "delete"] : l \in loading}
    /\ spent' = [spent EXCEPT !.ops = @ + 1]
    /\ UNCHANGED <<versions, inUse, current, composition, history, waiting, saving, clicked,
                   unsaved>>

(* Mutant: the deliveries are not counted again. *)
ServeActionAsShown ==
    /\ aside.action # "none" /\ aside.reply = "none"
    /\ LET v == aside.version
       IN  versions' = CASE aside.action = "archive" /\ versions[v].status = "published" ->
                              [versions EXCEPT ![v].status = "archived"]
                         [] aside.action = "restore" /\ versions[v].status = "archived" ->
                              [versions EXCEPT ![v].status = "published"]
                         [] aside.action = "delete" -> [versions EXCEPT ![v] = Deleted]
                         [] OTHER -> versions
    /\ aside' = [aside EXCEPT !.reply = "answered"]
    /\ UNCHANGED <<inUse, current, composition, history, waiting, saving, loading, spent, clicked,
                   unsaved, mixed>>

(* set_test_version_archived, delete_test_version *)
ServeAction ==
    /\ aside.action # "none" /\ aside.reply = "none"
    /\ LET v == aside.version
       IN  versions' = CASE aside.action = "archive" /\ versions[v].status = "published" ->
                              [versions EXCEPT ![v].status = "archived"]
                         [] aside.action = "restore" /\ versions[v].status = "archived" ->
                              [versions EXCEPT ![v].status = "published"]
                         [] aside.action = "delete" /\ v \notin inUse ->
                              [versions EXCEPT ![v] = Deleted]
                         [] OTHER -> versions
    /\ aside' = [aside EXCEPT !.reply = "answered"]
    /\ UNCHANGED <<inUse, current, composition, history, waiting, saving, loading, spent, clicked,
                   unsaved, mixed>>

ActionDone ==
    /\ aside.reply # "none"
    /\ aside' = NoAside
    /\ history' = {[id |-> v, status |-> versions[v].status, used |-> v \in inUse] : v \in Existing}
    /\ UNCHANGED <<versions, inUse, current, waiting, composition, saving, loading, spent, clicked,
                   unsaved, mixed>>

(* A request of the page fails, or its answer is lost. *)
Fail ==
    /\ spent.failures < MaxFailures
    /\ spent' = [spent EXCEPT !.failures = @ + 1]
    /\ \/ /\ saving.stage # "idle" /\ saving.reply # "error"
          /\ saving' = [saving EXCEPT !.reply = "error"]
          /\ UNCHANGED loading
       \/ /\ UNCHANGED saving
          /\ \E l \in loading : loading' = (loading \ {l}) \cup {[l EXCEPT !.reply = "error"]}
    /\ UNCHANGED <<versions, inUse, current, composition, history, waiting, aside, clicked, unsaved, mixed>>

Next ==
    \/ \E v \in Ids : Deliver(v)
    \/ \E publish \in BOOLEAN : Click(publish)
    \/ ServeHandler \/ HandlerGoesOn
    \/ TokenRenewed
    \/ \E l \in loading : ServeLoad(l) \/ LoadAnswered(l)
    \/ Compose
    \/ OpenHistory
    \/ \E row \in history : ActOnVersion(row)
    \/ ServeAction \/ ActionDone \/ Fail

Spec == Init /\ [][Next]_builderVars

(***************************************************************************)
(* Properties                                                              *)
(***************************************************************************)

(* The types of the variables. *)
TypeOK ==
    /\ \A v \in Ids : /\ versions[v].status \in {"none", "draft", "published", "archived", "gone"}
                      /\ ToSet(versions[v].questions) \subseteq Pool
    /\ inUse \subseteq Ids
    /\ current \in 0..MaxVersions
    /\ IsInjective(composition) /\ ToSet(composition) \subseteq Pool
    /\ saving.stage \in {"idle", "save", "publish", "draft"}
    /\ {unsaved, mixed} \subseteq BOOLEAN

(* The single-draft rule: whichever loads and publications ask for the next
   draft, there is one. *)
OneDraft == Cardinality(Drafts) <= 1

(* What a publication publishes is the composition that was on the page when
   Publish was clicked, whatever is edited, loaded, lost or retried meanwhile. *)
PublishedAsClicked ==
    \A v \in Ids : versions[v].status = "published" /\ clicked[v] # <<>> =>
        versions[v].questions = clicked[v]

(* A version with deliveries stays, although the sheet may show it without and
   publications prune old versions. *)
DeliveredStays == \A v \in inUse : v \in Existing

(* When nothing is under way and nothing failed, the page works on the draft, and
   what has not been edited since the last click is what the draft holds,
   provided that the load it last took did not overlap a save and that no version
   was deleted since: the new draft goes on where the published one was. *)
QuietPageIsDraft ==
    /\ saving = NoHandler /\ loading = {} /\ aside = NoAside
    /\ spent.failures = 0 /\ ~mixed /\ current \in Existing
    => /\ versions[current].status = "draft"
       /\ ~unsaved => versions[current].questions = composition

=============================================================================

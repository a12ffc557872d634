---------------------------- MODULE TenantSettings ----------------------------
(***************************************************************************)
(* The settings of a tenant: the page src/frontend/app/(app)/settings,     *)
(* the lists of labels that it shares with the pages of tracks             *)
(* (lib/track-purpose.ts, track-type.ts and track-role-target.ts, with     *)
(* their module-level caches and local storage), and the endpoints of      *)
(* settings, each of which reads one JSON document and writes it whole.    *)
(* One list of labels is modelled, of the kind that is chosen at first.    *)
(***************************************************************************)
EXTENDS Integers, Sequences, FiniteSets, FiniteSetsExt, SequencesExt

CONSTANTS
    Values,       \* values of the items of a list
    Labels,       \* their labels
    Default,      \* DEFAULT_ITEMS
    Addresses,    \* escalation addresses, with the page's own and "" for none
    OwnAddress,   \* what the form has before it is loaded
    MaxGestures,  \* bound: gestures
    MaxRequests,  \* bound: requests at a time
    MaxLost       \* bound: requests that fail

SettingsAssumption ==
    /\ Default # << >> /\ OwnAddress \in Addresses /\ "" \in Addresses
    /\ {MaxGestures, MaxRequests, MaxLost} \subseteq Nat

VARIABLES
    kind,       \* which list of labels: "purpose" or "type"
    stored,     \* settings_json: its labels, its address, whether it has a token
    items,      \* items of the mounted hook
    cached,     \* the labels cached for the access token, << >> for none
    local,      \* what local storage has
    form,       \* the address in the form, and whether it was loaded
    pat,        \* woGitPatMode, woGitPatConfigured, and whether there is input
    saving,     \* saving
    requests,   \* requests that were not answered
    saved,      \* history: the address of the last save that succeeded, or "none"
    mixed,      \* history: a write overlapped another request, or failed
    tally       \* gestures and losses so far

settingsVars == <<kind, stored, items, cached, local, form, pat, saving, requests, saved,
                  mixed, tally>>
labelVars == <<items, cached, local>>

Item(v, l) == [value |-> v, label |-> l]
ValuesOf(list) == {list[i].value : i \in DOMAIN list}
Writes == {"labels", "save", "token", "untoken"}

Nothing == [labels |-> << >>, address |-> "", token |-> FALSE]
Free == Min((1..(MaxRequests + 1)) \ {q.id : q \in requests})

(* A request: live while the effect or the page that waits for it is mounted *)
Request(op, list, address) ==
    [op |-> op, list |-> list, address |-> address, live |-> TRUE, step |-> "sent",
     seen |-> Nothing, id |-> Free]

Overlaps(op) == \E q \in requests : op \in Writes \/ q.op \in Writes

Send(op, list, address) ==
    /\ Cardinality(requests) < MaxRequests
    /\ requests' = requests \cup {Request(op, list, address)}
    /\ mixed' = (mixed \/ Overlaps(op))

Fetch(live, ops) ==
    LET id(o) == IF o = "load" THEN Free ELSE Min((1..(MaxRequests + 1))
                                                  \ ({Free} \cup {q.id : q \in requests}))
        new == {[Request(o, << >>, "") EXCEPT !.id = id(o)] : o \in ops}
    IN  /\ requests' = live \cup new
        /\ mixed' = (mixed \/ (new # {} /\ \E q \in requests : q.op \in Writes))

Init ==
    /\ kind \in {"purpose", "type"}
    /\ stored \in [labels : {Default}, address : Addresses \ {"", OwnAddress}, token : BOOLEAN]
    /\ items = Default /\ cached = << >> /\ local = Default
    /\ form = [address |-> OwnAddress, loaded |-> FALSE]
    /\ pat = [mode |-> "idle", configured |-> FALSE, input |-> FALSE]
    /\ saving = FALSE
    /\ requests = {[op |-> o, list |-> << >>, address |-> "", live |-> TRUE, step |-> "sent",
                    seen |-> Nothing, id |-> IF o = "load" THEN 1 ELSE 2] : o \in {"fetch", "load"}}
    /\ saved = "none"
    /\ mixed = FALSE
    /\ tally = [gestures |-> 0, lost |-> 0]

(***************************************************************************)
(* The server                                                              *)
(***************************************************************************)

(* get_settings, and what the other endpoints start with: the document is read. *)
ServeRead(q) ==
    /\ q.step = "sent"
    /\ LET next == IF q.op \in Writes THEN "read" ELSE "done"
       IN  requests' = (requests \ {q}) \cup {[q EXCEPT !.step = next, !.seen = stored]}
    /\ UNCHANGED <<kind, stored, labelVars, form, pat, saving, saved, mixed, tally>>

(* Mutant: the part for GitHub is stored as it came, without the token. *)
WrittenWithoutToken(q) ==
    CASE q.op = "labels" -> IF kind = "purpose" THEN [q.seen EXCEPT !.labels = q.list] ELSE q.seen
      [] q.op = "save" -> [(IF q.address = "" THEN q.seen ELSE [q.seen EXCEPT !.address = q.address])
                           EXCEPT !.token = FALSE]
      [] q.op = "token" -> [q.seen EXCEPT !.token = TRUE]
      [] q.op = "untoken" -> [q.seen EXCEPT !.token = FALSE]

(* update_settings, set_github_pat, delete_github_pat: the document that was read, with
   what came.  It has a field for purposes only, what is None changes nothing, and the
   token is kept. *)
Written(q) ==
    CASE q.op = "labels" -> IF kind = "purpose" THEN [q.seen EXCEPT !.labels = q.list] ELSE q.seen
      [] q.op = "save" -> IF q.address = "" THEN q.seen ELSE [q.seen EXCEPT !.address = q.address]
      [] q.op = "token" -> [q.seen EXCEPT !.token = TRUE]
      [] q.op = "untoken" -> [q.seen EXCEPT !.token = FALSE]

ServeWrite(q) ==
    /\ q.step = "read"
    /\ stored' = Written(q)
    /\ requests' = (requests \ {q}) \cup {[q EXCEPT !.step = "done", !.seen = Nothing]}
    /\ UNCHANGED <<kind, labelVars, form, pat, saving, saved, mixed, tally>>

(* The request or its answer is lost, whatever the server has done. *)
Lose(q) ==
    /\ q.step # "failed" /\ tally.lost < MaxLost
    /\ tally' = [tally EXCEPT !.lost = @ + 1]
    /\ requests' = (requests \ {q}) \cup {[q EXCEPT !.step = "failed", !.seen = Nothing]}
    /\ mixed' = (mixed \/ q.op \in Writes)
    /\ UNCHANGED <<kind, stored, labelVars, form, pat, saving, saved>>

(***************************************************************************)
(* Lists of labels                                                         *)
(***************************************************************************)

Gesture == /\ tally.gestures < MaxGestures
           /\ tally' = [tally EXCEPT !.gestures = @ + 1]
PageOnly == UNCHANGED <<form, pat, saving, saved>>

(* Mutant: the cache is left as it was. *)
UpdateItemsOnly(next) ==
    /\ Gesture
    /\ items' = next /\ local' = next /\ cached' = cached
    /\ Send("labels", next, "")
    /\ UNCHANGED <<kind, stored>> /\ PageOnly

(* updateItems: what is shown, local storage and the cache; the list is sent, and
   nobody waits for the answer. *)
UpdateItems(next) ==
    /\ Gesture
    /\ items' = next /\ local' = next /\ cached' = next
    /\ Send("labels", next, "")
    /\ UNCHANGED <<kind, stored>> /\ PageOnly

(* addPurpose, addType: a value that no item has *)
Add(v, l) == v \notin ValuesOf(items) /\ UpdateItems(Append(items, Item(v, l)))

(* removePurpose, removeType: one item stays. *)
RemoveItem(i) == Len(items) > 1 /\ UpdateItems(RemoveAt(items, i))

(* updateLabel *)
UpdateLabel(i, l) == items[i].label # l /\ UpdateItems([items EXCEPT ![i].label = l])

(* Mutant: a value that another item has is taken. *)
UpdateValueAnyway(i, v) ==
    items[i].value # v /\ UpdateItems([items EXCEPT ![i].value = v])

(* updateValue: one that no other item has *)
UpdateValue(i, v) ==
    v \notin ValuesOf(items) /\ UpdateItems([items EXCEPT ![i].value = v])

ResetItems == UpdateItems(Default)

(* The labels are fetched; the list that comes takes the place of what was edited. *)
Fetched(q) ==
    LET remote == IF kind = "purpose" THEN q.seen.labels ELSE << >>
    IN  /\ q.op = "fetch" /\ q.step \in {"done", "failed"}
        /\ IF q.live /\ q.step = "done" /\ remote # << >>
           THEN items' = remote /\ local' = remote /\ cached' = remote
           ELSE UNCHANGED labelVars
        /\ requests' = requests \ {q}
        /\ UNCHANGED <<kind, stored, mixed, tally>> /\ PageOnly

(***************************************************************************)
(* The form and the token                                                  *)
(***************************************************************************)

Loaded(q) ==
    /\ q.op = "load" /\ q.step \in {"done", "failed"}
    /\ IF q.live /\ q.step = "done"
       THEN /\ form' = [address |-> q.seen.address, loaded |-> TRUE]
            /\ pat' = [pat EXCEPT !.configured = q.seen.token]
            /\ saved' = "none"
       ELSE UNCHANGED <<form, pat, saved>>
    /\ requests' = requests \ {q}
    /\ UNCHANGED <<kind, stored, labelVars, saving, mixed, tally>>

Type(a) ==
    /\ Gesture /\ a # form.address
    /\ form' = [form EXCEPT !.address = a]
    /\ saved' = "none"
    /\ UNCHANGED <<kind, stored, labelVars, pat, saving, requests, mixed>>

(* saveSettings: nothing asks whether the form was loaded. *)
SaveSettings ==
    /\ Gesture /\ ~saving
    /\ Send("save", << >>, form.address)
    /\ saving' = TRUE
    /\ UNCHANGED <<kind, stored, labelVars, form, pat, saved>>

Saved(q) ==
    /\ q.op = "save" /\ q.step \in {"done", "failed"}
    /\ requests' = requests \ {q}
    /\ saving' = (saving /\ ~q.live)
    /\ saved' = IF q.live /\ q.step = "done" /\ q.address = form.address THEN q.address ELSE saved
    /\ UNCHANGED <<kind, stored, labelVars, form, pat, mixed, tally>>

PatOnly == UNCHANGED <<kind, stored, labelVars, form, saving, saved>>
Asked == ~(pat.configured /\ pat.mode \notin {"entering", "saving"})

TypeToken ==
    /\ Gesture /\ Asked
    /\ pat' = [pat EXCEPT !.input = TRUE, !.mode = "entering"]
    /\ UNCHANGED <<requests, mixed>> /\ PatOnly

Replace ==
    /\ Gesture /\ ~Asked
    /\ pat' = [pat EXCEPT !.mode = "entering"]
    /\ UNCHANGED <<requests, mixed>> /\ PatOnly

Cancel ==
    /\ Gesture /\ Asked /\ pat.configured
    /\ pat' = [pat EXCEPT !.mode = "idle", !.input = FALSE]
    /\ UNCHANGED <<requests, mixed>> /\ PatOnly

(* savePat, removePat *)
SavePat ==
    /\ Gesture /\ Asked /\ pat.input /\ pat.mode # "saving"
    /\ Send("token", << >>, "")
    /\ pat' = [pat EXCEPT !.mode = "saving"]
    /\ PatOnly

RemovePat ==
    /\ Gesture /\ ~Asked /\ pat.mode # "removing"
    /\ Send("untoken", << >>, "")
    /\ pat' = [pat EXCEPT !.mode = "removing"]
    /\ PatOnly

PatAnswered(q) ==
    /\ q.op \in {"token", "untoken"} /\ q.step \in {"done", "failed"}
    /\ requests' = requests \ {q}
    /\ pat' = IF ~q.live THEN pat
              ELSE IF q.step = "done"
              THEN [mode |-> "idle", input |-> q.op # "token" /\ pat.input,
                    configured |-> q.op = "token"]
              ELSE [pat EXCEPT !.mode = IF q.op = "token" THEN "entering" ELSE "idle"]
    /\ UNCHANGED mixed /\ UNCHANGED tally /\ PatOnly

(* Nobody waits for the answer of a list that was sent. *)
LabelsAnswered(q) ==
    /\ q.op = "labels" /\ q.step \in {"done", "failed"}
    /\ requests' = requests \ {q}
    /\ UNCHANGED <<kind, stored, labelVars, mixed, tally>> /\ PageOnly

(***************************************************************************)
(* Mounting                                                                *)
(***************************************************************************)

Cut(ops) == {IF q.op \in ops THEN [q EXCEPT !.live = FALSE] ELSE q : q \in requests}

(* The access token is renewed: both effects run again, the labels under another key. *)
Renew ==
    /\ Gesture /\ Cardinality(requests) + 1 < MaxRequests
    /\ cached' = << >>
    /\ Fetch(Cut({"fetch", "load"}), {"fetch", "load"})
    /\ UNCHANGED <<kind, stored, items, local>> /\ PageOnly

(* The page is left and opened again: the cache counts before local storage, and a
   fetch that is under way is joined. *)
Return ==
    /\ Gesture /\ Cardinality(requests) + 1 < MaxRequests
    /\ items' = IF cached # << >> THEN cached ELSE local
    /\ LET under == \E q \in requests : q.op = "fetch" /\ q.live
       IN  Fetch(Cut(Writes \cup {"load"}),
                 {"load"} \cup IF cached # << >> \/ under THEN {} ELSE {"fetch"})
    /\ form' = [address |-> OwnAddress, loaded |-> FALSE]
    /\ pat' = [mode |-> "idle", configured |-> FALSE, input |-> FALSE]
    /\ saving' = FALSE /\ saved' = "none"
    /\ UNCHANGED <<kind, stored, cached, local>>

Edits ==
    \/ \E v \in Values, l \in Labels : Add(v, l)
    \/ \E i \in DOMAIN items : RemoveItem(i) \/ (\E l \in Labels : UpdateLabel(i, l))
                                         \/ (\E v \in Values : UpdateValue(i, v))
    \/ ResetItems

Next ==
    \/ Edits
    \/ \E q \in requests : \/ ServeRead(q) \/ ServeWrite(q) \/ Lose(q)
                           \/ Fetched(q) \/ Loaded(q) \/ Saved(q) \/ PatAnswered(q)
                           \/ LabelsAnswered(q)
    \/ \E a \in Addresses : Type(a)
    \/ SaveSettings \/ TypeToken \/ Replace \/ Cancel \/ SavePat \/ RemovePat
    \/ Renew \/ Return

Spec == Init /\ [][Next]_settingsVars

(***************************************************************************)
(* Properties                                                              *)
(***************************************************************************)

Lists == BoundedSeq([value : Values, label : Labels], Cardinality(Values))

(* The types of the variables. *)
TypeOK ==
    /\ kind \in {"purpose", "type"}
    /\ stored.labels \in Lists /\ stored.address \in Addresses \ {""} /\ stored.token \in BOOLEAN
    /\ {items, cached, local} \subseteq Lists /\ items # << >> /\ local # << >>
    /\ form.address \in Addresses /\ {form.loaded, saving, mixed} \subseteq BOOLEAN
    /\ pat.mode \in {"idle", "entering", "saving", "removing"}
    /\ \A q \in requests : q.step \in {"sent", "read", "done", "failed"}
    /\ saved \in Addresses \cup {"none"}

(* The items of a list have different values, wherever the list is. *)
ValuesAreUnique ==
    \A list \in {stored.labels, items, cached, local} : Cardinality(ValuesOf(list)) = Len(list)

Quiet == requests = {} /\ ~mixed

(* Once nothing is under way, the page shows the purposes that the server has, also after
   it was left and opened again: no cache brings an older list back.  The token is shown
   as configured when there is one. *)
QuietSettingsAgree ==
    Quiet /\ form.loaded =>
        /\ kind = "purpose" => items = stored.labels
        /\ pat.configured = stored.token

(* An address that was saved is the one that is stored, unless it was emptied. *)
SavedIsStored == Quiet /\ saved \notin {"none", ""} => stored.address = saved

(* "so the new list is visible immediately and survives page navigation / refresh": the
   server has the list of types that the page shows. *)
TypesAreStored == Quiet /\ kind = "type" => items = stored.labels

=============================================================================

----------------------------- MODULE PasswordLinks -----------------------------
(***************************************************************************)
(* The links by which a user sets a password: those of an invitation, of   *)
(* an administrator's reset and of the page for a forgotten password, the  *)
(* pages they lead to (set-password/page.tsx and reset-password/page.tsx   *)
(* under src/frontend/app, the same form twice) and what the server makes  *)
(* of them (auth_service.py, endpoints/auth.py).  There is one user.       *)
(***************************************************************************)
EXTENDS Integers, Sequences

CONSTANTS
    Tabs,       \* tabs in which a link may be opened
    Passwords,  \* passwords that may be typed
    NoPassword, \* that of a user who was invited and set none; not typed
    MaxLinks,   \* bound: links
    MaxForms,   \* bound: forms submitted
    MaxLost     \* bound: requests that fail

LinksAssumption ==
    /\ NoPassword \notin Passwords
    /\ {MaxLinks, MaxForms, MaxLost} \subseteq Nat

VARIABLES
    account,   \* hashed_password of the user
    links,     \* password_set_tokens: purpose, whether used_at is set and expires_at past;
               \* history: passwords set, and whether two requests found it unused at a time
    tabs,      \* link that a tab shows, the password typed, and what became of the form
    submitted, \* forms submitted so far
    lost       \* requests that failed so far

linkVars == <<account, links, tabs, submitted, lost>>

Init ==
    /\ account = NoPassword
    /\ links = <<[purpose |-> "invitation", used |-> FALSE, expired |-> FALSE,
                  sets |-> 0, met |-> FALSE]>>
    /\ tabs = [t \in Tabs |-> [link |-> 0, password |-> NoPassword, form |-> "none"]]
    /\ submitted = 0 /\ lost = 0

(* password_reset_request of the page for a forgotten password, which says the same
   whatever came of it; reset_user_password, of the administrator *)
AskForLink ==
    /\ Len(links) < MaxLinks
    /\ links' = Append(links, [purpose |-> "password_reset", used |-> FALSE, expired |-> FALSE,
                               sets |-> 0, met |-> FALSE])
    /\ UNCHANGED <<account, tabs, submitted, lost>>

(* A link is opened in a tab that shows none, or is done with one. *)
OpenLink(t, l) ==
    /\ tabs[t].form \in {"none", "success"}
    /\ tabs' = [tabs EXCEPT ![t] = [link |-> l, password |-> NoPassword, form |-> "shown"]]
    /\ UNCHANGED <<account, links, submitted, lost>>

(* onSubmit; the form is disabled while it is submitted. *)
Submit(t, password) ==
    /\ tabs[t].form = "shown" /\ submitted < MaxForms
    /\ tabs' = [tabs EXCEPT ![t].password = password, ![t].form = "sent"]
    /\ submitted' = submitted + 1
    /\ UNCHANGED <<account, links, lost>>

FoundBy(l) == {t \in Tabs : tabs[t].link = l /\ tabs[t].form = "found"}

(* Mutant: a link that was used is found. *)
CheckExpiryOnly(t) ==
    LET l == tabs[t].link
        unused == ~links[l].expired
    IN  /\ tabs[t].form = "sent"
        /\ tabs' = [tabs EXCEPT ![t].form = IF unused THEN "found" ELSE "refused"]
        /\ links' = [links EXCEPT ![l].met = @ \/ (unused /\ FoundBy(l) # {})]
        /\ UNCHANGED <<account, submitted, lost>>

(* consume_password_set_token reads the token: it must not be used, nor expired. *)
CheckToken(t) ==
    LET l == tabs[t].link
        unused == ~links[l].used /\ ~links[l].expired
    IN  /\ tabs[t].form = "sent"
        /\ tabs' = [tabs EXCEPT ![t].form = IF unused THEN "found" ELSE "refused"]
        /\ links' = [links EXCEPT ![l].met = @ \/ (unused /\ FoundBy(l) # {})]
        /\ UNCHANGED <<account, submitted, lost>>

(* It sets the password and used_at, whatever became of the token since. *)
SetPassword(t) ==
    /\ tabs[t].form = "found"
    /\ account' = tabs[t].password
    /\ links' = [links EXCEPT ![tabs[t].link].used = TRUE, ![tabs[t].link].sets = @ + 1]
    /\ tabs' = [tabs EXCEPT ![t].form = "set"]
    /\ UNCHANGED <<submitted, lost>>

(* The answer: done, and on to the login; or an error above the form *)
Answer(t) ==
    /\ tabs[t].form \in {"set", "refused"}
    /\ tabs' = [tabs EXCEPT ![t].form = IF @ = "set" THEN "success" ELSE "shown"]
    /\ UNCHANGED <<account, links, submitted, lost>>

(* A request, or its answer, is lost. *)
Lose(t) ==
    /\ tabs[t].form \in {"sent", "found", "set"} /\ lost < MaxLost
    /\ lost' = lost + 1
    /\ tabs' = [tabs EXCEPT ![t].form = "shown"]
    /\ UNCHANGED <<account, links, submitted>>

(* The 72 hours of an invitation pass, or the 24 of a reset. *)
Expire(l) ==
    /\ ~links[l].expired
    /\ links' = [links EXCEPT ![l].expired = TRUE]
    /\ UNCHANGED <<account, tabs, submitted, lost>>

(* change_password, by the user, who knows the password there is *)
ChangePassword(password) ==
    /\ account \notin {NoPassword, password} /\ submitted < MaxForms
    /\ account' = password
    /\ submitted' = submitted + 1
    /\ UNCHANGED <<links, tabs, lost>>

Next ==
    \/ AskForLink
    \/ \E t \in Tabs, l \in DOMAIN links : OpenLink(t, l)
    \/ \E t \in Tabs, password \in Passwords : Submit(t, password)
    \/ \E t \in Tabs : CheckToken(t) \/ SetPassword(t) \/ Answer(t) \/ Lose(t)
    \/ \E l \in DOMAIN links : Expire(l)
    \/ \E password \in Passwords : ChangePassword(password)

Spec == Init /\ [][Next]_linkVars

(***************************************************************************)
(* Properties                                                              *)
(***************************************************************************)

(* The types of the variables. *)
TypeOK ==
    /\ account \in Passwords \cup {NoPassword}
    /\ \A l \in DOMAIN links : links[l].sets \in 0..MaxForms
    /\ \A t \in Tabs : /\ tabs[t].link \in 0..Len(links)
                       /\ tabs[t].form \in {"none", "shown", "sent", "found", "refused",
                                            "set", "success"}

(* models/token.py: "Single-use token for setting / resetting a password via email link." *)
LinksAreSingleUse == \A l \in DOMAIN links : links[l].sets <= 1

(* A link sets a second password only if one request found it unused before another one,
   that had found it so, had marked it: however often the form is sent, whatever answers
   were lost, and whichever other links there are. *)
LinksAreUsedUp == \A l \in DOMAIN links : links[l].sets <= 1 \/ links[l].met

===============================================================================

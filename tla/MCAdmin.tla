------------------------------- MODULE MCAdmin -------------------------------
(* The settings, the consoles of the administrators, the compliance pages, the          *)
(* connections, Stripe's webhooks and the password links for TLC, each part on a small instance.  They run   *)
(* side by side in one exploration: a behaviour is about one part, whose variables     *)
(* take the first slots, and no part shares state with another here.                   *)
EXTENDS Integers, Sequences, FiniteSets, TLC

VARIABLES
    open,  \* the part that a behaviour is about; its variables:
   p1, p2, p3, p4, p5, p6, p7, p8, p9, p10, p11, p12, p13, p14

slots == <<open, p1, p2, p3, p4, p5, p6, p7, p8, p9, p10, p11, p12, p13, p14>>

\* The slots that a part with so many variables does not use.
Rest13 == <<p14>>
Rest12 == <<p13, Rest13>>
Rest10 == <<p11, p12, Rest12>>
Rest8 == <<p9, p10, Rest10>>
Rest6 == <<p7, p8, Rest8>>
Rest5 == <<p6, Rest6>>
Off13 == p14 = "off"
Off12 == p13 = "off" /\ Off13
Off10 == p11 = "off" /\ p12 = "off" /\ Off12
Off8 == p9 = "off" /\ p10 = "off" /\ Off10
Off6 == p7 = "off" /\ p8 = "off" /\ Off8
Off5 == p6 = "off" /\ Off6

OneMember ==
    {[who |-> 1, tenant |-> "x", name |-> "a", roles |-> {"user"}, status |-> "active"]}
AllActive    == [disabled |-> FALSE, role |-> ""]
AlsoDisabled == [disabled |-> TRUE, role |-> "r"]

Settings == INSTANCE TenantSettings WITH Values <- {"a", "b"}, Labels <- {"x"},
    Default <- <<[value |-> "a", label |-> "x"]>>, Addresses <- {"own", "other", ""},
    OwnAddress <- "own", MaxGestures <- 2, MaxRequests <- 3, MaxLost <- 1, kind <- p1,
    stored <- p2, items <- p3, cached <- p4, local <- p5, form <- p6, pat <- p7,
    saving <- p8, requests <- p9, saved <- p10, mixed <- p11, tally <- p12

Console == INSTANCE AdminConsole WITH Tenants <- {"x", "y", "z"}, Existing <- {"x", "y"},
    Modules <- {"m"}, Defaults <- [none |-> [m |-> "none"], pro |-> [m |-> "on"]],
    PlanOf <- [x |-> "pro", y |-> "none"], Members <- OneMember, Newcomers <- {3},
    Names <- {"a"}, Roles <- {"user", "admin"}, MaxGestures <- 3, MaxRequests <- 2,
    MaxLost <- 1, tenants <- p1, rows <- p2, members <- p3, listed <- p4, selected <- p5,
    modules <- p6, kept <- p7, people <- p8, editing <- p9, picked <- p10, requests <- p11,
    doubt <- p12, mixed <- p13, tally <- p14

\* More gestures, or fewer and a request that is lost.
Plans == INSTANCE PlanTemplates WITH PlanKeys <- {"p", "q", "r"}, FirstPlans <- {"p", "q"},
    Texts <- {"x"}, MaxGestures <- 3, MaxRequests <- 2, MaxLost <- 0, plans <- p1,
    prices <- p2, subscriptions <- p3, shown <- p4, editor <- p5, requests <- p6,
    mixed <- p7, tally <- p8

Losing == INSTANCE PlanTemplates WITH PlanKeys <- {"p", "q", "r"}, FirstPlans <- {"p", "q"},
    Texts <- {"x"}, MaxGestures <- 2, MaxRequests <- 2, MaxLost <- 1, plans <- p1,
    prices <- p2, subscriptions <- p3, shown <- p4, editor <- p5, requests <- p6,
    mixed <- p7, tally <- p8

\* More gestures, or fewer and a request that is lost.
Hub == INSTANCE CompliancePractices WITH Practices <- {1, 2, 3}, FirstPractices <- {1, 2},
    Texts <- {"a", "b"}, FirstText <- "a", FirstMatches <- {1}, Filters <- {{1, 2, 3}, {1}},
    MaxGestures <- 5, MaxRequests <- 2, MaxLost <- 0, practices <- p1, matches <- p2,
    evidence <- p3, list <- p4, drawer <- p5, requests <- p6, mixed <- p7, tally <- p8

Drawers == INSTANCE CompliancePractices WITH Practices <- {1, 2, 3},
    FirstPractices <- {1, 2}, Texts <- {"a", "b"}, FirstText <- "a", FirstMatches <- {1},
    Filters <- {{1, 2, 3}, {1}}, MaxGestures <- 4, MaxRequests <- 2, MaxLost <- 1,
    practices <- p1, matches <- p2, evidence <- p3, list <- p4, drawer <- p5,
    requests <- p6, mixed <- p7, tally <- p8

Profile == INSTANCE ComplianceProfile WITH Frameworks <- {"f", "g"},
    FirstFrameworks <- {"f"}, References <- {"r", "s"}, MaxGestures <- 3, MaxRequests <- 3,
    MaxLost <- 1, frameworks <- p1, refs <- p2, runs <- p3, wanted <- p4, page <- p5,
    requests <- p6, mixed <- p7, tally <- p8

\* More gestures, or fewer and a request that is lost.
Directory == INSTANCE UsersPage WITH Users <- {1, 2}, FirstMembers <- {1, 2},
    Roles <- {"r", "s"}, FirstRole <- "r", Filters <- {AllActive, AlsoDisabled},
    FirstFilter <- AllActive, MaxGestures <- 3, MaxRequests <- 2, MaxLost <- 0,
    members <- p1, list <- p2, row <- p3, edited <- p4, activity <- p5, reset <- p6,
    requests <- p7, doubt <- p8, past <- p9, tally <- p10

Roster == INSTANCE UsersPage WITH Users <- {1, 2}, FirstMembers <- {1, 2},
    Roles <- {"r", "s"}, FirstRole <- "r", Filters <- {AllActive, AlsoDisabled},
    FirstFilter <- AllActive, MaxGestures <- 2, MaxRequests <- 2, MaxLost <- 1,
    members <- p1, list <- p2, row <- p3, edited <- p4, activity <- p5, reset <- p6,
    requests <- p7, doubt <- p8, past <- p9, tally <- p10

Webhooks == INSTANCE StripeWebhooks WITH Prices <- {"p", "q"}, NewPrice <- "?",
    MaxChanges <- 1, MaxLost <- 1, objects <- p1, unanswered <- p2, processed <- p3,
    rows <- p4, late <- p5, lost <- p6

Links == INSTANCE PasswordLinks WITH Tabs <- {1, 2}, Passwords <- {"a", "b"},
    NoPassword <- "", MaxLinks <- 2, MaxForms <- 3, MaxLost <- 1, account <- p1,
    links <- p2, tabs <- p3, submitted <- p4, lost <- p5

\* More gestures, or fewer and a request that is lost.
Registry == INSTANCE ConnectionsPage WITH Conns <- {1, 2}, FirstConns <- {1},
    Texts <- {"b"}, FirstText <- "a", Layouts <- {"standard", "other"}, MaxGestures <- 3,
    MaxRequests <- 2, MaxOthers <- 1, MaxLost <- 0, key <- p1, rows <- p2, prefs <- p3,
    page <- p4, list <- p5, drawer <- p6, fresh <- p7, columns <- p8, settings <- p9,
    requests <- p10, stale <- p11, erased <- p12, tally <- p13

Connections == INSTANCE ConnectionsPage WITH Conns <- {1, 2}, FirstConns <- {1},
    Texts <- {"b"}, FirstText <- "a", Layouts <- {"standard", "other"}, MaxGestures <- 2,
    MaxRequests <- 2, MaxOthers <- 1, MaxLost <- 1, key <- p1, rows <- p2, prefs <- p3,
    page <- p4, list <- p5, drawer <- p6, fresh <- p7, columns <- p8, settings <- p9,
    requests <- p10, stale <- p11, erased <- p12, tally <- p13

ASSUME Settings!SettingsAssumption
ASSUME Console!AdminAssumption
ASSUME Plans!PlanAssumption
ASSUME Hub!PracticeAssumption
ASSUME Profile!ProfileAssumption
ASSUME Directory!UsersAssumption
ASSUME Webhooks!WebhookAssumption
ASSUME Links!LinksAssumption
ASSUME Registry!ConnectionsAssumption

Init ==
    \/ open = "settings" /\ Settings!Init /\ Off12
    \/ open = "console" /\ Console!Init
    \/ open = "plans" /\ Plans!Init /\ Off8
    \/ open = "losing" /\ Losing!Init /\ Off8
    \/ open = "practices" /\ Hub!Init /\ Off8
    \/ open = "drawers" /\ Drawers!Init /\ Off8
    \/ open = "profile" /\ Profile!Init /\ Off8
    \/ open = "users" /\ Directory!Init /\ Off10
    \/ open = "members" /\ Roster!Init /\ Off10
    \/ open = "webhooks" /\ Webhooks!Init /\ Off6
    \/ open = "links" /\ Links!Init /\ Off5
    \/ open = "registry" /\ Registry!Init /\ Off13
    \/ open = "connections" /\ Connections!Init /\ Off13

Next ==
    \/ open = "settings" /\ Settings!Next /\ UNCHANGED <<open, Rest12>>
    \/ open = "console" /\ Console!Next /\ UNCHANGED open
    \/ open = "plans" /\ Plans!Next /\ UNCHANGED <<open, Rest8>>
    \/ open = "losing" /\ Losing!Next /\ UNCHANGED <<open, Rest8>>
    \/ open = "practices" /\ Hub!Next /\ UNCHANGED <<open, Rest8>>
    \/ open = "drawers" /\ Drawers!Next /\ UNCHANGED <<open, Rest8>>
    \/ open = "profile" /\ Profile!Next /\ UNCHANGED <<open, Rest8>>
    \/ open = "users" /\ Directory!Next /\ UNCHANGED <<open, Rest10>>
    \/ open = "members" /\ Roster!Next /\ UNCHANGED <<open, Rest10>>
    \/ open = "webhooks" /\ Webhooks!Next /\ UNCHANGED <<open, Rest6>>
    \/ open = "links" /\ Links!Next /\ UNCHANGED <<open, Rest5>>
    \/ open = "registry" /\ Registry!Next /\ UNCHANGED <<open, Rest13>>
    \/ open = "connections" /\ Connections!Next /\ UNCHANGED <<open, Rest13>>

Spec == Init /\ [][Next]_slots

(* The records each part keeps, and their types, whatever requests overlap: unique values
   of a list, modules set for the tenant they were shown for, plans in use, evidence under
   the practice it is about, requirements removed only as a mark, events of Stripe stored, links used up,
   endpoints of connections that nobody removed. *)
RecordsAreKept ==
    /\ open = "settings" => /\ Settings!TypeOK
                            /\ Settings!ValuesAreUnique
                            /\ Settings!SavedIsStored
    /\ open = "console" => Console!TypeOK /\ Console!ModulesGoToTheirTenant
    /\ open = "plans" => Plans!TypeOK /\ Plans!PlansInUseStay
    /\ open = "losing" => Losing!TypeOK /\ Losing!PlansInUseStay
    /\ open = "practices" => Hub!TypeOK /\ Hub!EvidenceIsOfItsPractice
    /\ open = "drawers" => Drawers!TypeOK /\ Drawers!EvidenceIsOfItsPractice
    /\ open = "profile" => Profile!TypeOK /\ Profile!FlagsAreDeletions
    /\ open = "users" => /\ Directory!TypeOK
                         /\ Directory!EditsAreKept
                         /\ Directory!ActivityIsOfItsUser
    /\ open = "members" => /\ Roster!TypeOK
                           /\ Roster!EditsAreKept
                           /\ Roster!ActivityIsOfItsUser
    /\ open = "webhooks" => Webhooks!TypeOK /\ Webhooks!DeliveredIsStored
    /\ open = "links" => Links!TypeOK /\ Links!LinksAreUsedUp
    /\ open = "registry" => Registry!TypeOK /\ Registry!NothingErased
    /\ open = "connections" => Connections!TypeOK /\ Connections!NothingErased

(* A page at rest shows what the server has, unless requests of it met, or one failed;
   and the server has what Stripe has once it was told, in order. *)
QuietPagesAreCurrent ==
    /\ open = "settings" => Settings!QuietSettingsAgree
    /\ open = "console" => Console!QuietConsoleIsCurrent
    /\ open = "plans" => Plans!QuietListsAreCurrent
    /\ open = "losing" => Losing!QuietListsAreCurrent
    /\ open = "practices" => Hub!QuietPageIsCurrent
    /\ open = "drawers" => Drawers!QuietPageIsCurrent
    /\ open = "profile" => Profile!QuietMatchIsLatest
    /\ open = "users" => Directory!QuietListIsCurrent
    /\ open = "members" => Roster!QuietListIsCurrent
    /\ open = "webhooks" => Webhooks!SettledIsCurrent
    /\ open = "registry" => Registry!QuietPagesAreCurrent /\ Registry!QuietColumnsAgree
    /\ open = "connections" => /\ Connections!QuietPagesAreCurrent
                               /\ Connections!QuietColumnsAgree

==============================================================================

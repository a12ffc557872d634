--------------------------- MODULE BrowserSession ---------------------------
(***************************************************************************)
(* The signed-in session of one user in the tabs of one browser:           *)
(* src/frontend/lib/auth-context.tsx (what a tab holds, and when it        *)
(* refreshes), src/frontend/lib/api.ts (what a request does when it is     *)
(* answered 401) and the rotation of refresh tokens on the server,         *)
(* src/backend/app/services/auth_service.py.                               *)
(*                                                                         *)
(* A pair is an access token and the refresh token issued with it; pairs   *)
(* are numbered in the order they are issued and 0 means signed out.  The  *)
(* tabs share local storage and nothing else.  React runs a component's    *)
(* effects some time after the state they depend on has been set, so each  *)
(* tab has the state (mem) and what its effects and handlers last saw      *)
(* (shown).                                                                *)
(***************************************************************************)
EXTENDS Integers, FiniteSets, FiniteSetsExt

CONSTANTS
    Tabs,       \* the tabs of the browser
    Calls,      \* the requests that pages make through api.get, api.post, ...
    MaxPairs,   \* bound: pairs the server issues
    MaxFaults,  \* bound: answers that are lost or are a 5xx
    MaxGestures \* bound: what the user does

ASSUME SessionAssumption ==
    /\ Tabs \cap Calls = {}
    /\ MaxPairs \in Nat \ {0}
    /\ MaxFaults \in Nat
    /\ MaxGestures \in Nat

Pairs == 1..MaxPairs

VARIABLES
    issued,    \* how many pairs the server has issued
    refresh,   \* refresh[p]: the row of the refresh token of pair p
    access,    \* access[p]: the age of the access token of pair p
    origin,    \* history: the token a pair was exchanged for, or 0, and by whom
    storage,   \* the pair in local storage, 0 when the item is absent
    open,      \* the tabs that are open
    mem,       \* mem[t]: the pair in the state of AuthProvider
    shown,     \* shown[t]: the pair the effects and handlers of t last saw
    dirty,     \* dirty[t]: the state was set and the effects have not run yet
    armed,     \* armed[t]: the timer before the expiry is set
    exchange,  \* the POST /auth/refresh of each tab's context and each call
    call,      \* call[c]: the progress of a request
    leaving,   \* leaving[t]: the token of a POST /auth/logout under way, or 0
    runs,      \* history: how often the server has executed call c
    faults,    \* faults so far
    gestures   \* gestures so far

vars == <<issued, refresh, access, origin, storage, open, mem, shown, dirty,
          armed, exchange, call, leaving, runs, faults, gestures>>
serverVars == <<issued, refresh, origin>>
tabVars == <<mem, shown, dirty, armed>>

NoOrigin == [token |-> 0, by |-> CHOOSE t \in Tabs : TRUE]
NoExchange == [stage |-> "idle", token |-> 0, pair |-> 0]
NoCall == [stage |-> "idle", tab |-> CHOOSE t \in Tabs : TRUE, pair |-> 0]

(* The user has signed in and opened some of the tabs; they are at rest. *)
Init ==
    /\ issued = 1
    /\ refresh = [p \in Pairs |-> IF p = 1 THEN "live" ELSE "unissued"]
    /\ access = [p \in Pairs |-> "fresh"]
    /\ origin = [p \in Pairs |-> NoOrigin]
    /\ storage = 1
    /\ open \in (SUBSET Tabs) \ {{}}
    /\ mem = [t \in Tabs |-> IF t \in open THEN 1 ELSE 0]
    /\ armed = [t \in Tabs |-> t \in open]
    /\ shown = mem
    /\ dirty = [t \in Tabs |-> FALSE]
    /\ exchange = [x \in Tabs \cup Calls |-> NoExchange]
    /\ call = [c \in Calls |-> NoCall]
    /\ leaving = [t \in Tabs |-> 0]
    /\ runs = [c \in Calls |-> 0]
    /\ faults = 0
    /\ gestures = 0

(***************************************************************************)
(* The server                                                              *)
(***************************************************************************)

(* issue_token_pair: a new pair for client x, which replaces the refresh token
   old. *)
IssuePair(old, x) ==
    /\ issued < MaxPairs
    /\ issued' = issued + 1
    /\ refresh' = [p \in Pairs |-> IF p = issued' THEN "live"
                                   ELSE IF p = old THEN "revoked"
                                   ELSE refresh[p]]
    /\ origin' = [origin EXCEPT ![issued'] = [token |-> old, by |-> x]]

(* Mutant: the row is found whether it is revoked or not. *)
CheckAnyToken(x) ==
    /\ exchange[x].stage = "sent"
    /\ exchange' = [exchange EXCEPT ![x].stage = "checked"]
    /\ UNCHANGED <<serverVars, access, storage, open, tabVars, call, leaving,
                   runs, faults, gestures>>

(* refresh_token_pair selects the row of the token if it is not revoked, *)
CheckToken(x) ==
    /\ exchange[x].stage = "sent"
    /\ exchange' = [exchange EXCEPT ![x].stage =
                      IF refresh[exchange[x].token] = "live"
                      THEN "checked" ELSE "refused"]
    /\ UNCHANGED <<serverVars, access, storage, open, tabVars, call, leaving,
                   runs, faults, gestures>>

(* Mutant: the answer carries the number of the next pair. *)
IssueTokenNext(x) ==
    /\ exchange[x].stage = "checked"
    /\ IssuePair(exchange[x].token, x)
    /\ exchange' = [exchange EXCEPT ![x].stage = "ok", ![x].pair = issued' + 1]
    /\ UNCHANGED <<access, storage, open, tabVars, call, leaving, runs, faults, gestures>>

(* and then revokes it and commits it with the new pair.  Nothing locks the
   row in between: two exchanges of one token may both get here.  (When MaxPairs
   have been issued the exchange fails, as it may at any time.) *)
IssueToken(x) ==
    /\ exchange[x].stage = "checked"
    /\ \/ /\ IssuePair(exchange[x].token, x)
          /\ exchange' = [exchange EXCEPT ![x].stage = "ok", ![x].pair = issued']
       \/ /\ issued = MaxPairs
          /\ exchange' = [exchange EXCEPT ![x].stage = "refused"]
          /\ UNCHANGED serverVars
    /\ UNCHANGED <<access, storage, open, tabVars, call, leaving, runs, faults, gestures>>

(* The exchange fails before it commits, or its answer is lost. *)
ExchangeFails(x) ==
    /\ exchange[x].stage \in {"sent", "checked", "ok"}
    /\ faults < MaxFaults
    /\ faults' = faults + 1
    /\ exchange' = [exchange EXCEPT ![x].stage = "refused"]
    /\ UNCHANGED <<serverVars, access, storage, open, tabVars, call, leaving, runs, gestures>>

(* Time passes: an access token comes within a minute of its expiry, and then
   expires; an older token is never younger than a newer one.  Time is bounded
   too: the last pair issued stays fresh. *)
Age(p) ==
    /\ p <= issued /\ p < MaxPairs
    /\ \/ access[p] = "fresh" /\ \A q \in 1..(p - 1) : access[q] # "fresh"
       \/ access[p] = "expiring" /\ \A q \in 1..(p - 1) : access[q] = "expired"
    /\ access' = [access EXCEPT ![p] =
                    IF access[p] = "fresh" THEN "expiring" ELSE "expired"]
    /\ UNCHANGED <<serverVars, storage, open, tabVars, exchange, call, leaving,
                   runs, faults, gestures>>

(***************************************************************************)
(* AuthProvider                                                            *)
(***************************************************************************)

(* setUser, setAccessToken and setRefreshToken in one batch: hydrateAuth,
   clearAuthState, setSession and syncFromStorage. *)
SetSession(t, p) ==
    /\ mem' = [mem EXCEPT ![t] = p]
    /\ dirty' = [dirty EXCEPT ![t] = TRUE]

(* refreshSession, with the refresh token its closure has seen: nothing when
   that is null, and nothing more while a refresh is in flight. *)
Refreshed(t, p) ==
    IF p = 0 \/ exchange[t].stage # "idle"
    THEN exchange
    ELSE [exchange EXCEPT ![t] = [stage |-> "sent", token |-> p, pair |-> 0]]

(* Whatever the user does is bounded. *)
Gesture ==
    /\ gestures < MaxGestures
    /\ gestures' = gestures + 1

(* A tab is opened or reloaded.  The first run of the effects reads the item
   and, the state being still empty, removes it; it is written back when the
   effects run with the state that was read. *)
OpenTab(t) ==
    /\ Gesture
    /\ t \notin open
    /\ open' = open \cup {t}
    /\ SetSession(t, storage)
    /\ storage' = 0
    /\ shown' = [shown EXCEPT ![t] = 0]
    /\ armed' = [armed EXCEPT ![t] = FALSE]
    /\ UNCHANGED <<serverVars, access, exchange, call, leaving, runs, faults>>

(* A tab is closed, with its requests: answers to them go nowhere.  (The server
   first ends the exchange of a token it has already checked.) *)
CloseTab(t) ==
    LET mine == {t} \cup {c \in Calls : call[c].stage # "idle" /\ call[c].tab = t}
    IN  /\ Gesture
        /\ t \in open
        /\ \A x \in mine : exchange[x].stage # "checked"
        /\ open' = open \ {t}
        /\ mem' = [mem EXCEPT ![t] = 0]
        /\ shown' = [shown EXCEPT ![t] = 0]
        /\ dirty' = [dirty EXCEPT ![t] = FALSE]
        /\ armed' = [armed EXCEPT ![t] = FALSE]
        /\ leaving' = [leaving EXCEPT ![t] = 0]
        /\ exchange' = [x \in DOMAIN exchange |->
                          IF x \in mine THEN NoExchange ELSE exchange[x]]
        /\ call' = [c \in Calls |->
                      IF c \in mine THEN [call[c] EXCEPT !.stage = "settled"]
                      ELSE call[c]]
        /\ UNCHANGED <<serverVars, access, storage, runs, faults>>

(* The effect that follows the session: local storage gets what the state holds,
   or loses the item. *)
StorageEffect(t) == storage' = mem[t]

(* The effect that follows the tokens: it sets the timer for tokens it has not
   seen, or refreshes at once when less than a minute is left. *)
TimerEffect(t) ==
    LET new  == mem[t] # shown[t]
        soon == new /\ mem[t] # 0 /\ access[mem[t]] # "fresh"
    IN  /\ armed' = [armed EXCEPT ![t] = IF new THEN mem[t] # 0 /\ ~soon ELSE @]
        /\ exchange' = IF soon THEN Refreshed(t, mem[t]) ELSE exchange

Effects(t) ==
    /\ dirty[t]
    /\ dirty' = [dirty EXCEPT ![t] = FALSE]
    /\ shown' = [shown EXCEPT ![t] = mem[t]]
    /\ StorageEffect(t)
    /\ TimerEffect(t)
    /\ UNCHANGED <<serverVars, access, open, mem, call, leaving, runs, faults, gestures>>

(* The timer fires a minute before the expiry. *)
TimerFires(t) ==
    /\ armed[t]
    /\ access[shown[t]] # "fresh"
    /\ armed' = [armed EXCEPT ![t] = FALSE]
    /\ exchange' = Refreshed(t, shown[t])
    /\ UNCHANGED <<serverVars, access, storage, open, mem, shown, dirty, call,
                   leaving, runs, faults, gestures>>

(* The tab gets the focus or becomes visible. *)
Focus(t) ==
    /\ Gesture
    /\ shown[t] # 0
    /\ access[shown[t]] # "fresh"
    /\ exchange[t].stage = "idle"
    /\ exchange' = Refreshed(t, shown[t])
    /\ UNCHANGED <<serverVars, access, storage, open, tabVars, call, leaving,
                   runs, faults>>

(* Mutant: a failed refresh is ignored and the session kept. *)
RefreshAnsweredKept(t) ==
    /\ exchange[t].stage \in {"ok", "refused"}
    /\ IF exchange[t].stage = "ok"
       THEN SetSession(t, exchange[t].pair)
       ELSE UNCHANGED <<mem, dirty>>
    /\ exchange' = [exchange EXCEPT ![t] = NoExchange]
    /\ UNCHANGED <<serverVars, access, storage, open, shown, armed, call, leaving,
                   runs, faults, gestures>>

(* The answer to refreshSession: hydrateAuth, or clearAuthState, whatever the
   session of the tab is by now; and refreshInFlightRef is reset. *)
RefreshAnswered(t) ==
    /\ exchange[t].stage \in {"ok", "refused"}
    /\ SetSession(t, IF exchange[t].stage = "ok" THEN exchange[t].pair ELSE 0)
    /\ exchange' = [exchange EXCEPT ![t] = NoExchange]
    /\ UNCHANGED <<serverVars, access, storage, open, shown, armed, call, leaving,
                   runs, faults, gestures>>

Login(t) ==
    /\ Gesture
    /\ t \in open
    /\ mem[t] = 0 /\ shown[t] = 0
    /\ IssuePair(0, t)
    /\ SetSession(t, issued')
    /\ UNCHANGED <<access, storage, open, shown, armed, exchange, call, leaving,
                   runs, faults>>

(* logout sends the refresh token it has seen, *)
Logout(t) ==
    /\ Gesture
    /\ shown[t] # 0
    /\ leaving[t] = 0
    /\ leaving' = [leaving EXCEPT ![t] = shown[t]]
    /\ UNCHANGED <<serverVars, access, storage, open, tabVars, exchange, call,
                   runs, faults>>

(* the server revokes it, and the tab forgets its session, also when the
   request fails. *)
LogoutAnswered(t) ==
    /\ leaving[t] # 0
    /\ \/ /\ refresh' = [refresh EXCEPT ![leaving[t]] = "revoked"]
          /\ UNCHANGED faults
       \/ /\ faults < MaxFaults
          /\ faults' = faults + 1
          /\ UNCHANGED refresh
    /\ leaving' = [leaving EXCEPT ![t] = 0]
    /\ SetSession(t, 0)
    /\ UNCHANGED <<issued, origin, access, storage, open, shown, armed, exchange,
                   call, runs, gestures>>

(***************************************************************************)
(* request() of api.ts                                                     *)
(***************************************************************************)

(* A page of the tab makes a request with the access token it has seen. *)
SendCall(t, c) ==
    /\ shown[t] # 0
    /\ call[c].stage = "idle"
    /\ call' = [call EXCEPT ![c] = [stage |-> "sent", tab |-> t, pair |-> shown[t]]]
    /\ UNCHANGED <<serverVars, access, storage, open, tabVars, exchange, leaving,
                   runs, faults, gestures>>

(* What the server does of a request: it executes it, and says so or answers
   with an error, unless the access token has expired. *)
Execute(c) ==
    /\ access[call[c].pair] # "expired"
    /\ runs' = [runs EXCEPT ![c] = @ + 1]

Settled(c) == call' = [call EXCEPT ![c].stage = "settled"]

(* AUTH_UPDATED_EVENT: the context of the same tab reads what was written. *)
SyncFromStorage(t) == SetSession(t, storage')

(* writeStoredAuth and clearStoredAuth: the item is written or removed and the
   event is dispatched. *)
Publish(t, p) ==
    /\ storage' = p
    /\ SyncFromStorage(t)

(* The first try is answered with anything but a 401, or not at all. *)
FirstTry(c) ==
    /\ call[c].stage = "sent"
    /\ \/ Execute(c)
       \/ faults < MaxFaults /\ UNCHANGED runs
    /\ faults' = IF runs' = runs THEN faults + 1 ELSE faults
    /\ Settled(c)
    /\ UNCHANGED <<serverVars, access, storage, open, tabVars, exchange, leaving, gestures>>

(* Mutant: any error answer to the first try is retried, not only a 401. *)
UnauthorizedOrError(c) ==
    /\ call[c].stage = "sent"
    /\ storage # 0
    /\ Execute(c) \/ (access[call[c].pair] = "expired" /\ UNCHANGED runs)
    /\ exchange' = [exchange EXCEPT ![c] =
                      [stage |-> "sent", token |-> storage, pair |-> 0]]
    /\ call' = [call EXCEPT ![c].stage = "refreshing"]
    /\ UNCHANGED <<serverVars, access, storage, open, tabVars, leaving, faults, gestures>>

(* The first try is answered 401: the refresh token in local storage is
   exchanged; when there is none the session is cleared. *)
Unauthorized(c) ==
    /\ call[c].stage = "sent"
    /\ access[call[c].pair] = "expired"
    /\ IF storage # 0
       THEN /\ exchange' = [exchange EXCEPT ![c] =
                              [stage |-> "sent", token |-> storage, pair |-> 0]]
            /\ call' = [call EXCEPT ![c].stage = "refreshing"]
            /\ UNCHANGED <<storage, mem, dirty>>
       ELSE /\ Publish(call[c].tab, 0)
            /\ Settled(c)
            /\ UNCHANGED exchange
    /\ UNCHANGED <<serverVars, access, open, shown, armed, leaving, runs, faults, gestures>>

(* The exchange succeeds: the pair is published and the request sent again
   with its access token. *)
Retry(c) ==
    /\ call[c].stage = "refreshing"
    /\ exchange[c].stage = "ok"
    /\ Publish(call[c].tab, exchange[c].pair)
    /\ call' = [call EXCEPT ![c].stage = "retried", ![c].pair = exchange[c].pair]
    /\ exchange' = [exchange EXCEPT ![c] = NoExchange]
    /\ UNCHANGED <<serverVars, access, open, shown, armed, leaving, runs, faults, gestures>>

(* Mutant: a refused refresh is tried again with the stored token. *)
RefreshAgain(c) ==
    /\ call[c].stage = "refreshing"
    /\ exchange[c].stage = "refused"
    /\ exchange' = [exchange EXCEPT ![c] =
                      [stage |-> "sent", token |-> exchange[c].token, pair |-> 0]]
    /\ UNCHANGED <<serverVars, access, storage, open, tabVars, call, leaving,
                   runs, faults, gestures>>

(* The exchange fails: the session is cleared, for this tab and in storage. *)
RefreshRefused(c) ==
    /\ call[c].stage = "refreshing"
    /\ exchange[c].stage = "refused"
    /\ Publish(call[c].tab, 0)
    /\ Settled(c)
    /\ exchange' = [exchange EXCEPT ![c] = NoExchange]
    /\ UNCHANGED <<serverVars, access, open, shown, armed, leaving, runs, faults, gestures>>

(* The second try succeeds. *)
SecondTry(c) ==
    /\ call[c].stage = "retried"
    /\ Execute(c)
    /\ Settled(c)
    /\ UNCHANGED <<serverVars, access, storage, open, tabVars, exchange, leaving,
                   faults, gestures>>

(* The second try fails - a 401, any other error, executed or not, or no answer:
   every one is caught where the failure of the refresh is, and clears the
   session. *)
SecondTryFails(c) ==
    /\ call[c].stage = "retried"
    /\ \/ access[call[c].pair] = "expired" /\ UNCHANGED <<runs, faults>>
       \/ Execute(c) /\ UNCHANGED faults
       \/ faults < MaxFaults /\ faults' = faults + 1 /\ UNCHANGED runs
    /\ Publish(call[c].tab, 0)
    /\ Settled(c)
    /\ UNCHANGED <<serverVars, access, open, shown, armed, exchange, leaving, gestures>>

(***************************************************************************)
(* The specification                                                       *)
(***************************************************************************)

ServerStep(x) == CheckToken(x) \/ IssueToken(x)

CallStep(c) ==
    \/ FirstTry(c) \/ Unauthorized(c) \/ Retry(c) \/ RefreshRefused(c)
    \/ SecondTry(c) \/ SecondTryFails(c)

User ==
    \/ \E t \in Tabs : OpenTab(t) \/ CloseTab(t) \/ Focus(t) \/ Login(t) \/ Logout(t)
    \/ \E t \in Tabs, c \in Calls : SendCall(t, c)

(* What happens without the user: the server answers, effects run after the
   state they depend on is set, and a timer that has been set fires. *)
System ==
    \/ \E x \in Tabs \cup Calls : ServerStep(x)
    \/ \E t \in Tabs : Effects(t) \/ TimerFires(t) \/ RefreshAnswered(t) \/ LogoutAnswered(t)
    \/ \E c \in Calls : CallStep(c)

Next ==
    \/ System
    \/ \E x \in Tabs \cup Calls : ExchangeFails(x)
    \/ \E p \in Pairs : Age(p)
    \/ User

(* The system goes on while it has anything to do; the user owes nothing. *)
Spec == Init /\ [][Next]_vars /\ WF_vars(System)

(***************************************************************************)
(* Properties                                                              *)
(***************************************************************************)

Held == 0..MaxPairs

(* The types of the variables. *)
TypeOK ==
    /\ issued \in Pairs
    /\ refresh \in [Pairs -> {"unissued", "live", "revoked"}]
    /\ access \in [Pairs -> {"fresh", "expiring", "expired"}]
    /\ origin \in [Pairs -> [token : Held, by : Tabs \cup Calls]]
    /\ storage \in Held
    /\ open \subseteq Tabs
    /\ mem \in [Tabs -> Held] /\ shown \in [Tabs -> Held]
    /\ dirty \in [Tabs -> BOOLEAN] /\ armed \in [Tabs -> BOOLEAN]
    /\ exchange \in [Tabs \cup Calls ->
          [stage : {"idle", "sent", "checked", "ok", "refused"},
           token : Held, pair : Held]]
    /\ call \in [Calls ->
          [stage : {"idle", "sent", "refreshing", "retried", "settled"},
           tab : Tabs, pair : Held]]
    /\ leaving \in [Tabs -> Held]
    /\ runs \in [Calls -> Nat]
    /\ faults \in 0..MaxFaults
    /\ gestures \in 0..MaxGestures

(* A request is executed by the server at most once, although request() may
   send it twice: a POST is not repeated. *)
ExecutedOnce == \A c \in Calls : runs[c] <= 1

(* A tab that has nothing to catch up with shows what its state holds, and a
   tab whose session can still expire has its timer set, a refresh in flight or
   is about to run its effects: nothing it did with the session, in api.ts or in
   the context, leaves it without either. *)
TabIsWatched ==
    \A t \in open :
        /\ ~dirty[t] => shown[t] = mem[t]
        /\ mem[t] # 0 => armed[t] \/ dirty[t] \/ exchange[t].stage # "idle"

(* A refresh token has at most one successor from each client: two successors
   come from two clients whose exchanges overlapped, and a token that has been
   rotated, or revoked by /auth/logout, is of no use to a client that comes back
   to it, from a handler that has not seen the new one yet for example. *)
OneSuccessorEach ==
    \A p, q \in 1..issued :
        p # q /\ origin[p].token # 0 => origin[p] # origin[q]

(* A session that is over: the refresh token revoked, by another tab or an
   exchange whose answer was lost, and the access token expired. *)
Over(p) == p # 0 /\ refresh[p] = "revoked" /\ access[p] = "expired"

(* Time and again no request is under way and no tab holds a session that is over:
   each request is answered, or fails after one refresh and one more try, and each
   such tab is refreshed or signed out, whatever the tabs do to one another. *)
SessionsSettle ==
    []<>(/\ \A c \in Calls : call[c].stage \in {"idle", "settled"}
         /\ \A t \in Tabs : ~Over(mem[t]))

=============================================================================

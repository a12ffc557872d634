------------------------- MODULE BrowserSession_proofs -------------------------
(***************************************************************************)
(* Proofs about BrowserSession, for any number of tabs, requests, pairs,   *)
(* lost answers and gestures: requests are executed once, a tab with a     *)
(* session is watched over, and a client exchanges a token once.  The      *)
(* second part is about an instance of PasswordLinks, the other way in,    *)
(* the third about one of QuestionBankPage, where questions are listed.    *)
(***************************************************************************)
EXTENDS BrowserSession, Sequences, FiniteSetTheorems, WellFoundedInduction, TLAPS

Clients == Tabs \cup Calls
Known   == 0 .. issued

Exchange == [stage : {"idle", "sent", "checked", "ok", "refused"}, token : Held, pair : Held]
Call     == [stage : {"idle", "sent", "refreshing", "retried", "settled"}, tab : Tabs, pair : Held]

\* The pairs that tabs hold, or can read.
Taken == {0, storage} \cup {mem[t] : t \in Tabs} \cup {shown[t] : t \in Tabs}

\* Whatever a client holds the server has issued.
HeldIsIssued ==
  /\ Taken \subseteq Known
  /\ \A x \in Clients : exchange[x].token \in Known /\ exchange[x].pair \in Known
  /\ \A p \in Pairs : origin[p].token \in Known

\* A pair that an answer carries is held by nobody yet.
AnswersAreNew ==
  \A x \in Clients : exchange[x].stage = "ok" =>
    /\ exchange[x].pair \notin Taken
    /\ \A y \in Clients \ {x} :
         exchange[y].stage = "ok" => exchange[y].pair # exchange[x].pair

\* A tab waits for its timer or for an answer, or its effects will run for tokens they
\* have not seen.
Watched(t) ==
  /\ ~dirty[t] => shown[t] = mem[t]
  /\ mem[t] # 0 => armed[t] \/ exchange[t].stage # "idle" \/ (dirty[t] /\ mem[t] # shown[t])

\* A timer is set for tokens the tab has seen.
TimerIsSet == \A t \in Tabs : armed[t] => shown[t] # 0

\* The server has executed a request only if it is settled.
SettledWhenRun == \A c \in Calls : runs[c] \in 0 .. 1 /\ (runs[c] = 1 => call[c].stage = "settled")

\* A token that has a successor is revoked; a client whose token has been found valid
\* has not exchanged it before.
Rotated ==
  /\ \A p \in Pairs : origin[p].token # 0 => refresh[origin[p].token] = "revoked"
  /\ \A x \in Clients, p \in 1 .. issued :
       exchange[x].stage = "checked" /\ exchange[x].token # 0 =>
         origin[p] # [token |-> exchange[x].token, by |-> x]

Pairing  == HeldIsIssued /\ AnswersAreNew /\ Rotated /\ OneSuccessorEach
Watching == TimerIsSet /\ \A t \in open : Watched(t)

IInv == TypeOK /\ Pairing /\ Watching /\ SettledWhenRun

-----------------------------------------------------------------------------
(* What steps have in common. *)

\* An exchange changes in its own client alone.
LEMMA ExchangeSet ==
  ASSUME TypeOK, NEW x \in Clients, NEW e \in Exchange, exchange' = [exchange EXCEPT ![x] = e]
  PROVE  /\ exchange' \in [Clients -> Exchange] /\ exchange'[x] = e
         /\ \A y \in Clients \ {x} : exchange'[y] = exchange[y]
BY DEF TypeOK, Exchange, Clients

LEMMA StageSet ==
  ASSUME TypeOK, NEW x \in Clients, NEW s \in {"checked", "ok", "refused"},
         exchange' = [exchange EXCEPT ![x].stage = s]
  PROVE  /\ exchange' \in [Clients -> Exchange] /\ exchange'[x].stage = s
         /\ exchange'[x].token = exchange[x].token /\ exchange'[x].pair = exchange[x].pair
         /\ \A y \in Clients \ {x} : exchange'[y] = exchange[y]
<1> DEFINE e == [exchange[x] EXCEPT !.stage = s]
<1>1. exchange[x] \in Exchange
  BY DEF TypeOK, Exchange, Clients
<1>2. /\ e \in Exchange /\ e.stage = s /\ e.token = exchange[x].token
      /\ e.pair = exchange[x].pair
  BY <1>1 DEF Exchange
<1>3. exchange' = [exchange EXCEPT ![x] = e]
  OBVIOUS
<1> HIDE DEF e
<1> QED
  BY <1>2, <1>3, ExchangeSet

\* refreshSession sends a token the tab holds, unless an exchange is under way.
LEMMA RefreshedSet ==
  ASSUME TypeOK, NEW t \in Tabs, NEW p \in Held, exchange' = Refreshed(t, p)
  PROVE  /\ exchange' \in [Clients -> Exchange]
         /\ \A y \in Clients \ {t} : exchange'[y] = exchange[y]
         /\ p # 0 => exchange'[t].stage # "idle"
         /\ \/ exchange'[t] = exchange[t]
            \/ exchange'[t] = [stage |-> "sent", token |-> p, pair |-> 0]
<1> DEFINE e == [stage |-> "sent", token |-> p, pair |-> 0]
<1>1. e \in Exchange /\ e.stage = "sent" /\ t \in Clients
  BY SessionAssumption DEF Exchange, Held, Clients
<1>2. CASE p = 0 \/ exchange[t].stage # "idle"
  BY <1>2 DEF Refreshed, TypeOK, Exchange, Clients
<1>3. CASE ~(p = 0 \/ exchange[t].stage # "idle")
  <2>1. exchange' = [exchange EXCEPT ![t] = e]
    BY <1>3 DEF Refreshed
  <2> HIDE DEF e
  <2>2. /\ exchange' \in [Clients -> Exchange] /\ exchange'[t] = e
        /\ \A y \in Clients \ {t} : exchange'[y] = exchange[y]
    BY <1>1, <2>1, ExchangeSet
  <2>3. exchange'[t] = e /\ exchange'[t].stage = "sent"
    BY <1>1, <2>2
  <2> QED
    BY <2>2, <2>3 DEF e
<1> QED
  BY <1>2, <1>3

LEMMA SettledSet ==
  ASSUME TypeOK, NEW c \in Calls, Settled(c)
  PROVE  call' \in [Calls -> Call]
BY DEF TypeOK, Settled, Call

\* A session is set in its own tab alone.
LEMMA SessionSet ==
  ASSUME TypeOK, NEW t \in Tabs, NEW p \in Held, SetSession(t, p)
  PROVE  /\ mem' \in [Tabs -> Held] /\ dirty' \in [Tabs -> BOOLEAN]
         /\ mem'[t] = p /\ dirty'[t] = TRUE
         /\ \A u \in Tabs \ {t} : mem'[u] = mem[u] /\ dirty'[u] = dirty[u]
BY DEF TypeOK, SetSession

LEMMA TakenSet ==
  ASSUME NEW S, 0 \in S, storage' \in S, \A t \in Tabs : mem'[t] \in S /\ shown'[t] \in S
  PROVE  Taken' \subseteq S
BY DEF Taken

LEMMA TakenHolds ==
  /\ 0 \in Taken /\ storage \in Taken
  /\ \A t \in Tabs : mem[t] \in Taken /\ shown[t] \in Taken
BY DEF Taken

\* What is held when the session of a tab, and perhaps the item, is set to p.
LEMMA TakenPut ==
  ASSUME NEW t \in Tabs, NEW p, mem'[t] = p, \A u \in Tabs \ {t} : mem'[u] = mem[u],
         UNCHANGED shown, storage' \in {storage, p}
  PROVE  Taken' \subseteq Taken \cup {p}
<1> DEFINE S == Taken \cup {p}
<1>1. 0 \in S /\ storage' \in S
  BY TakenHolds
<1>2. ASSUME NEW u \in Tabs PROVE mem'[u] \in S /\ shown'[u] \in S
  <2>1. mem[u] \in Taken /\ shown[u] \in Taken
    BY TakenHolds
  <2> QED
    BY <2>1
<1> HIDE DEF S
<1>3. Taken' \subseteq S
  BY <1>1, <1>2, TakenSet
<1> QED
  BY <1>3 DEF S

\* No pair is issued or answered.
Quiet(y) ==
  /\ exchange'[y].stage \in {"checked", "ok"} => exchange'[y] = exchange[y]
  /\ exchange'[y].token \in Taken \cup {exchange[y].token}
  /\ exchange'[y].pair \in Taken \cup {exchange[y].pair}

LEMMA PairingKept ==
  ASSUME TypeOK, Pairing, UNCHANGED <<issued, origin>>,
         \A p \in Pairs : refresh[p] = "revoked" => refresh'[p] = "revoked",
         \A y \in Clients : Quiet(y), Taken' \subseteq Taken
  PROVE  Pairing'
<1>1. HeldIsIssued'
  BY DEF Pairing, HeldIsIssued, Quiet, Known
<1>2. AnswersAreNew'
  BY DEF Pairing, AnswersAreNew, Quiet
<1>3. Rotated'
  <2>1. ASSUME NEW p \in Pairs, origin[p].token # 0 PROVE refresh'[origin[p].token] = "revoked"
    <3>1. origin[p].token \in Pairs
      BY <2>1, SessionAssumption DEF TypeOK, Held, Pairs
    <3> QED
      BY <2>1, <3>1 DEF Pairing, Rotated
  <2>2. ASSUME NEW x \in Clients, NEW p \in 1 .. issued, exchange'[x].stage = "checked",
               exchange'[x].token # 0
        PROVE  origin[p] # [token |-> exchange'[x].token, by |-> x]
    BY <2>2 DEF Pairing, Rotated, Quiet
  <2> QED
    BY <2>1, <2>2 DEF Rotated
<1>4. OneSuccessorEach'
  BY DEF Pairing, OneSuccessorEach
<1> QED
  BY <1>1, <1>2, <1>3, <1>4 DEF Pairing

\* The pair of an answer is taken by whoever asked for it.
LEMMA PairingTaken ==
  ASSUME TypeOK, Pairing, UNCHANGED <<issued, origin, refresh>>, NEW x \in Clients,
         exchange[x].stage = "ok", exchange'[x] = NoExchange,
         \A y \in Clients \ {x} : exchange'[y] = exchange[y],
         Taken' \subseteq Taken \cup {exchange[x].pair}
  PROVE  Pairing'
<1>1. NoExchange.stage = "idle" /\ NoExchange.token = 0 /\ NoExchange.pair = 0
  BY DEF NoExchange
<1>2. HeldIsIssued'
  <2>1. 0 \in Known
    BY TakenHolds DEF Pairing, HeldIsIssued
  <2> QED
    BY <1>1, <2>1 DEF Pairing, HeldIsIssued, Known
<1>3. AnswersAreNew'
  BY <1>1 DEF Pairing, AnswersAreNew
<1>4. Rotated' /\ OneSuccessorEach'
  BY <1>1 DEF Pairing, Rotated, OneSuccessorEach
<1> QED
  BY <1>2, <1>3, <1>4 DEF Pairing

\* A tab that keeps what it had is watched as before, and one whose session is set to a
\* pair it has not seen, or to none, by its effects.
LEMMA WatchedSame ==
  ASSUME NEW u, Watched(u), mem'[u] = mem[u], shown'[u] = shown[u], dirty'[u] = dirty[u],
         armed'[u] = armed[u], exchange[u].stage # "idle" => exchange'[u].stage # "idle"
  PROVE  Watched(u)'
BY DEF Watched

LEMMA WatchedSet ==
  ASSUME NEW u, dirty'[u] = TRUE, mem'[u] = 0 \/ mem'[u] # shown'[u]
  PROVE  Watched(u)'
BY DEF Watched
-----------------------------------------------------------------------------
(* The server. *)

\* The server looks at an exchange, or it fails: nothing else changes.
LEMMA StageKeeps ==
  ASSUME IInv, NEW x \in Clients, NEW s \in {"checked", "refused"}, exchange[x].stage # "idle",
         exchange' = [exchange EXCEPT ![x].stage = s], faults' \in 0 .. MaxFaults,
         UNCHANGED <<serverVars, access, storage, open, tabVars, call, leaving, runs, gestures>>,
         s = "checked" /\ exchange[x].token # 0 =>
           \A p \in 1 .. issued : origin[p] # [token |-> exchange[x].token, by |-> x]
  PROVE  IInv'
<1>1. TypeOK /\ Pairing /\ Watching /\ SettledWhenRun
  BY DEF IInv
<1>2. UNCHANGED <<issued, refresh, origin, access, storage, open, mem, shown, dirty, armed, call,
                  leaving, runs, gestures>>
  BY DEF serverVars, tabVars
<1>3. /\ exchange' \in [Clients -> Exchange] /\ exchange'[x].stage = s
      /\ exchange'[x].token = exchange[x].token /\ exchange'[x].pair = exchange[x].pair
      /\ \A y \in Clients \ {x} : exchange'[y] = exchange[y]
  BY <1>1, StageSet
<1>4. TypeOK'
  BY <1>1, <1>2, <1>3 DEF TypeOK, Exchange, Clients
<1>5. Pairing'
  <2>1. Taken' = Taken
    BY <1>2 DEF Taken
  <2>2. HeldIsIssued'
    BY <1>1, <1>2, <1>3, <2>1 DEF Pairing, HeldIsIssued, Known
  <2>3. AnswersAreNew'
    BY <1>1, <1>3, <2>1 DEF Pairing, AnswersAreNew
  <2>4. Rotated'
    BY <1>1, <1>2, <1>3 DEF Pairing, Rotated
  <2>5. OneSuccessorEach'
    BY <1>1, <1>2 DEF Pairing, OneSuccessorEach
  <2> QED
    BY <2>2, <2>3, <2>4, <2>5 DEF Pairing
<1>6. Watching'
  <2>1. ASSUME NEW u \in open PROVE Watched(u)'
    <3>1. u \in Clients /\ Watched(u)
      BY <1>1 DEF TypeOK, Clients, Watching
    <3> QED
      BY <1>2, <1>3, <3>1, WatchedSame
  <2> QED
    BY <1>1, <1>2, <2>1 DEF Watching, TimerIsSet
<1>7. SettledWhenRun'
  BY <1>1, <1>2 DEF SettledWhenRun
<1> QED
  BY <1>4, <1>5, <1>6, <1>7 DEF IInv

LEMMA CheckTokenKeeps ==
  ASSUME IInv, NEW x \in Clients, CheckToken(x)
  PROVE  IInv'
<1> DEFINE s == IF refresh[exchange[x].token] = "live" THEN "checked" ELSE "refused"
<1>1. TypeOK /\ Pairing
  BY DEF IInv
<1>2. faults \in 0 .. MaxFaults
  BY <1>1 DEF TypeOK
<1>3. ASSUME s = "checked", exchange[x].token # 0, NEW p \in 1 .. issued
      PROVE  origin[p] # [token |-> exchange[x].token, by |-> x]
  <2>1. p \in Pairs
    BY <1>1, SessionAssumption DEF TypeOK, Pairs
  <2>2. origin[p].token # 0 => refresh[origin[p].token] # "live"
    BY <1>1, <2>1 DEF Pairing, Rotated
  <2>3. refresh[exchange[x].token] = "live"
    BY <1>3
  <2>4. [token |-> exchange[x].token, by |-> x].token = exchange[x].token
    OBVIOUS
  <2> QED
    BY <1>3, <2>2, <2>3, <2>4
<1>4. /\ exchange[x].stage = "sent" /\ exchange' = [exchange EXCEPT ![x].stage = s]
      /\ faults' = faults
      /\ UNCHANGED <<serverVars, access, storage, open, tabVars, call, leaving, runs, gestures>>
  BY DEF CheckToken
<1>5. s \in {"checked", "refused"}
  OBVIOUS
<1> HIDE DEF s
<1> QED
  BY <1>2, <1>3, <1>4, <1>5, StageKeeps

LEMMA ExchangeFailsKeeps ==
  ASSUME IInv, NEW x \in Clients, ExchangeFails(x)
  PROVE  IInv'
<1>1. faults' \in 0 .. MaxFaults
  BY SessionAssumption DEF IInv, TypeOK, ExchangeFails
<1> QED
  BY <1>1, StageKeeps DEF ExchangeFails

\* A new pair is nobody's yet.
LEMMA IssuedPair ==
  ASSUME TypeOK, Pairing, NEW x \in Clients, NEW old \in Known, IssuePair(old, x)
  PROVE  /\ issued' = issued + 1 /\ issued' \in Pairs /\ issued' \notin Known /\ Known \subseteq Known'
         /\ issued' \in Known' /\ issued' # 0
         /\ refresh' \in [Pairs -> {"unissued", "live", "revoked"}]
         /\ origin' \in [Pairs -> [token : Held, by : Clients]]
         /\ origin'[issued'] = [token |-> old, by |-> x]
         /\ \A p \in Pairs \ {issued'} : origin'[p] = origin[p]
         /\ \A p \in Pairs : p # issued' /\ (p = old \/ refresh[p] = "revoked") => refresh'[p] = "revoked"
<1>1. /\ issued \in Nat /\ issued < MaxPairs /\ issued' = issued + 1 /\ MaxPairs \in Nat
  BY SessionAssumption DEF TypeOK, IssuePair, Pairs
<1>2. /\ issued' \in Pairs /\ issued' \notin Known /\ Known \subseteq Known' /\ issued' \in Known' /\ issued' # 0
  BY <1>1 DEF Pairs, Known
<1>3. [token |-> old, by |-> x] \in [token : Held, by : Clients]
  BY <1>1 DEF Known, Held
<1>4. /\ refresh' = [p \in Pairs |-> IF p = issued' THEN "live"
                                    ELSE IF p = old THEN "revoked"
                                    ELSE refresh[p]]
      /\ origin' = [origin EXCEPT ![issued'] = [token |-> old, by |-> x]]
  BY DEF IssuePair
<1>5. refresh' \in [Pairs -> {"unissued", "live", "revoked"}]
  BY <1>4 DEF TypeOK
<1>6. /\ origin' \in [Pairs -> [token : Held, by : Clients]]
      /\ origin'[issued'] = [token |-> old, by |-> x]
      /\ \A p \in Pairs \ {issued'} : origin'[p] = origin[p]
  BY <1>2, <1>3, <1>4 DEF TypeOK, Clients
<1> QED
  BY <1>1, <1>2, <1>4, <1>5, <1>6

\* The tokens that have been exchanged are revoked, after another exchange too.
LEMMA IssuedRotates ==
  ASSUME TypeOK, Pairing, NEW x \in Clients, NEW old \in Known, IssuePair(old, x),
         \A y \in Clients : exchange'[y].stage = "checked" => exchange'[y] = exchange[y],
         exchange'[x].stage # "checked" \/ old = 0,
         old # 0 => exchange[x].stage = "checked" /\ exchange[x].token = old
  PROVE  Rotated' /\ OneSuccessorEach' /\ \A p \in Pairs : (origin[p].token \in Known)'
<1>1. /\ issued' = issued + 1 /\ issued' \in Pairs /\ issued' \notin Known /\ issued' # 0
      /\ Known \subseteq Known'
      /\ origin'[issued'] = [token |-> old, by |-> x]
      /\ \A p \in Pairs \ {issued'} : origin'[p] = origin[p]
      /\ \A p \in Pairs : p # issued' /\ (p = old \/ refresh[p] = "revoked") => refresh'[p] = "revoked"
  BY IssuedPair
<1>2. /\ \A p \in Pairs : origin[p].token \in Known
      /\ \A p \in Pairs : origin[p].token # 0 => refresh[origin[p].token] = "revoked"
  BY DEF Pairing, HeldIsIssued, Rotated
<1>3. \A k \in Known : k # 0 => k \in Pairs /\ k # issued'
  BY <1>1, SessionAssumption DEF TypeOK, Known, Pairs
<1>4. ASSUME NEW p \in Pairs PROVE origin'[p].token \in Known
  BY <1>1, <1>2
<1>5. ASSUME NEW p \in Pairs, origin'[p].token # 0 PROVE refresh'[origin'[p].token] = "revoked"
  <2>1. CASE p = issued'
    <3>1. origin'[p].token = old
      BY <1>1, <2>1
    <3> QED
      BY <1>1, <1>3, <1>5, <3>1
  <2>2. CASE p # issued'
    <3>1. origin'[p] = origin[p]
      BY <1>1, <2>2
    <3> QED
      BY <1>1, <1>2, <1>3, <1>5, <3>1
  <2> QED
    BY <2>1, <2>2
<1>6. \A p \in 1 .. issued' : p = issued' \/ p \in 1 .. issued
  BY <1>1 DEF TypeOK, Pairs
<1>7. \A p \in 1 .. issued : p \in Pairs /\ p # issued'
  BY <1>1, SessionAssumption DEF TypeOK, Pairs
<1>8. ASSUME NEW y \in Clients, NEW p \in 1 .. issued', exchange'[y].stage = "checked",
             exchange'[y].token # 0
      PROVE  origin'[p] # [token |-> exchange'[y].token, by |-> y]
  <2>1. exchange'[y] = exchange[y]
    BY <1>8
  <2>2. CASE p = issued'
    <3>1. origin'[p] = [token |-> old, by |-> x]
      BY <1>1, <2>2
    <3>2. y = x => old = 0
      BY <1>8
    <3>3. [token |-> old, by |-> x].token = old /\ [token |-> old, by |-> x].by = x
      OBVIOUS
    <3> QED
      BY <1>8, <3>1, <3>2, <3>3
  <2>3. CASE p # issued'
    <3>1. p \in 1 .. issued /\ origin'[p] = origin[p]
      BY <1>1, <1>6, <1>7, <2>3
    <3> QED
      BY <1>8, <2>1, <3>1 DEF Pairing, Rotated
  <2> QED
    BY <2>2, <2>3
<1>9. Rotated'
  BY <1>5, <1>8 DEF Rotated
<1>10. OneSuccessorEach'
  <2>1. ASSUME NEW p \in 1 .. issued, old # 0 PROVE origin[p] # [token |-> old, by |-> x]
    BY <2>1 DEF Pairing, Rotated
  <2> SUFFICES ASSUME NEW p \in 1 .. issued', NEW q \in 1 .. issued', p # q, origin'[p].token # 0
               PROVE  origin'[p] # origin'[q]
    BY DEF OneSuccessorEach
  <2>2. CASE p = issued' \/ q = issued'
    <3>1. PICK r \in 1 .. issued : {p, q} = {r, issued'}
      BY <1>6, <2>2
    <3>2. origin'[r] = origin[r] /\ origin'[issued'] = [token |-> old, by |-> x]
      BY <1>1, <1>7
    <3>3. old # 0 => origin'[p] # origin'[q]
      BY <2>1, <3>1, <3>2
    <3>4. old = 0 => origin'[issued'].token = 0
      BY <3>2
    <3> QED
      BY <3>1, <3>3, <3>4
  <2>3. CASE p # issued' /\ q # issued'
    <3>1. p \in 1 .. issued /\ q \in 1 .. issued /\ origin'[p] = origin[p] /\ origin'[q] = origin[q]
      BY <1>1, <1>6, <1>7, <2>3
    <3> QED
      BY <3>1 DEF Pairing, OneSuccessorEach
  <2> QED
    BY <2>2, <2>3
<1> QED
  BY <1>1, <1>4, <1>9, <1>10

LEMMA IssueTokenKeeps ==
  ASSUME IInv, NEW x \in Clients, IssueToken(x)
  PROVE  IInv'
<1>1. TypeOK /\ Pairing /\ Watching /\ SettledWhenRun
  BY DEF IInv
<1>2. /\ exchange[x].stage = "checked"
      /\ UNCHANGED <<access, storage, open, mem, shown, dirty, armed, call, leaving, runs,
                     faults, gestures>>
  BY DEF IssueToken, tabVars
<1>3. CASE issued = MaxPairs /\ exchange' = [exchange EXCEPT ![x].stage = "refused"]
           /\ UNCHANGED serverVars
  <2>1. faults' \in 0 .. MaxFaults
    BY <1>1, <1>2 DEF TypeOK
  <2> QED
    BY <1>2, <1>3, <2>1, StageKeeps DEF tabVars
<1>4. CASE IssuePair(exchange[x].token, x)
           /\ exchange' = [exchange EXCEPT ![x].stage = "ok", ![x].pair = issued']
  <2> DEFINE old == exchange[x].token
  <2>1. old \in Known /\ exchange[x] \in Exchange
    BY <1>1 DEF Pairing, HeldIsIssued, TypeOK, Exchange, Clients
  <2>2. /\ issued' \in Pairs /\ issued' \notin Known /\ Known \subseteq Known'
        /\ issued' \in Known' /\ issued' # 0
        /\ refresh' \in [Pairs -> {"unissued", "live", "revoked"}]
        /\ origin' \in [Pairs -> [token : Held, by : Clients]]
    BY <1>1, <1>4, <2>1, IssuedPair
  <2>3. /\ exchange' \in [Clients -> Exchange] /\ exchange'[x].stage = "ok"
        /\ exchange'[x].pair = issued' /\ exchange'[x].token = old
        /\ \A y \in Clients \ {x} : exchange'[y] = exchange[y]
    <3> DEFINE e == [exchange[x] EXCEPT !.stage = "ok", !.pair = issued']
    <3>1. issued' \in Held
      BY <2>2 DEF Pairs, Held
    <3>2. e \in Exchange /\ e.stage = "ok" /\ e.pair = issued' /\ e.token = old
      BY <2>1, <3>1 DEF Exchange
    <3>3. exchange' = [exchange EXCEPT ![x] = e]
      BY <1>1, <1>4 DEF TypeOK, Clients
    <3> HIDE DEF e
    <3> QED
      BY <1>1, <3>2, <3>3, ExchangeSet
  <2> HIDE DEF old
  <2>4. TypeOK'
    BY <1>1, <1>2, <2>2, <2>3 DEF TypeOK, Exchange, Clients
  <2>5. Taken' = Taken
    BY <1>2 DEF Taken
  <2>6. Rotated' /\ OneSuccessorEach' /\ \A p \in Pairs : (origin[p].token \in Known)'
    <3>1. \A y \in Clients : exchange'[y].stage = "checked" => exchange'[y] = exchange[y]
      BY <2>3
    <3> QED
      BY <1>1, <1>2, <1>4, <2>1, <2>3, <3>1, IssuedRotates DEF old
  <2>7. HeldIsIssued'
    BY <1>1, <2>1, <2>2, <2>3, <2>5, <2>6 DEF Pairing, HeldIsIssued
  <2>8. AnswersAreNew'
    <3>1. issued' \notin Taken
      BY <1>1, <2>2 DEF Pairing, HeldIsIssued
    <3>2. \A y \in Clients : exchange[y].pair \in Known
      BY <1>1 DEF Pairing, HeldIsIssued
    <3> QED
      BY <1>1, <2>2, <2>3, <2>5, <3>1, <3>2 DEF Pairing, AnswersAreNew
  <2>9. Watching'
    <3>1. ASSUME NEW u \in open PROVE Watched(u)'
      <4>1. u \in Clients /\ Watched(u)
        BY <1>1 DEF TypeOK, Clients, Watching
      <4>2. exchange'[u].stage # "idle" \/ exchange[u].stage = "idle"
        BY <2>3, <4>1
      <4> QED
        BY <1>2, <4>1, <4>2, WatchedSame
    <3> QED
      BY <1>1, <1>2, <3>1 DEF Watching, TimerIsSet
  <2>10. SettledWhenRun'
    BY <1>1, <1>2 DEF SettledWhenRun
  <2> QED
    BY <2>4, <2>6, <2>7, <2>8, <2>9, <2>10 DEF IInv, Pairing
<1> QED
  BY <1>3, <1>4 DEF IssueToken

LEMMA AgeKeeps ==
  ASSUME IInv, NEW p \in Pairs, Age(p)
  PROVE  IInv'
<1>1. TypeOK /\ Pairing /\ Watching /\ SettledWhenRun
  BY DEF IInv
<1>2. /\ access' = [access EXCEPT ![p] = IF access[p] = "fresh" THEN "expiring" ELSE "expired"]
      /\ UNCHANGED <<issued, refresh, origin, storage, open, mem, shown, dirty, armed, exchange,
                     call, leaving, runs, faults, gestures>>
  BY DEF Age, serverVars, tabVars
<1>3. access' \in [Pairs -> {"fresh", "expiring", "expired"}]
  BY <1>1, <1>2 DEF TypeOK
<1>4. TypeOK'
  BY <1>1, <1>2, <1>3 DEF TypeOK
<1>5. Pairing' /\ Watching' /\ SettledWhenRun'
  BY <1>1, <1>2 DEF Pairing, HeldIsIssued, Taken, Known, AnswersAreNew, Rotated,
                    OneSuccessorEach, Watching, TimerIsSet, Watched, SettledWhenRun
<1> QED
  BY <1>4, <1>5 DEF IInv

-----------------------------------------------------------------------------
(* The tabs. *)

\* A step that neither issues nor answers keeps what is said of the pairs.
LEMMA QuietKeeps ==
  ASSUME TypeOK, Pairing, UNCHANGED serverVars, \A y \in Clients : Quiet(y),
         storage' \in Taken, \A t \in Tabs : mem'[t] \in Taken /\ shown'[t] \in Taken
  PROVE  Pairing'
<1>1. Taken' \subseteq Taken
  BY TakenHolds, TakenSet
<1>2. UNCHANGED <<issued, origin>> /\ refresh' = refresh
  BY DEF serverVars
<1> QED
  BY <1>1, <1>2, PairingKept

\* Clients whose exchange is not touched are quiet.
LEMMA QuietSame ==
  ASSUME NEW y \in Clients, exchange'[y] = exchange[y]
  PROVE  Quiet(y)
BY DEF Quiet

LEMMA QuietIdle ==
  ASSUME NEW y \in Clients, exchange'[y] = NoExchange
  PROVE  Quiet(y)
BY TakenHolds DEF Quiet, NoExchange

LEMMA QuietSent ==
  ASSUME NEW y \in Clients, NEW p \in Taken, exchange'[y] = [stage |-> "sent", token |-> p, pair |-> 0]
  PROVE  Quiet(y)
BY TakenHolds DEF Quiet

\* Pairs of tabs are pairs.
LEMMA TakenIsHeld == TypeOK => Taken \subseteq Held
BY SessionAssumption DEF TypeOK, Taken, Held

LEMMA OpenTabKeeps ==
  ASSUME IInv, NEW t \in Tabs, OpenTab(t)
  PROVE  IInv'
<1>1. TypeOK /\ Pairing /\ Watching /\ SettledWhenRun
  BY DEF IInv
<1>2. /\ open' = open \cup {t} /\ SetSession(t, storage) /\ storage' = 0
      /\ shown' = [shown EXCEPT ![t] = 0] /\ armed' = [armed EXCEPT ![t] = FALSE]
      /\ gestures < MaxGestures /\ gestures' = gestures + 1
      /\ UNCHANGED <<serverVars, access, exchange, call, leaving, runs, faults>>
  BY DEF OpenTab, Gesture
<1>3. storage \in Held /\ 0 \in Held
  BY <1>1, SessionAssumption DEF TypeOK, Held
<1>4. /\ mem' \in [Tabs -> Held] /\ dirty' \in [Tabs -> BOOLEAN]
      /\ mem'[t] = storage /\ dirty'[t] = TRUE
      /\ \A u \in Tabs \ {t} : mem'[u] = mem[u] /\ dirty'[u] = dirty[u]
  BY <1>1, <1>2, <1>3, SessionSet
<1>5. /\ shown' \in [Tabs -> Held] /\ armed' \in [Tabs -> BOOLEAN] /\ shown'[t] = 0 /\ ~armed'[t]
      /\ \A u \in Tabs \ {t} : shown'[u] = shown[u] /\ armed'[u] = armed[u]
  BY <1>1, <1>2, <1>3 DEF TypeOK
<1>6. TypeOK'
  BY <1>1, <1>2, <1>3, <1>4, <1>5, SessionAssumption DEF TypeOK, serverVars
<1>7. Pairing'
  <2>1. \A y \in Clients : Quiet(y)
    BY <1>2, QuietSame
  <2>2. \A u \in Tabs : mem'[u] \in Taken /\ shown'[u] \in Taken
    BY <1>4, <1>5, TakenHolds
  <2> QED
    BY <1>1, <1>2, <2>1, <2>2, TakenHolds, QuietKeeps
<1>8. Watching'
  <2>1. ASSUME NEW u \in open' PROVE Watched(u)'
    <3>1. CASE u = t
      BY <1>4, <1>5, <3>1, WatchedSet
    <3>2. CASE u # t
      <4>1. u \in Tabs /\ Watched(u)
        BY <1>1, <1>2, <3>2 DEF TypeOK, Watching
      <4> QED
        BY <1>2, <1>4, <1>5, <3>2, <4>1, WatchedSame
    <3> QED
      BY <3>1, <3>2
  <2>2. TimerIsSet'
    BY <1>1, <1>5 DEF Watching, TimerIsSet
  <2> QED
    BY <2>1, <2>2 DEF Watching
<1>9. SettledWhenRun'
  BY <1>1, <1>2 DEF SettledWhenRun
<1> QED
  BY <1>6, <1>7, <1>8, <1>9 DEF IInv

LEMMA CloseTabKeeps ==
  ASSUME IInv, NEW t \in Tabs, CloseTab(t)
  PROVE  IInv'
<1> DEFINE mine == {t} \cup {c \in Calls : call[c].stage # "idle" /\ call[c].tab = t}
<1>1. TypeOK /\ Pairing /\ Watching /\ SettledWhenRun
  BY DEF IInv
<1>2. /\ open' = open \ {t}
      /\ mem' = [mem EXCEPT ![t] = 0] /\ shown' = [shown EXCEPT ![t] = 0]
      /\ dirty' = [dirty EXCEPT ![t] = FALSE] /\ armed' = [armed EXCEPT ![t] = FALSE]
      /\ leaving' = [leaving EXCEPT ![t] = 0]
      /\ exchange' = [x \in DOMAIN exchange |-> IF x \in mine THEN NoExchange ELSE exchange[x]]
      /\ call' = [c \in Calls |-> IF c \in mine THEN [call[c] EXCEPT !.stage = "settled"]
                                  ELSE call[c]]
      /\ gestures < MaxGestures /\ gestures' = gestures + 1
      /\ UNCHANGED <<serverVars, access, storage, runs, faults>>
  BY DEF CloseTab, Gesture
<1>3. NoExchange \in Exchange /\ 0 \in Held
  BY SessionAssumption DEF NoExchange, Exchange, Held
<1>4. /\ exchange' \in [Clients -> Exchange]
      /\ \A y \in Clients : exchange'[y] \in {NoExchange, exchange[y]}
      /\ \A u \in Tabs \ {t} : exchange'[u] = exchange[u]
  BY <1>1, <1>2, <1>3, SessionAssumption DEF TypeOK, Exchange, Clients
<1>5. /\ call' \in [Calls -> Call]
      /\ \A c \in Calls : call'[c].stage = "settled" \/ call'[c] = call[c]
  <2>1. ASSUME NEW c \in Calls
        PROVE  /\ call[c] \in Call /\ [call[c] EXCEPT !.stage = "settled"] \in Call
               /\ [call[c] EXCEPT !.stage = "settled"].stage = "settled"
    <3>1. call[c] \in Call
      BY <1>1 DEF TypeOK, Call
    <3> QED
      BY <3>1 DEF Call
  <2> HIDE DEF mine
  <2> QED
    BY <1>2, <2>1
<1>6. /\ mem' \in [Tabs -> Held] /\ shown' \in [Tabs -> Held] /\ leaving' \in [Tabs -> Held]
      /\ dirty' \in [Tabs -> BOOLEAN] /\ armed' \in [Tabs -> BOOLEAN]
      /\ mem'[t] = 0 /\ shown'[t] = 0 /\ ~armed'[t]
      /\ \A u \in Tabs \ {t} : /\ mem'[u] = mem[u] /\ shown'[u] = shown[u]
                               /\ dirty'[u] = dirty[u] /\ armed'[u] = armed[u]
  BY <1>1, <1>2, <1>3 DEF TypeOK
<1> HIDE DEF mine
<1>7. TypeOK'
  BY <1>1, <1>2, <1>4, <1>5, <1>6, SessionAssumption
     DEF TypeOK, serverVars, Exchange, Call, Clients
<1>8. Pairing'
  <2>1. \A y \in Clients : Quiet(y)
    BY <1>4, QuietSame, QuietIdle
  <2>2. \A u \in Tabs : mem'[u] \in Taken /\ shown'[u] \in Taken
    BY <1>6, TakenHolds
  <2> QED
    BY <1>1, <1>2, <2>1, <2>2, TakenHolds, QuietKeeps
<1>9. Watching'
  <2>1. ASSUME NEW u \in open' PROVE Watched(u)'
    <3>1. u \in Tabs \ {t} /\ Watched(u)
      BY <1>1, <1>2 DEF TypeOK, Watching
    <3> QED
      BY <1>4, <1>6, <3>1, WatchedSame
  <2>2. TimerIsSet'
    BY <1>1, <1>6 DEF Watching, TimerIsSet
  <2> QED
    BY <2>1, <2>2 DEF Watching
<1>10. SettledWhenRun'
  BY <1>1, <1>2, <1>5 DEF SettledWhenRun
<1> QED
  BY <1>7, <1>8, <1>9, <1>10 DEF IInv

LEMMA EffectsKeeps ==
  ASSUME IInv, NEW t \in Tabs, Effects(t)
  PROVE  IInv'
<1> DEFINE new  == mem[t] # shown[t]
           soon == new /\ mem[t] # 0 /\ access[mem[t]] # "fresh"
<1>1. TypeOK /\ Pairing /\ Watching /\ SettledWhenRun
  BY DEF IInv
<1>2. /\ dirty' = [dirty EXCEPT ![t] = FALSE] /\ shown' = [shown EXCEPT ![t] = mem[t]]
      /\ storage' = mem[t]
      /\ armed' = [armed EXCEPT ![t] = IF new THEN mem[t] # 0 /\ ~soon ELSE armed[t]]
      /\ exchange' = IF soon THEN Refreshed(t, mem[t]) ELSE exchange
      /\ UNCHANGED <<serverVars, access, open, mem, call, leaving, runs, faults, gestures>>
  BY <1>1 DEF Effects, StorageEffect, TimerEffect, TypeOK
<1>3. mem[t] \in Held
  BY <1>1 DEF TypeOK
<1>4. /\ exchange' \in [Clients -> Exchange]
      /\ \A y \in Clients \ {t} : exchange'[y] = exchange[y]
      /\ soon => exchange'[t].stage # "idle"
      /\ \/ exchange'[t] = exchange[t]
         \/ exchange'[t] = [stage |-> "sent", token |-> mem[t], pair |-> 0]
  <2>1. CASE soon
    BY <1>1, <1>2, <1>3, <2>1, RefreshedSet
  <2>2. CASE ~soon
    BY <1>1, <1>2, <2>2 DEF TypeOK, Exchange, Clients
  <2> QED
    BY <2>1, <2>2
<1>5. /\ shown' \in [Tabs -> Held] /\ dirty' \in [Tabs -> BOOLEAN] /\ shown'[t] = mem[t] /\ ~dirty'[t]
      /\ \A u \in Tabs \ {t} : /\ shown'[u] = shown[u] /\ dirty'[u] = dirty[u]
                               /\ armed'[u] = armed[u]
  BY <1>1, <1>2, <1>3 DEF TypeOK
<1>6. armed' \in [Tabs -> BOOLEAN] /\ (armed'[t] <=> IF new THEN mem[t] # 0 /\ ~soon ELSE armed[t])
  <2>1. (IF new THEN mem[t] # 0 /\ ~soon ELSE armed[t]) \in BOOLEAN
    BY <1>1 DEF TypeOK
  <2> HIDE DEF new, soon
  <2> QED
    BY <1>1, <1>2, <2>1 DEF TypeOK
<1>7. TypeOK'
  BY <1>1, <1>2, <1>3, <1>4, <1>5, <1>6 DEF TypeOK, serverVars, Exchange, Clients
<1>8. Pairing'
  <2>1. \A y \in Clients : Quiet(y)
    BY <1>4, TakenHolds, QuietSame, QuietSent
  <2>2. \A u \in Tabs : mem'[u] \in Taken /\ shown'[u] \in Taken
    BY <1>2, <1>5, TakenHolds
  <2> QED
    BY <1>1, <1>2, <2>1, <2>2, TakenHolds, QuietKeeps
<1>9. Watching'
  <2>1. ASSUME NEW u \in open' PROVE Watched(u)'
    <3>1. u \in Tabs /\ u \in Clients /\ Watched(u)
      BY <1>1, <1>2 DEF TypeOK, Watching, Clients
    <3>2. CASE u = t
      <4>1. exchange[t].stage # "idle" => exchange'[t].stage # "idle"
        BY <1>4
      <4>2. mem'[t] = mem[t]
        BY <1>2
      <4>3. mem[t] # 0 => armed'[t] \/ exchange'[t].stage # "idle"
        BY <1>4, <1>6, <3>1, <3>2, <4>1 DEF Watched
      <4> QED
        BY <1>5, <3>2, <4>2, <4>3 DEF Watched
    <3>3. CASE u # t
      BY <1>2, <1>4, <1>5, <3>1, <3>3, WatchedSame
    <3> QED
      BY <3>2, <3>3
  <2>2. TimerIsSet'
    <3>1. armed'[t] => mem[t] # 0
      BY <1>1, <1>6 DEF Watching, TimerIsSet
    <3> QED
      BY <1>1, <1>5, <3>1 DEF Watching, TimerIsSet
  <2> QED
    BY <2>1, <2>2 DEF Watching
<1>10. SettledWhenRun'
  BY <1>1, <1>2 DEF SettledWhenRun
<1> QED
  BY <1>7, <1>8, <1>9, <1>10 DEF IInv

\* A tab that refreshes with tokens it has seen.
LEMMA RefreshKeeps ==
  ASSUME IInv, NEW t \in Tabs, shown[t] # 0, exchange' = Refreshed(t, shown[t]),
         armed' = [armed EXCEPT ![t] = FALSE] \/ armed' = armed,
         gestures' \in 0 .. MaxGestures,
         UNCHANGED <<serverVars, access, storage, open, mem, shown, dirty, call, leaving, runs, faults>>
  PROVE  IInv'
<1>1. TypeOK /\ Pairing /\ Watching /\ SettledWhenRun
  BY DEF IInv
<1>2. shown[t] \in Held /\ shown[t] \in Taken
  BY <1>1, TakenHolds DEF TypeOK
<1>3. /\ exchange' \in [Clients -> Exchange]
      /\ \A y \in Clients \ {t} : exchange'[y] = exchange[y]
      /\ exchange'[t].stage # "idle"
      /\ \/ exchange'[t] = exchange[t]
         \/ exchange'[t] = [stage |-> "sent", token |-> shown[t], pair |-> 0]
  BY <1>1, <1>2, RefreshedSet
<1>4. /\ armed' \in [Tabs -> BOOLEAN] /\ (armed'[t] => armed[t])
      /\ \A u \in Tabs \ {t} : armed'[u] = armed[u]
  BY <1>1 DEF TypeOK
<1>5. TypeOK'
  BY <1>1, <1>3, <1>4 DEF TypeOK, serverVars, Exchange, Clients
<1>6. Pairing'
  <2>1. \A y \in Clients : Quiet(y)
    BY <1>2, <1>3, QuietSame, QuietSent
  <2> QED
    BY <1>1, <2>1, TakenHolds, QuietKeeps
<1>7. Watching'
  <2>1. ASSUME NEW u \in open' PROVE Watched(u)'
    <3>1. u \in Tabs /\ u \in Clients /\ Watched(u)
      BY <1>1 DEF TypeOK, Watching, Clients
    <3>2. CASE u = t
      BY <1>3, <3>1, <3>2 DEF Watched
    <3>3. CASE u # t
      BY <1>3, <1>4, <3>1, <3>3, WatchedSame
    <3> QED
      BY <3>2, <3>3
  <2>2. TimerIsSet'
    BY <1>1, <1>4 DEF Watching, TimerIsSet
  <2> QED
    BY <2>1, <2>2 DEF Watching
<1>8. SettledWhenRun'
  BY <1>1 DEF SettledWhenRun
<1> QED
  BY <1>5, <1>6, <1>7, <1>8 DEF IInv

LEMMA TimerFiresKeeps ==
  ASSUME IInv, NEW t \in Tabs, TimerFires(t)
  PROVE  IInv'
<1>1. shown[t] # 0 /\ gestures \in 0 .. MaxGestures
  BY DEF IInv, TypeOK, Watching, TimerIsSet, TimerFires
<1> QED
  BY <1>1, RefreshKeeps DEF TimerFires

LEMMA FocusKeeps ==
  ASSUME IInv, NEW t \in Tabs, Focus(t)
  PROVE  IInv'
<1>1. gestures' \in 0 .. MaxGestures
  BY SessionAssumption DEF IInv, TypeOK, Focus, Gesture
<1> QED
  BY <1>1, RefreshKeeps DEF Focus, tabVars

\* What a step that sets the session of one tab leaves alone.
LEMMA WatchingSet ==
  ASSUME TypeOK, Watching, NEW t \in Tabs, NEW p \in Held, SetSession(t, p), p = 0 \/ p # shown[t],
         UNCHANGED <<open, shown, armed>>,
         \A u \in Tabs \ {t} : exchange[u].stage # "idle" => exchange'[u].stage # "idle"
  PROVE  Watching'
<1>1. /\ mem'[t] = p /\ dirty'[t] = TRUE
      /\ \A u \in Tabs \ {t} : mem'[u] = mem[u] /\ dirty'[u] = dirty[u]
  BY SessionSet
<1>2. ASSUME NEW u \in open PROVE Watched(u)'
  <2>1. u \in Tabs /\ Watched(u)
    BY DEF TypeOK, Watching
  <2>2. CASE u = t
    BY <1>1, <2>2, WatchedSet
  <2>3. CASE u # t
    BY <1>1, <2>1, <2>3, WatchedSame
  <2> QED
    BY <2>2, <2>3
<1> QED
  BY <1>2 DEF Watching, TimerIsSet

LEMMA RefreshAnsweredKeeps ==
  ASSUME IInv, NEW t \in Tabs, RefreshAnswered(t)
  PROVE  IInv'
<1> DEFINE p == IF exchange[t].stage = "ok" THEN exchange[t].pair ELSE 0
<1>1. TypeOK /\ Pairing /\ Watching /\ SettledWhenRun
  BY DEF IInv
<1>2. /\ SetSession(t, p) /\ exchange' = [exchange EXCEPT ![t] = NoExchange]
      /\ UNCHANGED <<serverVars, access, storage, open, shown, armed, call, leaving, runs,
                     faults, gestures>>
  BY DEF RefreshAnswered
<1>3. NoExchange \in Exchange /\ t \in Clients
  BY SessionAssumption DEF NoExchange, Exchange, Held, Clients
<1>4. /\ exchange' \in [Clients -> Exchange] /\ exchange'[t] = NoExchange
      /\ \A y \in Clients \ {t} : exchange'[y] = exchange[y]
  BY <1>1, <1>2, <1>3, ExchangeSet
<1>5. p \in Held /\ (exchange[t].stage # "ok" => p = 0) /\ (exchange[t].stage = "ok" => p = exchange[t].pair)
  BY <1>1, SessionAssumption DEF TypeOK, Held
<1> HIDE DEF p
<1>6. /\ mem' \in [Tabs -> Held] /\ dirty' \in [Tabs -> BOOLEAN] /\ mem'[t] = p
      /\ \A u \in Tabs \ {t} : mem'[u] = mem[u]
  BY <1>1, <1>2, <1>5, SessionSet
<1>7. TypeOK'
  BY <1>1, <1>2, <1>4, <1>6 DEF TypeOK, serverVars, Exchange, Clients
<1>8. Pairing'
  <2>1. CASE exchange[t].stage = "ok"
    <3>1. Taken' \subseteq Taken \cup {exchange[t].pair}
      BY <1>2, <1>5, <1>6, <2>1, TakenPut
    <3> QED
      BY <1>1, <1>2, <1>3, <1>4, <2>1, <3>1, PairingTaken DEF serverVars
  <2>2. CASE exchange[t].stage # "ok"
    <3>1. \A y \in Clients : Quiet(y)
      BY <1>4, QuietSame, QuietIdle
    <3>2. \A u \in Tabs : mem'[u] \in Taken /\ shown'[u] \in Taken
      BY <1>2, <1>5, <1>6, <2>2, TakenHolds
    <3> QED
      BY <1>1, <1>2, <3>1, <3>2, TakenHolds, QuietKeeps
  <2> QED
    BY <2>1, <2>2
<1>9. Watching'
  <2>1. p = 0 \/ p # shown[t]
    BY <1>1, <1>3, <1>5, TakenHolds DEF Pairing, AnswersAreNew
  <2>2. \A u \in Tabs \ {t} : exchange'[u] = exchange[u]
    BY <1>4 DEF Clients
  <2> QED
    BY <1>1, <1>2, <1>5, <2>1, <2>2, WatchingSet
<1>10. SettledWhenRun'
  BY <1>1, <1>2 DEF SettledWhenRun
<1> QED
  BY <1>7, <1>8, <1>9, <1>10 DEF IInv

LEMMA LoginKeeps ==
  ASSUME IInv, NEW t \in Tabs, Login(t)
  PROVE  IInv'
<1>1. TypeOK /\ Pairing /\ Watching /\ SettledWhenRun
  BY DEF IInv
<1>2. /\ IssuePair(0, t) /\ SetSession(t, issued') /\ gestures < MaxGestures /\ gestures' = gestures + 1
      /\ UNCHANGED <<access, storage, open, shown, armed, exchange, call, leaving, runs, faults>>
  BY DEF Login, Gesture
<1>3. 0 \in Known /\ t \in Clients
  BY <1>1, TakenHolds DEF Pairing, HeldIsIssued, Clients
<1>4. /\ issued' \in Pairs /\ issued' \notin Known /\ Known \subseteq Known'
      /\ issued' \in Known' /\ issued' # 0
      /\ refresh' \in [Pairs -> {"unissued", "live", "revoked"}]
      /\ origin' \in [Pairs -> [token : Held, by : Clients]]
  BY <1>1, <1>2, <1>3, IssuedPair
<1>5. issued' \in Held
  BY <1>4 DEF Pairs, Held
<1>6. /\ mem' \in [Tabs -> Held] /\ dirty' \in [Tabs -> BOOLEAN] /\ mem'[t] = issued'
      /\ \A u \in Tabs \ {t} : mem'[u] = mem[u]
  BY <1>1, <1>2, <1>5, SessionSet
<1>7. TypeOK'
  BY <1>1, <1>2, <1>4, <1>6, SessionAssumption DEF TypeOK, Clients
<1>8. Pairing'
  <2>1. Taken' \subseteq Taken \cup {issued'}
    BY <1>2, <1>6, TakenPut
  <2>2. Rotated' /\ OneSuccessorEach' /\ \A p \in Pairs : (origin[p].token \in Known)'
    BY <1>1, <1>2, <1>3, IssuedRotates
  <2>3. HeldIsIssued'
    BY <1>1, <1>2, <1>4, <2>1, <2>2 DEF Pairing, HeldIsIssued
  <2>4. AnswersAreNew'
    <3>1. \A y \in Clients : exchange[y].pair # issued'
      BY <1>1, <1>4 DEF Pairing, HeldIsIssued
    <3> QED
      BY <1>1, <1>2, <2>1, <3>1 DEF Pairing, AnswersAreNew
  <2> QED
    BY <2>2, <2>3, <2>4 DEF Pairing
<1>9. Watching'
  <2>1. issued' # shown[t]
    BY <1>1, <1>4, TakenHolds DEF Pairing, HeldIsIssued
  <2> QED
    BY <1>1, <1>2, <1>5, <2>1, WatchingSet
<1>10. SettledWhenRun'
  BY <1>1, <1>2 DEF SettledWhenRun
<1> QED
  BY <1>7, <1>8, <1>9, <1>10 DEF IInv

LEMMA LogoutKeeps ==
  ASSUME IInv, NEW t \in Tabs, Logout(t)
  PROVE  IInv'
<1>1. TypeOK /\ Pairing /\ Watching /\ SettledWhenRun
  BY DEF IInv
<1>2. /\ leaving' = [leaving EXCEPT ![t] = shown[t]] /\ gestures < MaxGestures /\ gestures' = gestures + 1
      /\ UNCHANGED <<issued, refresh, origin, access, storage, open, mem, shown, dirty, armed,
                     exchange, call, runs, faults>>
  BY DEF Logout, Gesture, serverVars, tabVars
<1>3. leaving' \in [Tabs -> Held]
  BY <1>1, <1>2 DEF TypeOK
<1>4. TypeOK'
  BY <1>1, <1>2, <1>3, SessionAssumption DEF TypeOK
<1>5. Pairing' /\ Watching' /\ SettledWhenRun'
  BY <1>1, <1>2 DEF Pairing, HeldIsIssued, Taken, Known, AnswersAreNew, Rotated,
                    OneSuccessorEach, Watching, TimerIsSet, Watched, SettledWhenRun
<1> QED
  BY <1>4, <1>5 DEF IInv

LEMMA LogoutAnsweredKeeps ==
  ASSUME IInv, NEW t \in Tabs, LogoutAnswered(t)
  PROVE  IInv'
<1>1. TypeOK /\ Pairing /\ Watching /\ SettledWhenRun
  BY DEF IInv
<1>2. /\ leaving' = [leaving EXCEPT ![t] = 0] /\ SetSession(t, 0)
      /\ UNCHANGED <<issued, origin, access, storage, open, shown, armed, exchange, call, runs,
                     gestures>>
  BY DEF LogoutAnswered
<1>3. faults' \in 0 .. MaxFaults
  BY <1>1, SessionAssumption DEF LogoutAnswered, TypeOK
<1>4. /\ refresh' \in [Pairs -> {"unissued", "live", "revoked"}]
      /\ \A p \in Pairs : refresh[p] = "revoked" => refresh'[p] = "revoked"
  BY <1>1 DEF LogoutAnswered, TypeOK
<1>5. 0 \in Held /\ leaving' \in [Tabs -> Held]
  BY <1>1, <1>2, SessionAssumption DEF TypeOK, Held
<1>6. /\ mem' \in [Tabs -> Held] /\ dirty' \in [Tabs -> BOOLEAN] /\ mem'[t] = 0
      /\ \A u \in Tabs \ {t} : mem'[u] = mem[u]
  BY <1>1, <1>2, <1>5, SessionSet
<1>7. TypeOK'
  BY <1>1, <1>2, <1>3, <1>4, <1>5, <1>6 DEF TypeOK
<1>8. Pairing'
  <2>1. \A y \in Clients : Quiet(y)
    BY <1>2, QuietSame
  <2>2. Taken' \subseteq Taken
    BY <1>2, <1>6, TakenPut, TakenHolds
  <2> QED
    BY <1>1, <1>2, <1>4, <2>1, <2>2, PairingKept
<1>9. Watching'
  BY <1>1, <1>2, <1>5, WatchingSet
<1>10. SettledWhenRun'
  BY <1>1, <1>2 DEF SettledWhenRun
<1> QED
  BY <1>7, <1>8, <1>9, <1>10 DEF IInv

-----------------------------------------------------------------------------
(* The requests. *)

\* A step of a request that publishes nothing.
LEMMA CallKeeps ==
  ASSUME IInv, call' \in [Calls -> Call], runs' \in [Calls -> Nat], faults' \in 0 .. MaxFaults,
         SettledWhenRun',
         UNCHANGED <<serverVars, access, storage, open, tabVars, exchange, leaving, gestures>>
  PROVE  IInv'
<1>1. TypeOK /\ Pairing /\ Watching
  BY DEF IInv
<1>2. UNCHANGED <<issued, refresh, origin, access, storage, open, mem, shown, dirty, armed,
                  exchange, leaving, gestures>>
  BY DEF serverVars, tabVars
<1>3. TypeOK'
  BY <1>1, <1>2 DEF TypeOK, Call
<1>4. Pairing' /\ Watching'
  BY <1>1, <1>2 DEF Pairing, HeldIsIssued, Taken, Known, AnswersAreNew, Rotated,
                    OneSuccessorEach, Watching, TimerIsSet, Watched
<1> QED
  BY <1>3, <1>4 DEF IInv

\* A request that is not settled has not been executed: executing and settling it, or
\* either, leaves it executed once at most.
LEMMA SettledKeeps ==
  ASSUME TypeOK, SettledWhenRun, NEW c \in Calls, call[c].stage # "settled",
         Settled(c), runs' = runs \/ Execute(c)
  PROVE  SettledWhenRun' /\ runs' \in [Calls -> Nat] /\ call' \in [Calls -> Call]
<1>1. /\ call' \in [Calls -> Call] /\ call'[c].stage = "settled"
      /\ \A d \in Calls \ {c} : call'[d] = call[d]
  BY DEF TypeOK, Settled, Call
<1>2. runs[c] = 0 /\ runs \in [Calls -> Nat]
  BY DEF SettledWhenRun, TypeOK
<1>3. /\ runs' \in [Calls -> Nat] /\ runs'[c] \in 0 .. 1
      /\ \A d \in Calls \ {c} : runs'[d] = runs[d]
  BY <1>2 DEF Execute
<1>4. ASSUME NEW d \in Calls
      PROVE  runs'[d] \in 0 .. 1 /\ (runs'[d] = 1 => call'[d].stage = "settled")
  BY <1>1, <1>3 DEF SettledWhenRun
<1> QED
  BY <1>1, <1>3, <1>4 DEF SettledWhenRun

\* A request that is under way keeps what is said of the ones that are settled.
LEMMA UnsettledKeeps ==
  ASSUME TypeOK, SettledWhenRun, NEW c \in Calls, call[c].stage # "settled", NEW r \in Call,
         call' = [call EXCEPT ![c] = r], UNCHANGED runs
  PROVE  SettledWhenRun' /\ call' \in [Calls -> Call]
<1>1. call' \in [Calls -> Call] /\ \A d \in Calls \ {c} : call'[d] = call[d]
  BY DEF TypeOK, Call
<1>2. runs[c] # 1
  BY DEF SettledWhenRun
<1> QED
  BY <1>1, <1>2 DEF SettledWhenRun

LEMMA SendCallKeeps ==
  ASSUME IInv, NEW t \in Tabs, NEW c \in Calls, SendCall(t, c)
  PROVE  IInv'
<1> DEFINE r == [stage |-> "sent", tab |-> t, pair |-> shown[t]]
<1>1. TypeOK /\ SettledWhenRun
  BY DEF IInv
<1>2. r \in Call
  BY <1>1 DEF TypeOK, Call
<1>3. /\ call[c].stage # "settled" /\ call' = [call EXCEPT ![c] = r]
      /\ UNCHANGED <<serverVars, access, storage, open, tabVars, exchange, leaving, runs, faults, gestures>>
  BY DEF SendCall
<1>4. runs' \in [Calls -> Nat] /\ faults' \in 0 .. MaxFaults
  BY <1>1, <1>3 DEF TypeOK
<1> HIDE DEF r
<1>5. SettledWhenRun' /\ call' \in [Calls -> Call]
  BY <1>1, <1>2, <1>3, UnsettledKeeps
<1> QED
  BY <1>3, <1>4, <1>5, CallKeeps

LEMMA FirstTryKeeps ==
  ASSUME IInv, NEW c \in Calls, FirstTry(c)
  PROVE  IInv'
<1>1. TypeOK /\ SettledWhenRun
  BY DEF IInv
<1>2. /\ call[c].stage # "settled" /\ Settled(c) /\ (runs' = runs \/ Execute(c))
      /\ UNCHANGED <<serverVars, access, storage, open, tabVars, exchange, leaving, gestures>>
  BY DEF FirstTry
<1>3. SettledWhenRun' /\ runs' \in [Calls -> Nat] /\ call' \in [Calls -> Call]
  BY <1>1, <1>2, SettledKeeps
<1>4. faults' \in 0 .. MaxFaults
  <2>1. CASE Execute(c)
    <3>1. runs[c] \in Nat /\ runs'[c] = runs[c] + 1
      BY <1>1, <2>1 DEF TypeOK, Execute
    <3>2. runs' # runs
      BY <3>1
    <3> QED
      BY <1>1, <3>2 DEF FirstTry, TypeOK
  <2>2. CASE faults < MaxFaults
    BY <1>1, <2>2, SessionAssumption DEF FirstTry, TypeOK
  <2> QED
    BY <2>1, <2>2 DEF FirstTry
<1> QED
  BY <1>2, <1>3, <1>4, CallKeeps

LEMMA SecondTryKeeps ==
  ASSUME IInv, NEW c \in Calls, SecondTry(c)
  PROVE  IInv'
<1>1. TypeOK /\ SettledWhenRun
  BY DEF IInv
<1>2. /\ call[c].stage # "settled" /\ Settled(c) /\ Execute(c)
      /\ UNCHANGED <<serverVars, access, storage, open, tabVars, exchange, leaving, faults, gestures>>
  BY DEF SecondTry
<1>3. SettledWhenRun' /\ runs' \in [Calls -> Nat] /\ call' \in [Calls -> Call]
  BY <1>1, <1>2, SettledKeeps
<1>4. faults' \in 0 .. MaxFaults
  BY <1>1, <1>2 DEF TypeOK
<1> QED
  BY <1>2, <1>3, <1>4, CallKeeps

\* Signing the tab of a request out, in storage too: all of the pairs are known.
LEMMA SignedOutKeeps ==
  ASSUME IInv, NEW t \in Tabs, Publish(t, 0),
         exchange' \in [Clients -> Exchange],
         \A y \in Clients : exchange'[y] \in {exchange[y], NoExchange},
         \A u \in Tabs : exchange'[u] = exchange[u],
         call' \in [Calls -> Call], runs' \in [Calls -> Nat], faults' \in 0 .. MaxFaults,
         SettledWhenRun',
         UNCHANGED <<serverVars, access, open, shown, armed, leaving, gestures>>
  PROVE  IInv'
<1>1. TypeOK /\ Pairing /\ Watching
  BY DEF IInv
<1>2. storage' = 0 /\ SetSession(t, 0)
  BY DEF Publish, SyncFromStorage
<1>3. 0 \in Held
  BY SessionAssumption DEF Held
<1>4. /\ mem' \in [Tabs -> Held] /\ dirty' \in [Tabs -> BOOLEAN] /\ mem'[t] = 0
      /\ \A u \in Tabs \ {t} : mem'[u] = mem[u]
  BY <1>1, <1>2, <1>3, SessionSet
<1>5. TypeOK'
  BY <1>1, <1>2, <1>3, <1>4 DEF TypeOK, serverVars, Call, Exchange, Clients
<1>6. Pairing'
  <2>1. \A y \in Clients : Quiet(y)
    BY QuietSame, QuietIdle
  <2>2. Taken' \subseteq Taken \cup {0}
    BY <1>2, <1>4, TakenPut
  <2>3. Taken' \subseteq Taken
    BY <2>2, TakenHolds
  <2>4. UNCHANGED <<issued, origin>> /\ refresh' = refresh
    BY DEF serverVars
  <2> QED
    BY <1>1, <2>1, <2>3, <2>4, PairingKept
<1>7. Watching'
  BY <1>1, <1>2, <1>3, WatchingSet
<1> QED
  BY <1>5, <1>6, <1>7 DEF IInv

LEMMA UnauthorizedKeeps ==
  ASSUME IInv, NEW c \in Calls, Unauthorized(c)
  PROVE  IInv'
<1>1. TypeOK /\ Pairing /\ Watching /\ SettledWhenRun
  BY DEF IInv
<1>2. /\ call[c].stage = "sent"
      /\ UNCHANGED <<serverVars, access, open, shown, armed, leaving, runs, faults, gestures>>
  BY DEF Unauthorized
<1>3. call[c] \in Call /\ call[c].tab \in Tabs
  BY <1>1 DEF TypeOK, Call
<1>4. runs' \in [Calls -> Nat] /\ faults' \in 0 .. MaxFaults
  BY <1>1, <1>2 DEF TypeOK
<1>5. CASE storage # 0
  <2> DEFINE e == [stage |-> "sent", token |-> storage, pair |-> 0]
             r == [call[c] EXCEPT !.stage = "refreshing"]
  <2>1. /\ exchange' = [exchange EXCEPT ![c] = e]
        /\ call' = [call EXCEPT ![c].stage = "refreshing"]
        /\ UNCHANGED <<storage, mem, dirty>>
    BY <1>5 DEF Unauthorized
  <2>2. e \in Exchange /\ r \in Call /\ c \in Clients
    <3>1. storage \in Held /\ 0 \in Held
      BY <1>1, SessionAssumption DEF TypeOK, Held
    <3>2. e \in Exchange
      BY <3>1 DEF Exchange
    <3>3. r \in Call
      BY <1>3 DEF Call
    <3> QED
      BY <3>2, <3>3 DEF Clients
  <2>3. call' = [call EXCEPT ![c] = r]
    BY <2>1
  <2>4. /\ exchange' \in [Clients -> Exchange] /\ exchange'[c] = e
        /\ \A y \in Clients \ {c} : exchange'[y] = exchange[y]
    <3> HIDE DEF e, r
    <3> QED
      BY <1>1, <2>1, <2>2, ExchangeSet
  <2>5. SettledWhenRun' /\ call' \in [Calls -> Call]
    <3> HIDE DEF e, r
    <3>1. call[c].stage # "settled"
      BY <1>2
    <3> QED
      BY <1>1, <1>2, <2>2, <2>3, <3>1, UnsettledKeeps
  <2>6. TypeOK'
    BY <1>1, <1>2, <1>4, <2>1, <2>4, <2>5 DEF TypeOK, serverVars, Exchange, Call, Clients
  <2>7. Pairing'
    <3>1. \A y \in Clients : Quiet(y)
      BY <2>4, TakenHolds, QuietSame, QuietSent
    <3> QED
      BY <1>1, <1>2, <2>1, <3>1, TakenHolds, QuietKeeps
  <2>8. Watching'
    <3>1. ASSUME NEW u \in open PROVE Watched(u)'
      <4>1. u \in Clients /\ u # c /\ Watched(u)
        BY <1>1, SessionAssumption DEF TypeOK, Watching, Clients
      <4> QED
        BY <1>2, <2>1, <2>4, <4>1, WatchedSame
    <3> QED
      BY <1>1, <1>2, <3>1 DEF Watching, TimerIsSet
  <2> QED
    BY <2>5, <2>6, <2>7, <2>8 DEF IInv
<1>6. CASE storage = 0
  <2>1. Publish(call[c].tab, 0) /\ Settled(c) /\ UNCHANGED exchange
    BY <1>6 DEF Unauthorized
  <2>2. SettledWhenRun' /\ call' \in [Calls -> Call]
    BY <1>1, <1>2, <2>1, SettledKeeps
  <2>3. exchange' \in [Clients -> Exchange]
    BY <1>1, <2>1 DEF TypeOK, Exchange, Clients
  <2> QED
    BY <1>2, <1>3, <1>4, <2>1, <2>2, <2>3, SignedOutKeeps
<1> QED
  BY <1>5, <1>6

\* The answer to a request's exchange is thrown away with the exchange.
LEMMA ExchangeOver ==
  ASSUME TypeOK, NEW c \in Calls, exchange' = [exchange EXCEPT ![c] = NoExchange]
  PROVE  /\ exchange' \in [Clients -> Exchange] /\ exchange'[c] = NoExchange
         /\ \A y \in Clients \ {c} : exchange'[y] = exchange[y]
         /\ \A u \in Tabs : exchange'[u] = exchange[u]
<1>1. NoExchange \in Exchange /\ c \in Clients
  BY SessionAssumption DEF NoExchange, Exchange, Held, Clients
<1>2. /\ exchange' \in [Clients -> Exchange] /\ exchange'[c] = NoExchange
      /\ \A y \in Clients \ {c} : exchange'[y] = exchange[y]
  BY <1>1, ExchangeSet
<1>3. \A u \in Tabs : u \in Clients \ {c}
  BY SessionAssumption DEF Clients
<1> QED
  BY <1>2, <1>3

LEMMA RefreshRefusedKeeps ==
  ASSUME IInv, NEW c \in Calls, RefreshRefused(c)
  PROVE  IInv'
<1>1. TypeOK /\ SettledWhenRun
  BY DEF IInv
<1>2. /\ call[c].stage # "settled" /\ Publish(call[c].tab, 0) /\ Settled(c)
      /\ exchange' = [exchange EXCEPT ![c] = NoExchange]
      /\ UNCHANGED <<serverVars, access, open, shown, armed, leaving, runs, faults, gestures>>
  BY DEF RefreshRefused
<1>3. call[c].tab \in Tabs /\ runs' \in [Calls -> Nat] /\ faults' \in 0 .. MaxFaults
  BY <1>1, <1>2 DEF TypeOK
<1>4. SettledWhenRun' /\ call' \in [Calls -> Call]
  BY <1>1, <1>2, SettledKeeps
<1>5. /\ exchange' \in [Clients -> Exchange] /\ exchange'[c] = NoExchange
      /\ \A y \in Clients \ {c} : exchange'[y] = exchange[y]
      /\ \A u \in Tabs : exchange'[u] = exchange[u]
  BY <1>1, <1>2, ExchangeOver
<1> QED
  BY <1>2, <1>3, <1>4, <1>5, SignedOutKeeps

LEMMA SecondTryFailsKeeps ==
  ASSUME IInv, NEW c \in Calls, SecondTryFails(c)
  PROVE  IInv'
<1>1. TypeOK /\ SettledWhenRun
  BY DEF IInv
<1>2. /\ call[c].stage # "settled" /\ Publish(call[c].tab, 0) /\ Settled(c)
      /\ runs' = runs \/ Execute(c)
      /\ UNCHANGED <<serverVars, access, open, shown, armed, exchange, leaving, gestures>>
  BY DEF SecondTryFails
<1>3. faults' \in 0 .. MaxFaults
  BY <1>1, SessionAssumption DEF TypeOK, SecondTryFails
<1>4. SettledWhenRun' /\ runs' \in [Calls -> Nat] /\ call' \in [Calls -> Call]
  BY <1>1, <1>2, SettledKeeps
<1>5. call[c].tab \in Tabs /\ exchange' \in [Clients -> Exchange]
  BY <1>1, <1>2 DEF TypeOK, Exchange, Clients
<1> QED
  BY <1>2, <1>3, <1>4, <1>5, SignedOutKeeps

LEMMA RetryKeeps ==
  ASSUME IInv, NEW c \in Calls, Retry(c)
  PROVE  IInv'
<1> DEFINE t == call[c].tab
           p == exchange[c].pair
           r == [call[c] EXCEPT !.stage = "retried", !.pair = p]
<1>1. TypeOK /\ Pairing /\ Watching /\ SettledWhenRun
  BY DEF IInv
<1>2. /\ call[c].stage = "refreshing" /\ exchange[c].stage = "ok"
      /\ storage' = p /\ SetSession(t, p)
      /\ call' = [call EXCEPT ![c].stage = "retried", ![c].pair = p]
      /\ exchange' = [exchange EXCEPT ![c] = NoExchange]
      /\ UNCHANGED <<serverVars, access, open, shown, armed, leaving, runs, faults, gestures>>
  BY DEF Retry, Publish, SyncFromStorage
<1>3. call[c] \in Call /\ t \in Tabs /\ p \in Held /\ c \in Clients
  BY <1>1 DEF TypeOK, Call, Clients
<1>4. r \in Call /\ call' = [call EXCEPT ![c] = r]
  BY <1>1, <1>2, <1>3 DEF Call, TypeOK
<1>5. /\ exchange' \in [Clients -> Exchange] /\ exchange'[c] = NoExchange
      /\ \A y \in Clients \ {c} : exchange'[y] = exchange[y]
      /\ \A u \in Tabs : exchange'[u] = exchange[u]
  BY <1>1, <1>2, ExchangeOver
<1>6. exchange[c].pair = p
  OBVIOUS
<1> HIDE DEF t, p, r
<1>7. SettledWhenRun' /\ call' \in [Calls -> Call]
  <2>1. call[c].stage # "settled"
    BY <1>2
  <2> QED
    BY <1>1, <1>2, <1>4, <2>1, UnsettledKeeps
<1>8. /\ mem' \in [Tabs -> Held] /\ dirty' \in [Tabs -> BOOLEAN] /\ mem'[t] = p
      /\ \A u \in Tabs \ {t} : mem'[u] = mem[u]
  BY <1>1, <1>2, <1>3, SessionSet
<1>9. TypeOK'
  BY <1>1, <1>2, <1>3, <1>5, <1>7, <1>8 DEF TypeOK, serverVars, Call, Exchange, Clients
<1>10. Pairing'
  <2>1. Taken' \subseteq Taken \cup {exchange[c].pair}
    BY <1>2, <1>3, <1>6, <1>8, TakenPut
  <2> QED
    BY <1>1, <1>2, <1>3, <1>5, <2>1, PairingTaken DEF serverVars
<1>11. Watching'
  <2>1. p # shown[t]
    BY <1>1, <1>2, <1>3, <1>6, TakenHolds DEF Pairing, AnswersAreNew
  <2> QED
    BY <1>1, <1>2, <1>3, <1>5, <2>1, WatchingSet
<1> QED
  BY <1>7, <1>9, <1>10, <1>11 DEF IInv

-----------------------------------------------------------------------------
(* The theorems. *)

LEMMA InitIInv == Init => IInv
<1> SUFFICES ASSUME Init PROVE IInv
  OBVIOUS
<1> DEFINE anyone == CHOOSE t \in Tabs : TRUE
<1>1. anyone \in Tabs
  <2>1. \E t \in Tabs : TRUE
    BY DEF Init
  <2> QED
    BY <2>1
<1>2. /\ NoOrigin = [token |-> 0, by |-> anyone]
      /\ NoCall = [stage |-> "idle", tab |-> anyone, pair |-> 0]
  BY DEF NoOrigin, NoCall
<1> HIDE DEF anyone
<1>3. 1 \in Pairs /\ 0 \in Held /\ 1 \in Held
  BY SessionAssumption DEF Pairs, Held
<1>4. /\ NoOrigin \in [token : Held, by : Clients] /\ NoOrigin.token = 0
      /\ NoCall \in Call
      /\ NoExchange \in Exchange /\ NoExchange.stage = "idle"
      /\ NoExchange.token = 0 /\ NoExchange.pair = 0
  BY <1>1, <1>2, <1>3 DEF Clients, Call, NoExchange, Exchange
<1>5. TypeOK
  BY <1>3, <1>4, SessionAssumption DEF Init, TypeOK, Clients, Call, Exchange
<1>6. Pairing
  <2>1. Taken \subseteq {0, 1}
    BY DEF Init, Taken
  <2>2. \A x \in Clients : exchange[x] = NoExchange
    BY DEF Init, Clients
  <2>3. \A p \in Pairs : origin[p] = NoOrigin
    BY DEF Init
  <2>4. Known = {0, 1} /\ \A p \in 1 .. issued : p \in Pairs
    BY <1>3 DEF Init, Known
  <2>5. HeldIsIssued
    BY <1>4, <2>1, <2>2, <2>3, <2>4 DEF HeldIsIssued
  <2>6. AnswersAreNew
    BY <1>4, <2>2 DEF AnswersAreNew
  <2>7. Rotated
    BY <1>4, <2>2, <2>3 DEF Rotated
  <2>8. OneSuccessorEach
    BY <1>4, <2>3, <2>4 DEF OneSuccessorEach
  <2> QED
    BY <2>5, <2>6, <2>7, <2>8 DEF Pairing
<1>7. Watching
  <2>1. open \subseteq Tabs
    BY DEF Init
  <2>2. \A t \in Tabs : armed[t] = (t \in open)
    BY DEF Init
  <2>3. \A t \in Tabs : mem[t] = (IF t \in open THEN 1 ELSE 0) /\ shown[t] = mem[t]
    BY DEF Init
  <2>4. TimerIsSet
    <3>1. ASSUME NEW t \in Tabs, armed[t] PROVE shown[t] # 0
      <4>1. t \in open
        BY <2>2, <3>1
      <4>2. mem[t] = 1 /\ shown[t] = mem[t]
        BY <2>3, <4>1
      <4> QED
        BY <4>2
    <3> QED
      BY <3>1 DEF TimerIsSet
  <2>5. \A t \in open : armed[t] /\ shown[t] = mem[t]
    BY <2>1, <2>2, <2>3
  <2> QED
    BY <2>4, <2>5 DEF Watching, Watched
<1>8. SettledWhenRun
  BY DEF Init, SettledWhenRun
<1> QED
  BY <1>5, <1>6, <1>7, <1>8 DEF IInv

LEMMA StutterKeeps ==
  ASSUME IInv, UNCHANGED vars
  PROVE  IInv'
BY DEF vars, IInv, TypeOK, Pairing, HeldIsIssued, Taken, Known, AnswersAreNew, Rotated,
       OneSuccessorEach, Watching, TimerIsSet, Watched, SettledWhenRun

LEMMA NextKeeps == IInv /\ [Next]_vars => IInv'
<1> SUFFICES ASSUME IInv, [Next]_vars PROVE IInv'
  OBVIOUS
<1>1. CASE System
  <2>1. ASSUME NEW x \in Tabs \cup Calls, ServerStep(x) PROVE IInv'
    BY <2>1, CheckTokenKeeps, IssueTokenKeeps DEF ServerStep, Clients
  <2>2. ASSUME NEW t \in Tabs, Effects(t) \/ TimerFires(t) \/ RefreshAnswered(t) \/ LogoutAnswered(t)
        PROVE  IInv'
    BY <2>2, EffectsKeeps, TimerFiresKeeps, RefreshAnsweredKeeps, LogoutAnsweredKeeps
  <2>3. ASSUME NEW c \in Calls, CallStep(c) PROVE IInv'
    BY <2>3, FirstTryKeeps, UnauthorizedKeeps, RetryKeeps, RefreshRefusedKeeps, SecondTryKeeps,
       SecondTryFailsKeeps DEF CallStep
  <2> QED
    BY <1>1, <2>1, <2>2, <2>3 DEF System
<1>2. ASSUME NEW x \in Tabs \cup Calls, ExchangeFails(x) PROVE IInv'
  BY <1>2, ExchangeFailsKeeps DEF Clients
<1>3. ASSUME NEW p \in Pairs, Age(p) PROVE IInv'
  BY <1>3, AgeKeeps
<1>4. CASE User
  <2>1. ASSUME NEW t \in Tabs, OpenTab(t) \/ CloseTab(t) \/ Focus(t) \/ Login(t) \/ Logout(t)
        PROVE  IInv'
    BY <2>1, OpenTabKeeps, CloseTabKeeps, FocusKeeps, LoginKeeps, LogoutKeeps
  <2>2. ASSUME NEW t \in Tabs, NEW c \in Calls, SendCall(t, c) PROVE IInv'
    BY <2>2, SendCallKeeps
  <2> QED
    BY <1>4, <2>1, <2>2 DEF User
<1>5. CASE UNCHANGED vars
  BY <1>5, StutterKeeps
<1> QED
  BY <1>1, <1>2, <1>3, <1>4, <1>5 DEF Next

\* In every behaviour of the tabs, the requests and the server the inductive invariant
\* holds: pairs that are held have been issued, answers carry new pairs, rotated tokens
\* are revoked, tabs with a session are watched, and executed requests are settled.
THEOREM SessionsAlwaysCoherent == Spec => []IInv
<1>1. Init => IInv
  BY InitIInv
<1>2. IInv /\ [Next]_vars => IInv'
  BY NextKeeps
<1> QED
  BY <1>1, <1>2, PTL DEF Spec

\* The variables always have their types.
THEOREM TypeCorrect == Spec => []TypeOK
<1>1. IInv => TypeOK
  BY DEF IInv
<1> QED
  BY <1>1, SessionsAlwaysCoherent, PTL

\* The server executes a request at most once, whatever is retried: request() of api.ts
\* sends it again only after a 401.
THEOREM AlwaysExecutedOnce == Spec => []ExecutedOnce
<1>1. IInv => ExecutedOnce
  BY DEF IInv, SettledWhenRun, ExecutedOnce
<1> QED
  BY <1>1, SessionsAlwaysCoherent, PTL

\* An open tab with a session has its timer set, a refresh under way or effects to run:
\* the callbacks of auth-context.tsx and api.ts leave no session to expire unseen.
THEOREM TabIsAlwaysWatched == Spec => []TabIsWatched
<1>1. IInv => TabIsWatched
  BY DEF IInv, Watching, Watched, TabIsWatched
<1> QED
  BY <1>1, SessionsAlwaysCoherent, PTL

\* No client gets two pairs for one refresh token, although refresh_token_pair locks
\* nothing between looking at the token and revoking it.
THEOREM AlwaysOneSuccessorEach == Spec => []OneSuccessorEach
<1>1. IInv => OneSuccessorEach
  BY DEF IInv, Pairing
<1> QED
  BY <1>1, SessionsAlwaysCoherent, PTL

-----------------------------------------------------------------------------
(* The links that set a password, for any number of tabs, passwords, links, forms and   *)
(* losses: what has found a link unused decides what may yet be set through it.        *)

CONSTANTS LinkTabs, Passwords, NoPassword, MaxLinks, MaxForms, MaxLost
VARIABLES account, links, linkTabs, submitted, lost

Links == INSTANCE PasswordLinks WITH Tabs <- LinkTabs, tabs <- linkTabs

Forms == {"none", "shown", "sent", "found", "refused", "set", "success"}
LinkRow == [purpose : {"invitation", "password_reset"}, used : BOOLEAN, expired : BOOLEAN,
            sets : Nat, met : BOOLEAN]
LinkTab == [link : Nat, password : Passwords \cup {NoPassword}, form : Forms]

LinkTypes ==
  /\ account \in Passwords \cup {NoPassword}
  /\ links \in Seq(LinkRow)
  /\ linkTabs \in [LinkTabs -> LinkTab]
  /\ \A t \in LinkTabs : /\ linkTabs[t].link \in 0 .. Len(links)
                         /\ linkTabs[t].form # "none" => linkTabs[t].link # 0
  /\ submitted \in 0 .. MaxForms
  /\ lost \in Nat

\* The forms that are under way and may yet set a password.
Underway == {t \in LinkTabs : linkTabs[t].form \in {"sent", "found"}}

\* What a link has set, and what forms may yet set, was submitted.
SetsAreSubmitted ==
  /\ IsFiniteSet(Underway) /\ Cardinality(Underway) <= submitted
  /\ \A l \in DOMAIN links : links[l].sets + Cardinality(Underway) <= submitted

\* A link no two requests found unused at a time: one request at most has found it, none
\* once it is used, and it has set nothing before.
Single(l) ==
  /\ \A t, u \in Links!FoundBy(l) : t = u
  /\ links[l].used => Links!FoundBy(l) = {}
  /\ links[l].sets <= 1
  /\ ~links[l].used => links[l].sets = 0

LinksInv ==
  /\ LinkTypes
  /\ SetsAreSubmitted
  /\ \A l \in DOMAIN links : links[l].met \/ Single(l)

LEMMA LinksStart == ASSUME Links!LinksAssumption PROVE Links!Init => LinksInv
<1> SUFFICES ASSUME Links!Init PROVE LinksInv
  OBVIOUS
<1> USE Links!LinksAssumption DEF Links!LinksAssumption, Links!Init
<1>1. links \in Seq(LinkRow) /\ Len(links) = 1 /\ DOMAIN links = {1}
  BY DEF LinkRow
<1>2. LinkTypes
  BY <1>1 DEF LinkTypes, LinkTab, Forms
<1>3. Underway = {}
  BY DEF Underway
<1>4. SetsAreSubmitted
  BY <1>1, <1>3, FS_EmptySet DEF SetsAreSubmitted
<1>5. Single(1)
  BY DEF Single, Links!FoundBy
<1> QED
  BY <1>1, <1>2, <1>4, <1>5 DEF LinksInv

\* A row of a sequence is replaced.
LEMMA RowReplaced ==
  ASSUME NEW S, NEW rows \in Seq(S), NEW k \in DOMAIN rows, NEW row \in S
  PROVE  LET new == [rows EXCEPT ![k] = row]
         IN  /\ new \in Seq(S) /\ Len(new) = Len(rows) /\ DOMAIN new = DOMAIN rows
             /\ new[k] = row
             /\ \A l \in DOMAIN rows : l # k => new[l] = rows[l]
OBVIOUS

LEMMA Counted ==
  ASSUME LinksInv
  PROVE  /\ Cardinality(Underway) \in Nat /\ submitted \in Nat
         /\ Len(links) \in Nat /\ DOMAIN links = 1 .. Len(links)
         /\ \A l \in DOMAIN links : links[l] \in LinkRow /\ links[l].sets \in Nat
<1>1. links \in Seq(LinkRow) /\ IsFiniteSet(Underway) /\ submitted \in 0 .. MaxForms
  BY DEF LinksInv, LinkTypes, SetsAreSubmitted
<1>2. Len(links) \in Nat /\ DOMAIN links = 1 .. Len(links)
      /\ \A l \in DOMAIN links : links[l] \in LinkRow
  BY <1>1
<1> QED
  BY <1>1, <1>2, FS_CardinalityType DEF LinkRow

\* Forms that leave the way, or stay off it, leave less to set.
LEMMA FewerUnderway ==
  ASSUME LinksInv, Underway' \subseteq Underway
  PROVE  IsFiniteSet(Underway)' /\ Cardinality(Underway)' <= Cardinality(Underway)
         /\ Cardinality(Underway)' \in Nat
<1>1. IsFiniteSet(Underway)
  BY DEF LinksInv, SetsAreSubmitted
<1> QED
  BY <1>1, FS_Subset, FS_CardinalityType

\* A link stays single while nothing is set by it and no request finds it.
LEMMA SingleStays ==
  ASSUME NEW l, Single(l), Links!FoundBy(l)' \subseteq Links!FoundBy(l),
         links'[l].used = links[l].used, links'[l].sets = links[l].sets
  PROVE  Single(l)'
BY DEF Single

LEMMA AskForLinkKeeps ==
  ASSUME LinksInv, Links!AskForLink PROVE LinksInv'
<1> DEFINE row == [purpose |-> "password_reset", used |-> FALSE, expired |-> FALSE,
                   sets |-> 0, met |-> FALSE]
<1>1. /\ links' = Append(links, row)
      /\ UNCHANGED <<account, linkTabs, submitted, lost>>
  BY DEF Links!AskForLink
<1>2. row \in LinkRow
  BY DEF LinkRow
<1>3. links \in Seq(LinkRow) /\ Len(links) \in Nat
  BY DEF LinksInv, LinkTypes
<1>4. /\ links' \in Seq(LinkRow) /\ Len(links') = Len(links) + 1
      /\ \A l \in DOMAIN links : l \in DOMAIN links' /\ links'[l] = links[l]
      /\ \A l \in DOMAIN links' : l \in DOMAIN links \/ l = Len(links) + 1
      /\ links'[Len(links) + 1] = row
  <2> HIDE DEF row
  <2> QED BY <1>1, <1>2, <1>3
<1>5. LinkTypes'
  BY <1>1, <1>3, <1>4 DEF LinksInv, LinkTypes
<1>6. Underway' = Underway /\ \A l : Links!FoundBy(l)' = Links!FoundBy(l)
  BY <1>1 DEF Underway, Links!FoundBy
<1>7. SetsAreSubmitted'
  BY <1>1, <1>4, <1>6, Counted DEF LinksInv, SetsAreSubmitted
<1>8. ASSUME NEW l \in DOMAIN links' PROVE links'[l].met \/ Single(l)'
  <2>1. CASE l \in DOMAIN links
    <3>1. links[l].met \/ Single(l)
      BY <2>1 DEF LinksInv
    <3> QED
      BY <1>4, <1>6, <2>1, <3>1, SingleStays
  <2>2. CASE l = Len(links) + 1
    <3>1. Links!FoundBy(l) = {}
      BY <1>3, <2>2 DEF LinksInv, LinkTypes, Links!FoundBy
    <3> QED
      BY <1>4, <1>6, <2>2, <3>1 DEF Single
  <2> QED
    BY <1>4, <1>8, <2>1, <2>2
<1> QED
  BY <1>5, <1>7, <1>8 DEF LinksInv

LEMMA OpenLinkKeeps ==
  ASSUME LinksInv, NEW t \in LinkTabs, NEW k \in DOMAIN links, Links!OpenLink(t, k)
  PROVE  LinksInv'
<1>1. /\ linkTabs[t].form \in {"none", "success"}
      /\ linkTabs' = [linkTabs EXCEPT ![t] = [link |-> k, password |-> NoPassword, form |-> "shown"]]
      /\ UNCHANGED <<account, links, submitted, lost>>
  BY DEF Links!OpenLink
<1>2. LinkTypes'
  BY <1>1 DEF LinksInv, LinkTypes, LinkTab, Forms
<1>3. /\ Underway' \subseteq Underway
      /\ \A l : Links!FoundBy(l)' \subseteq Links!FoundBy(l)
  BY <1>1 DEF Underway, Links!FoundBy, LinksInv, LinkTypes
<1>4. SetsAreSubmitted'
  BY <1>1, <1>3, Counted, FewerUnderway DEF LinksInv, SetsAreSubmitted
<1>5. ASSUME NEW l \in DOMAIN links' PROVE links'[l].met \/ Single(l)'
  BY <1>1, <1>3, <1>5, SingleStays DEF LinksInv
<1> QED
  BY <1>2, <1>4, <1>5 DEF LinksInv

LEMMA SubmitKeeps ==
  ASSUME Links!LinksAssumption, LinksInv, NEW t \in LinkTabs, NEW p \in Passwords,
         Links!Submit(t, p)
  PROVE  LinksInv'
<1>1. /\ linkTabs[t].form = "shown" /\ submitted < MaxForms
      /\ linkTabs' = [linkTabs EXCEPT ![t].password = p, ![t].form = "sent"]
      /\ submitted' = submitted + 1
      /\ UNCHANGED <<account, links, lost>>
  BY DEF Links!Submit
<1>2. LinkTypes'
  BY <1>1 DEF LinksInv, LinkTypes, LinkTab, Forms, Links!LinksAssumption
<1>3. /\ Underway' = Underway \cup {t} /\ t \notin Underway
      /\ \A l : Links!FoundBy(l)' \subseteq Links!FoundBy(l)
  BY <1>1 DEF Underway, Links!FoundBy, LinksInv, LinkTypes, LinkTab
<1>4. SetsAreSubmitted'
  <2>1. IsFiniteSet(Underway)' /\ Cardinality(Underway)' = Cardinality(Underway) + 1
        /\ Cardinality(Underway) \in Nat
    BY <1>3, FS_AddElement, FS_CardinalityType DEF LinksInv, SetsAreSubmitted
  <2> QED
    BY <1>1, <2>1, Counted DEF LinksInv, SetsAreSubmitted
<1>5. ASSUME NEW l \in DOMAIN links' PROVE links'[l].met \/ Single(l)'
  BY <1>1, <1>3, <1>5, SingleStays DEF LinksInv
<1> QED
  BY <1>2, <1>4, <1>5 DEF LinksInv

LEMMA FindLinkKeeps ==
  ASSUME LinksInv, NEW t \in LinkTabs, Links!CheckToken(t)
  PROVE  LinksInv'
<1> DEFINE k == linkTabs[t].link
           unused == ~links[k].used /\ ~links[k].expired
<1>1. /\ linkTabs[t].form = "sent"
      /\ linkTabs' = [linkTabs EXCEPT ![t].form = IF unused THEN "found" ELSE "refused"]
      /\ links' = [links EXCEPT ![k].met = @ \/ (unused /\ Links!FoundBy(k) # {})]
      /\ UNCHANGED <<account, submitted, lost>>
  BY DEF Links!CheckToken
<1>2. k \in DOMAIN links /\ links \in Seq(LinkRow) /\ Len(links) \in Nat
  BY <1>1 DEF LinksInv, LinkTypes, LinkTab
<1>3. /\ links' \in Seq(LinkRow) /\ Len(links') = Len(links) /\ DOMAIN links' = DOMAIN links
      /\ \A l \in DOMAIN links : /\ links'[l].used = links[l].used
                                 /\ links'[l].sets = links[l].sets
                                 /\ links[l].met => links'[l].met
      /\ links'[k].met <=> links[k].met \/ (unused /\ Links!FoundBy(k) # {})
  <2>1. links[k] \in LinkRow
    BY <1>2
  <2> DEFINE row == [links[k] EXCEPT !.met = @ \/ (unused /\ Links!FoundBy(k) # {})]
  <2>2. /\ links' = [links EXCEPT ![k] = row] /\ row \in LinkRow
        /\ row.used = links[k].used /\ row.sets = links[k].sets
        /\ row.met <=> links[k].met \/ (unused /\ Links!FoundBy(k) # {})
    BY <1>1, <2>1 DEF LinkRow
  <2> HIDE DEF k, unused, row
  <2> QED
    BY <1>2, <2>2, RowReplaced
<1>4. LinkTypes'
  <2>1. linkTabs' \in [LinkTabs -> LinkTab]
        /\ \A u \in LinkTabs : /\ linkTabs'[u].link = linkTabs[u].link
                               /\ linkTabs[u].form = "none" => linkTabs'[u].form = "none"
        /\ account' \in Passwords \cup {NoPassword}
    BY <1>1 DEF LinksInv, LinkTypes, LinkTab, Forms
  <2> QED
    BY <1>1, <1>3, <2>1 DEF LinksInv, LinkTypes
<1>5. /\ Underway' \subseteq Underway
      /\ \A l : Links!FoundBy(l)' \subseteq Links!FoundBy(l) \cup {t}
      /\ \A l : l # k \/ ~unused => Links!FoundBy(l)' \subseteq Links!FoundBy(l)
  BY <1>1 DEF Underway, Links!FoundBy, LinksInv, LinkTypes, LinkTab
<1>6. SetsAreSubmitted'
  BY <1>1, <1>3, <1>5, Counted, FewerUnderway DEF LinksInv, SetsAreSubmitted
<1>7. ASSUME NEW l \in DOMAIN links', ~links'[l].met PROVE Single(l)'
  <2>1. l \in DOMAIN links /\ Single(l)
    BY <1>3, <1>7 DEF LinksInv
  <2>2. CASE l # k \/ ~unused
    BY <1>3, <1>5, <2>1, <2>2, SingleStays
  <2>3. CASE l = k /\ unused
    <3>1. Links!FoundBy(l) = {} /\ links'[l].used = links[l].used /\ links'[l].sets = links[l].sets
      BY <1>3, <1>7, <2>1, <2>3
    <3> QED
      BY <1>5, <2>1, <2>3, <3>1 DEF Single
  <2> QED
    BY <2>2, <2>3
<1> QED
  BY <1>4, <1>6, <1>7 DEF LinksInv

LEMMA SetPasswordKeeps ==
  ASSUME LinksInv, NEW t \in LinkTabs, Links!SetPassword(t)
  PROVE  LinksInv'
<1> DEFINE k == linkTabs[t].link
<1>1. /\ linkTabs[t].form = "found"
      /\ account' = linkTabs[t].password
      /\ links' = [links EXCEPT ![k].used = TRUE, ![k].sets = @ + 1]
      /\ linkTabs' = [linkTabs EXCEPT ![t].form = "set"]
      /\ UNCHANGED <<submitted, lost>>
  BY DEF Links!SetPassword
<1>2. k \in DOMAIN links /\ links \in Seq(LinkRow) /\ Len(links) \in Nat
  BY <1>1 DEF LinksInv, LinkTypes, LinkTab
<1>3. /\ links' \in Seq(LinkRow) /\ Len(links') = Len(links) /\ DOMAIN links' = DOMAIN links
      /\ \A l \in DOMAIN links : /\ links'[l].met = links[l].met
                                 /\ l # k => links'[l] = links[l]
      /\ links'[k].used /\ links'[k].sets = links[k].sets + 1
  <2>1. links[k] \in LinkRow
    BY <1>2
  <2> DEFINE row == [links[k] EXCEPT !.used = TRUE, !.sets = @ + 1]
  <2>2. links' = [links EXCEPT ![k] = row]
    BY <1>1, <1>2
  <2>3. row \in LinkRow /\ row.used /\ row.sets = links[k].sets + 1 /\ row.met = links[k].met
    <3> DEFINE marked == [links[k] EXCEPT !.used = TRUE]
    <3>1. /\ marked \in LinkRow /\ marked.used
          /\ marked.sets = links[k].sets /\ marked.met = links[k].met
      BY <2>1 DEF LinkRow
    <3>2. row = [marked EXCEPT !.sets = @ + 1]
      BY <2>1 DEF LinkRow
    <3> HIDE DEF marked, row
    <3> QED
      BY <3>1, <3>2 DEF LinkRow
  <2> HIDE DEF k, row
  <2> QED
    BY <1>2, <2>2, <2>3, RowReplaced
<1>4. LinkTypes'
  <2>1. linkTabs' \in [LinkTabs -> LinkTab]
        /\ \A u \in LinkTabs : /\ linkTabs'[u].link = linkTabs[u].link
                               /\ linkTabs[u].form = "none" => linkTabs'[u].form = "none"
        /\ account' \in Passwords \cup {NoPassword}
    BY <1>1 DEF LinksInv, LinkTypes, LinkTab, Forms
  <2> QED
    BY <1>1, <1>3, <2>1 DEF LinksInv, LinkTypes
<1>5. /\ Underway' = Underway \ {t} /\ t \in Underway
      /\ \A l : Links!FoundBy(l)' = Links!FoundBy(l) \ {t}
      /\ t \in Links!FoundBy(k)
  BY <1>1 DEF Underway, Links!FoundBy, LinksInv, LinkTypes, LinkTab
<1>6. SetsAreSubmitted'
  <2>1. IsFiniteSet(Underway)' /\ Cardinality(Underway)' = Cardinality(Underway) - 1
        /\ Cardinality(Underway) \in Nat
    BY <1>5, FS_RemoveElement, FS_CardinalityType DEF LinksInv, SetsAreSubmitted
  <2>2. \A l \in DOMAIN links : links[l].sets \in Nat /\ links'[l].sets \in Nat
    BY <1>3, Counted
  <2>3. \A l \in DOMAIN links : links'[l].sets <= links[l].sets + 1
    <3> TAKE l \in DOMAIN links
    <3>1. CASE l = k
      BY <1>2, <1>3, <2>2, <3>1
    <3>2. CASE l # k
      BY <1>3, <2>2, <3>2
    <3> QED
      BY <3>1, <3>2
  <2> QED
    <3>1. \A l \in DOMAIN links : links[l].sets + Cardinality(Underway) <= submitted
      BY DEF LinksInv, SetsAreSubmitted
    <3>2. \A l \in DOMAIN links : links'[l].sets + Cardinality(Underway)' <= submitted
      BY <2>1, <2>2, <2>3, <3>1, Counted
    <3>3. Cardinality(Underway)' <= submitted
      BY <2>1, Counted DEF LinksInv, SetsAreSubmitted
    <3> QED
      BY <1>1, <1>3, <2>1, <3>2, <3>3 DEF SetsAreSubmitted
<1>7. ASSUME NEW l \in DOMAIN links', ~links'[l].met PROVE Single(l)'
  <2>1. l \in DOMAIN links /\ Single(l)
    BY <1>3, <1>7 DEF LinksInv
  <2>2. CASE l # k
    BY <1>3, <1>5, <2>1, <2>2, SingleStays
  <2>3. CASE l = k
    <3>1. ~links[l].used /\ links[l].sets = 0 /\ Links!FoundBy(l) = {t}
      BY <1>5, <2>1, <2>3 DEF Single
    <3> QED
      BY <1>3, <1>5, <2>3, <3>1 DEF Single
  <2> QED
    BY <2>2, <2>3
<1> QED
  BY <1>4, <1>6, <1>7 DEF LinksInv

\* An answer, whether it comes or is lost, sets nothing.
LEMMA AnswerKeeps ==
  ASSUME LinksInv, NEW t \in LinkTabs, Links!Answer(t) \/ Links!Lose(t)
  PROVE  LinksInv'
<1>1. /\ linkTabs[t].form # "none"
      /\ \E form \in {"shown", "success"} : linkTabs' = [linkTabs EXCEPT ![t].form = form]
      /\ UNCHANGED <<account, links, submitted>> /\ lost' \in Nat
  BY DEF Links!Answer, Links!Lose, LinksInv, LinkTypes, LinkTab
<1>2. LinkTypes'
  BY <1>1 DEF LinksInv, LinkTypes, LinkTab, Forms
<1>3. /\ Underway' \subseteq Underway
      /\ \A l : Links!FoundBy(l)' \subseteq Links!FoundBy(l)
  BY <1>1 DEF Underway, Links!FoundBy, LinksInv, LinkTypes, LinkTab
<1>4. SetsAreSubmitted'
  BY <1>1, <1>3, Counted, FewerUnderway DEF LinksInv, SetsAreSubmitted
<1>5. ASSUME NEW l \in DOMAIN links' PROVE links'[l].met \/ Single(l)'
  BY <1>1, <1>3, <1>5, SingleStays DEF LinksInv
<1> QED
  BY <1>2, <1>4, <1>5 DEF LinksInv

LEMMA ExpireKeeps ==
  ASSUME LinksInv, NEW k \in DOMAIN links, Links!Expire(k)
  PROVE  LinksInv'
<1>1. /\ links' = [links EXCEPT ![k].expired = TRUE]
      /\ UNCHANGED <<account, linkTabs, submitted, lost>>
  BY DEF Links!Expire
<1>2. links \in Seq(LinkRow) /\ Len(links) \in Nat
  BY DEF LinksInv, LinkTypes
<1>3. /\ links' \in Seq(LinkRow) /\ Len(links') = Len(links) /\ DOMAIN links' = DOMAIN links
      /\ \A l \in DOMAIN links : /\ links'[l].used = links[l].used
                                 /\ links'[l].sets = links[l].sets
                                 /\ links'[l].met = links[l].met
  <2>1. links[k] \in LinkRow
    BY <1>2
  <2> DEFINE row == [links[k] EXCEPT !.expired = TRUE]
  <2>2. /\ links' = [links EXCEPT ![k] = row] /\ row \in LinkRow
        /\ row.used = links[k].used /\ row.sets = links[k].sets /\ row.met = links[k].met
    BY <1>1, <2>1 DEF LinkRow
  <2> HIDE DEF row
  <2> QED
    BY <1>2, <2>2, RowReplaced
<1>4. LinkTypes'
  BY <1>1, <1>3 DEF LinksInv, LinkTypes
<1>5. Underway' = Underway /\ \A l : Links!FoundBy(l)' = Links!FoundBy(l)
  BY <1>1 DEF Underway, Links!FoundBy
<1>6. SetsAreSubmitted'
  BY <1>1, <1>3, <1>5 DEF LinksInv, SetsAreSubmitted
<1>7. ASSUME NEW l \in DOMAIN links' PROVE links'[l].met \/ Single(l)'
  BY <1>3, <1>5, <1>7, SingleStays DEF LinksInv
<1> QED
  BY <1>4, <1>6, <1>7 DEF LinksInv

LEMMA ChangePasswordKeeps ==
  ASSUME Links!LinksAssumption, LinksInv, NEW p \in Passwords, Links!ChangePassword(p)
  PROVE  LinksInv'
<1>1. account' = p /\ submitted' = submitted + 1 /\ submitted < MaxForms
      /\ UNCHANGED <<links, linkTabs, lost>>
  BY DEF Links!ChangePassword
<1>2. LinkTypes'
  BY <1>1 DEF LinksInv, LinkTypes, Links!LinksAssumption
<1>3. Underway' = Underway /\ \A l : Links!FoundBy(l)' = Links!FoundBy(l)
  BY <1>1 DEF Underway, Links!FoundBy
<1>4. SetsAreSubmitted'
  BY <1>1, <1>3, Counted DEF LinksInv, SetsAreSubmitted
<1>5. ASSUME NEW l \in DOMAIN links' PROVE links'[l].met \/ Single(l)'
  BY <1>1, <1>3, <1>5, SingleStays DEF LinksInv
<1> QED
  BY <1>2, <1>4, <1>5 DEF LinksInv

LEMMA LinksStep ==
  ASSUME Links!LinksAssumption, LinksInv, [Links!Next]_(Links!linkVars) PROVE LinksInv'
<1>1. CASE UNCHANGED Links!linkVars
  <2>1. UNCHANGED <<account, links, linkTabs, submitted, lost>>
    BY <1>1 DEF Links!linkVars
  <2>2. LinkTypes' /\ SetsAreSubmitted'
    BY <2>1 DEF LinksInv, LinkTypes, SetsAreSubmitted, Underway
  <2> QED
    BY <2>1, <2>2 DEF LinksInv, Single, Links!FoundBy
<1>2. CASE Links!Next
  BY <1>2, AskForLinkKeeps, OpenLinkKeeps, SubmitKeeps, FindLinkKeeps, SetPasswordKeeps,
     AnswerKeeps, ExpireKeeps, ChangePasswordKeeps DEF Links!Next
<1> QED
  BY <1>1, <1>2

\* The inductive invariant: in every reachable state a link that no two requests found unused
\* at a time has at most one password to set, and sets add up to forms submitted.
THEOREM LinksAlwaysCoherent == ASSUME Links!LinksAssumption PROVE Links!Spec => []LinksInv
<1>1. Links!Init => LinksInv
  BY LinksStart
<1>2. LinksInv /\ [Links!Next]_(Links!linkVars) => LinksInv'
  BY LinksStep
<1> QED
  BY <1>1, <1>2, PTL DEF Links!Spec

\* Every variable keeps to its domain; what a link has set never exceeds the forms.
THEOREM LinkTypesCorrect == ASSUME Links!LinksAssumption PROVE Links!Spec => []Links!TypeOK
<1>1. LinksInv => Links!TypeOK
  <2> SUFFICES ASSUME LinksInv PROVE Links!TypeOK
    OBVIOUS
  <2>1. Cardinality(Underway) \in Nat
    BY FS_CardinalityType DEF LinksInv, SetsAreSubmitted
  <2>2. \A l \in DOMAIN links : links[l].sets \in 0 .. MaxForms
    BY <2>1, Counted DEF LinksInv, LinkTypes, SetsAreSubmitted, Links!LinksAssumption
  <2> QED
    BY <2>2 DEF LinksInv, LinkTypes, LinkTab, Forms, Links!TypeOK
<1> QED
  BY <1>1, LinksAlwaysCoherent, PTL

\* A link that is used up sets no other password, except where two requests of
\* consume_password_set_token found it unused at the same time.
THEOREM LinksAreAlwaysUsedUp ==
  ASSUME Links!LinksAssumption PROVE Links!Spec => []Links!LinksAreUsedUp
<1>1. LinksInv => Links!LinksAreUsedUp
  BY DEF LinksInv, Single, Links!LinksAreUsedUp
<1> QED
  BY <1>1, LinksAlwaysCoherent, PTL

-----------------------------------------------------------------------------
(* The bank of questions, for any questions, filters, sizes of a page, gestures,     *)
(* requests, failures and other users: what its page lists and what is selected.     *)
(* MaxGestures, a constant of BrowserSession, bounds the gestures of this page here. *)

CONSTANTS BankQuestions, Prompt, Filters, PageSizes, DefaultSize, InitialBank, MaxRequests,
          MaxOthers
VARIABLES bank, view, rows, total, selected, allMode, target, preview, busy, due, requests,
          tally, changed, doubt

\* The page that lists the questions and changes many at a time.
Bank == INSTANCE QuestionBankPage

\* Totals, the views of the list, what the server answers, and the requests of the page.
Counts == 0 .. Cardinality(BankQuestions)
Views == [filter : Filters \cup {{}}, page : Nat \ {0}, size : PageSizes]
Reply == [ok : BOOLEAN, rows : SUBSET BankQuestions, total : {-1} \cup Counts]
Kinds == {"load", "scan", "create", "update", "dedupe", "publish", "archive", "delete"}
BankRequest ==
  [id : Nat, scope : {"selected", "all_matching"}, ids : SUBSET BankQuestions, view : Views,
   kind : Kinds, of : SUBSET BankQuestions, served : BOOLEAN, late : BOOLEAN, reply : Reply,
   after : {"none", "bulk", "dedupe"}]

\* The domains of the variables, and a selection of what is listed.
BankTypes ==
  /\ bank \in [BankQuestions -> Bank!Statuses \cup {"gone"}]
  /\ view \in Views
  /\ rows \subseteq BankQuestions /\ selected \subseteq rows
  /\ total \in Counts
  /\ allMode \in BOOLEAN /\ busy \in BOOLEAN /\ due \in BOOLEAN /\ doubt \in BOOLEAN
  /\ target \in [kind : {"none", "archive", "delete"}, ids : SUBSET BankQuestions,
                 total : {-1} \cup Counts]
  /\ target.kind = "none" => target = Bank!NoTarget
  /\ preview \in {-1} \cup Counts
  /\ tally \in [gestures : Nat, others : Nat]

\* Requests are told apart by their ids, and a list that arrives has its total.
Numbered ==
  /\ requests \subseteq BankRequest
  /\ \A r, s \in requests : r.id = s.id => r = s
  /\ \E n \in Nat : \A r \in requests : r.id <= n
  /\ \A r \in requests : r.kind = "load" /\ r.reply.ok => r.reply.total # -1

\* What is to be deleted has been named: the selection of a dialog does not grow.
Named ==
  /\ target.kind = "delete" => selected \subseteq target.ids
  /\ \A r \in requests : r.kind = "delete" /\ r.scope = "selected" => r.ids \subseteq r.of
  /\ Bank!DeletedWasNamed

\* A change that the server has made, and the page has not heard of.
Pending(r) == r.served /\ r.reply.ok /\ r.kind \notin {"load", "scan"}

\* A load that will show, or shows already, what the server lists now.
Newest(l) ==
  /\ l.kind = "load" /\ ~l.late
  /\ \A r \in requests : r.kind = "load" => r.id <= l.id
  /\ l.served => /\ l.reply.rows = Bank!Listed(l.view)
                 /\ l.reply.total = Bank!Cardinality(Bank!Matching(l.view.filter))

\* The page shows what the server lists for its view.
ShownIsListed ==
  rows = Bank!Listed(view) /\ total = Bank!Cardinality(Bank!Matching(view.filter))

\* Unless another user acted or something failed: a load is due, or follows a change, or the
\* newest one is under way; or it was the newest, and all others are too late.
Followed ==
  tally.others = 0 =>
    /\ \A r \in requests : r.served /\ r.kind # "update" => r.reply.ok
    /\ \/ due
       \/ \E r \in requests : Pending(r)
       \/ \E l \in requests : Newest(l)
       \/ /\ \A r \in requests : r.kind = "load" => r.late
          /\ doubt \/ ShownIsListed

\* What every state of the page of questions satisfies.
BankInv == BankTypes /\ Numbered /\ Named /\ Followed

-----------------------------------------------------------------------------
\* A non-empty set of natural numbers has a least element.
LEMMA LeastElement ==
  ASSUME NEW S \in SUBSET Nat, S # {}
  PROVE  \E n \in S : \A m \in S : n <= m
<1>1. PICK n \in S : \A m \in S : ~(<<m, n>> \in OpToRel(<, Nat))
  BY NatLessThanWellFounded, WFMin
<1>2. \A m \in S : ~(m < n)
  BY <1>1 DEF OpToRel
<1> QED
  BY <1>2

\* The largest of some numbers that are at most n.
LEMMA LargestId ==
  ASSUME NEW n \in Nat, NEW S \in SUBSET (0 .. n), S # {}
  PROVE  Bank!Max(S) \in S /\ \A y \in S : y <= Bank!Max(S)
<1> DEFINE T == {n - y : y \in S}
<1>1. T \in SUBSET Nat /\ T # {}
  <2>1. \A y \in S : n - y \in Nat
    OBVIOUS
  <2>2. PICK y : y \in S
    OBVIOUS
  <2> QED
    BY <2>1, <2>2
<1>2. PICK m \in T : \A k \in T : m <= k
  BY <1>1, LeastElement
<1>3. PICK x \in S : m = n - x
  OBVIOUS
<1>4. \A y \in S : x >= y
  BY <1>2, <1>3
<1> QED
  BY <1>4 DEF Bank!Max

\* A new request has an id of its own, above all others.
LEMMA NextIdIsAbove ==
  ASSUME Numbered
  PROVE  Bank!NextId(requests) \in Nat /\ \A r \in requests : r.id < Bank!NextId(requests)
<1>1. PICK n \in Nat : \A r \in requests : r.id <= n
  BY DEF Numbered
<1>2. PICK S : S = {0} \cup {r.id : r \in requests}
  OBVIOUS
<1>3. S \in SUBSET (0 .. n) /\ S # {}
  BY <1>1, <1>2 DEF Numbered, BankRequest
<1>4. \A r \in requests : r.id \in S
  BY <1>2
<1>5. Bank!NextId(requests) = 1 + Bank!Max(S)
  BY <1>2 DEF Bank!NextId
<1>6. Bank!Max(S) \in S /\ \A y \in S : y <= Bank!Max(S)
  BY <1>3, LargestId
<1>7. PICK m \in S : m = Bank!Max(S) /\ \A y \in S : y <= m
  BY <1>6
<1>8. m \in Nat /\ \A y \in S : y \in Nat /\ y <= m
  BY <1>1, <1>3, <1>7
<1>9. ASSUME NEW r \in requests PROVE r.id < 1 + m
  <2>1. PICK i \in S : i = r.id
    BY <1>4
  <2>2. i \in Nat /\ i <= m
    BY <1>8
  <2>3. i < 1 + m
    BY <2>2, <1>8
  <2> QED
    BY <2>1, <2>3
<1> QED
  BY <1>5, <1>7, <1>8, <1>9

\* Questions can be counted.
LEMMA BankCounts ==
  ASSUME Bank!BankAssumption
  PROVE  /\ IsFiniteSet(BankQuestions)
         /\ \A S : Bank!Cardinality(S) = Cardinality(S)
         /\ \A S \in SUBSET BankQuestions : Bank!Cardinality(S) \in Counts
         /\ Cardinality(BankQuestions) \in Nat
<1>1. \A S : Bank!Cardinality(S) = Cardinality(S)
  BY DEF Bank!Cardinality, Cardinality
<1>2. IsFiniteSet(BankQuestions)
  BY DEF Bank!BankAssumption, Bank!IsFiniteSet, IsFiniteSet
<1>3. ASSUME NEW S \in SUBSET BankQuestions PROVE Cardinality(S) \in Counts
  <2>1. Cardinality(S) \in Nat /\ Cardinality(S) <= Cardinality(BankQuestions)
    BY <1>2, FS_Subset, FS_CardinalityType
  <2>2. Cardinality(BankQuestions) \in Nat
    BY <1>2, FS_CardinalityType
  <2> QED
    BY <2>1, <2>2 DEF Counts
<1> QED
  BY <1>1, <1>2, <1>3, FS_CardinalityType

\* Whatever the server lists are questions of the bank.
LEMMA ListsAreQuestions ==
  \A v : /\ Bank!Matching(v.filter) \subseteq BankQuestions
         /\ Bank!Listed(v) \subseteq BankQuestions
BY DEF Bank!Matching, Bank!Listed

LEMMA ExtrasAreQuestions == Bank!Extras \subseteq BankQuestions
BY DEF Bank!Matching, Bank!Extras

-----------------------------------------------------------------------------
\* A request that is sent, a reload of its handler included.
LEMMA RequestIs ==
  ASSUME BankTypes, Numbered, NEW kind \in Kinds, NEW scope \in {"selected", "all_matching"},
         NEW ids \in SUBSET BankQuestions, NEW of \in SUBSET BankQuestions, NEW q,
         q = Bank!Request(kind, scope, ids, of)
  PROVE  /\ q \in BankRequest /\ q.id = Bank!NextId(requests) /\ q.kind = kind
         /\ q.scope = scope /\ q.ids = ids /\ q.of = of /\ ~q.served /\ ~q.late /\ ~q.reply.ok
<1>1. Bank!NoReply \in Reply /\ ~Bank!NoReply.ok
  BY DEF Bank!NoReply, Reply
<1>2. Bank!NextId(requests) \in Nat /\ view \in Views
  BY NextIdIsAbove DEF BankTypes
<1> QED
  BY <1>1, <1>2 DEF Bank!Request, BankRequest

LEMMA ReloadIs ==
  ASSUME BankTypes, Numbered, NEW r \in requests, NEW after \in {"none", "bulk", "dedupe"}, NEW q,
         q = Bank!Reload(r, after)
  PROVE  /\ q \in BankRequest /\ q.id = Bank!NextId(requests) /\ q.kind = "load"
         /\ ~q.served /\ ~q.late /\ ~q.reply.ok
<1>1. PICK p : p = Bank!Request("load", "selected", {}, {})
  OBVIOUS
<1>2. /\ p \in BankRequest /\ p.id = Bank!NextId(requests) /\ p.kind = "load"
      /\ ~p.served /\ ~p.late /\ ~p.reply.ok
  BY <1>1, RequestIs DEF Kinds
<1>3. r.view \in Views
  BY DEF Numbered, BankRequest
<1>4. q = [p EXCEPT !.view = r.view, !.after = after]
  BY <1>1 DEF Bank!Reload
<1> QED
  BY <1>2, <1>3, <1>4 DEF BankRequest

\* Requests that go, and one that comes.
LEMMA FewerNumbered ==
  ASSUME Numbered, requests' \subseteq requests
  PROVE  Numbered'
BY DEF Numbered

LEMMA OneMoreNumbered ==
  ASSUME Numbered, NEW q \in BankRequest, q.id = Bank!NextId(requests), ~q.reply.ok,
         q \in requests', \A s \in requests' : s = q \/ s \in requests
  PROVE  Numbered' /\ \A s \in requests' : s # q => s.id < q.id
<1>1. q.id \in Nat /\ \A s \in requests : s.id < q.id
  BY NextIdIsAbove
<1>2. \A s \in requests' : s \in BankRequest /\ (s.kind = "load" /\ s.reply.ok => s.reply.total # -1)
  BY DEF Numbered
<1>3. \A s \in requests' : s # q => s.id < q.id
  BY <1>1
<1>4. ASSUME NEW s \in requests', NEW u \in requests', s.id = u.id PROVE s = u
  <2>1. \A x \in requests' : x.id \in Nat
    BY <1>2 DEF BankRequest
  <2> QED
    BY <1>1, <1>3, <1>4, <2>1 DEF Numbered
<1>5. \A s \in requests' : s.id <= q.id
  <2>1. \A x \in requests' : x.id \in Nat
    BY <1>2 DEF BankRequest
  <2> QED
    BY <1>1, <1>3, <2>1
<1> QED
  BY <1>1, <1>2, <1>3, <1>4, <1>5 DEF Numbered

\* An answer changes nothing else of its request.
LEMMA AnsweredIs ==
  ASSUME Numbered, NEW r \in requests, NEW reply \in Reply, Bank!Answer(r, reply),
         r.kind = "load" /\ reply.ok => reply.total # -1
  PROVE  /\ Numbered'
         /\ \E q \in BankRequest :
              /\ requests' = (requests \ {r}) \cup {q}
              /\ q.id = r.id /\ q.kind = r.kind /\ q.scope = r.scope /\ q.ids = r.ids
              /\ q.of = r.of /\ q.view = r.view /\ q.late = r.late
              /\ q.served /\ q.reply = reply
<1>1. PICK q : q = [r EXCEPT !.served = TRUE, !.reply = reply]
  OBVIOUS
<1>2. r \in BankRequest
  BY DEF Numbered
<1>3. /\ q \in BankRequest
      /\ q.id = r.id /\ q.kind = r.kind /\ q.scope = r.scope /\ q.ids = r.ids
      /\ q.of = r.of /\ q.view = r.view /\ q.late = r.late
      /\ q.served /\ q.reply = reply
  BY <1>1, <1>2 DEF BankRequest
<1>4. requests' = (requests \ {r}) \cup {q}
  BY <1>1 DEF Bank!Answer
<1>5. Numbered'
  <2>1. \A s \in requests' : s \in BankRequest /\ (s.kind = "load" /\ s.reply.ok => s.reply.total # -1)
    BY <1>3, <1>4 DEF Numbered
  <2>2. \A s, u \in requests' : s.id = u.id => s = u
    BY <1>3, <1>4 DEF Numbered
  <2>3. \E n \in Nat : \A s \in requests' : s.id <= n
    BY <1>3, <1>4 DEF Numbered
  <2> QED
    BY <2>1, <2>2, <2>3 DEF Numbered
<1> QED
  BY <1>3, <1>4, <1>5

\* A list that arrives makes the loads before it late.
LEMMA LateIs ==
  ASSUME Numbered, NEW r \in requests,
         requests' = {[x EXCEPT !.late = @ \/ x.id < r.id] : x \in requests \ {r}}
  PROVE  /\ Numbered'
         /\ \A x \in requests \ {r} : \E y \in requests' :
              /\ y.id = x.id /\ y.kind = x.kind /\ y.scope = x.scope /\ y.ids = x.ids /\ y.of = x.of
              /\ y.view = x.view /\ y.served = x.served /\ y.reply = x.reply
              /\ (y.late <=> x.late \/ x.id < r.id)
         /\ \A y \in requests' : \E x \in requests \ {r} :
              /\ y.id = x.id /\ y.kind = x.kind /\ y.scope = x.scope /\ y.ids = x.ids /\ y.of = x.of
              /\ y.view = x.view /\ y.served = x.served /\ y.reply = x.reply
              /\ (y.late <=> x.late \/ x.id < r.id)
<1> DEFINE L(x) == [x EXCEPT !.late = @ \/ x.id < r.id]
<1>1. ASSUME NEW x \in requests
      PROVE  /\ L(x) \in BankRequest
             /\ L(x).id = x.id /\ L(x).kind = x.kind /\ L(x).scope = x.scope
             /\ L(x).ids = x.ids /\ L(x).of = x.of /\ L(x).view = x.view
             /\ L(x).served = x.served /\ L(x).reply = x.reply
             /\ (L(x).late <=> x.late \/ x.id < r.id)
  <2>1. x \in BankRequest
    BY DEF Numbered
  <2> QED
    BY <2>1 DEF BankRequest
<1>2. requests' = {L(x) : x \in requests \ {r}}
  OBVIOUS
<1> HIDE DEF L
<1>3. \A y \in requests' : \E x \in requests \ {r} : y = L(x)
  BY <1>2
<1>4. Numbered'
  <2>1. \A s \in requests' : s \in BankRequest /\ (s.kind = "load" /\ s.reply.ok => s.reply.total # -1)
    BY <1>1, <1>3 DEF Numbered
  <2>2. \A s, u \in requests' : s.id = u.id => s = u
    BY <1>1, <1>3 DEF Numbered
  <2>3. \E n \in Nat : \A s \in requests' : s.id <= n
    BY <1>1, <1>3 DEF Numbered
  <2> QED
    BY <2>1, <2>2, <2>3 DEF Numbered
<1> QED
  BY <1>1, <1>2, <1>3, <1>4

-----------------------------------------------------------------------------
\* What the server lists depends on the bank only.
LEMMA SameBankSameList ==
  ASSUME bank' = bank
  PROVE  \A v : /\ Bank!Listed(v)' = Bank!Listed(v)
                /\ Bank!Matching(v.filter)' = Bank!Matching(v.filter)
BY DEF Bank!Listed, Bank!Matching

LEMMA NewestStays ==
  ASSUME bank' = bank, NEW l, Newest(l), \A r \in requests' : r.kind = "load" => r.id <= l.id
  PROVE  Newest(l)'
<1>1. PICK v, f : v = l.view /\ f = l.view.filter
  OBVIOUS
<1>2. Bank!Listed(v)' = Bank!Listed(v) /\ Bank!Matching(f)' = Bank!Matching(f)
  BY <1>1, SameBankSameList
<1> QED
  BY <1>1, <1>2 DEF Newest

\* What no load, no change and no question is in leaves the list to follow.
LEMMA FollowedStays ==
  ASSUME Followed, bank' = bank, view' = view, rows' = rows, total' = total, doubt' = doubt,
         due' = due, tally'.others = tally.others,
         \A r \in requests : r.kind = "load" \/ Pending(r) => r \in requests',
         \A r \in requests' : r \in requests \/ (~r.served /\ r.kind # "load")
  PROVE  Followed'
<1> SUFFICES ASSUME tally.others = 0
             PROVE  /\ \A r \in requests' : r.served /\ r.kind # "update" => r.reply.ok
                    /\ \/ due'
                       \/ \E r \in requests' : Pending(r)
                       \/ \E l \in requests' : Newest(l)'
                       \/ /\ \A r \in requests' : r.kind = "load" => r.late
                          /\ doubt' \/ ShownIsListed'
  BY DEF Followed, Pending
<1>1. \A r \in requests' : r.served /\ r.kind # "update" => r.reply.ok
  BY DEF Followed
<1>2. CASE \E l \in requests : Newest(l)
  <2>1. PICK l \in requests : Newest(l)
    BY <1>2
  <2>2. l \in requests' /\ \A r \in requests' : r.kind = "load" => r.id <= l.id
    BY <2>1 DEF Newest
  <2> QED
    BY <1>1, <2>1, <2>2, NewestStays
<1>3. CASE ~ \E l \in requests : Newest(l)
  <2>1. ShownIsListed => ShownIsListed'
    BY DEF ShownIsListed, Bank!Listed, Bank!Matching
  <2> QED
    BY <1>1, <1>3, <2>1 DEF Followed
<1> QED
  BY <1>2, <1>3

\* A new view is loaded some time.
LEMMA DueFollows ==
  ASSUME Followed, due', requests' = requests, tally'.others = tally.others
  PROVE  Followed'
BY DEF Followed

\* The load that is sent last is the newest.
LEMMA LoadFollows ==
  ASSUME Followed, tally'.others = tally.others, NEW q \in requests', q.kind = "load", ~q.served,
         ~q.late, \A r \in requests' : r = q \/ (r \in requests /\ r.id < q.id /\ r.id \in Nat),
         q.id \in Nat
  PROVE  Followed'
<1>1. \A r \in requests' : r.id <= q.id
  OBVIOUS
<1>2. Newest(q)'
  BY <1>1 DEF Newest
<1> QED
  BY <1>2 DEF Followed

LEMMA FailedFollows == ASSUME tally'.others # 0 PROVE Followed'
BY DEF Followed

LEMMA NamedStays ==
  ASSUME Named, target' = target \/ target'.kind # "delete", selected' \subseteq selected,
         changed' = changed,
         \A r \in requests' : r \in requests \/ r.kind # "delete"
  PROVE  Named'
BY DEF Named, Bank!DeletedWasNamed

LEMMA BankStart ==
  ASSUME Bank!BankAssumption, Bank!Init
  PROVE  BankInv
<1>1. 0 \in Counts /\ 1 \in Nat \ {0}
  BY BankCounts DEF Counts
<1>2. view \in Views
  BY DEF Bank!Init, Bank!BankAssumption, Views
<1>3. BankTypes
  BY <1>1, <1>2 DEF Bank!Init, Bank!BankAssumption, Bank!NoTarget, BankTypes
<1>4. Numbered
  BY DEF Bank!Init, Numbered
<1>5. Named
  BY DEF Bank!Init, Bank!NoTarget, Named, Bank!DeletedWasNamed
<1>6. Followed
  BY DEF Bank!Init, Followed
<1> QED
  BY <1>3, <1>4, <1>5, <1>6 DEF BankInv

-----------------------------------------------------------------------------
\* The server answers a request.
LEMMA ServedFollows ==
  ASSUME BankInv, NEW r \in requests, ~r.served, NEW q \in BankRequest,
         requests' = (requests \ {r}) \cup {q},
         q.id = r.id, q.kind = r.kind, q.view = r.view, q.late = r.late, q.served,
         UNCHANGED <<view, rows, total, due, tally, doubt>>,
         bank' = bank \/ Pending(q),
         q.kind # "update" => q.reply.ok,
         q.kind = "load" => /\ q.reply.rows = Bank!Listed(r.view)
                            /\ q.reply.total = Bank!Cardinality(Bank!Matching(r.view.filter))
  PROVE  Followed'
<1> SUFFICES ASSUME tally.others = 0
             PROVE  /\ \A x \in requests' : x.served /\ x.kind # "update" => x.reply.ok
                    /\ \/ due'
                       \/ \E x \in requests' : Pending(x)
                       \/ \E l \in requests' : Newest(l)'
                       \/ /\ \A x \in requests' : x.kind = "load" => x.late
                          /\ doubt' \/ ShownIsListed'
  BY DEF Followed, Pending
<1>1. \A x \in requests' : x.served /\ x.kind # "update" => x.reply.ok
  BY DEF BankInv, Followed
<1>2. CASE Pending(q) \/ due \/ \E x \in requests : Pending(x)
  BY <1>1, <1>2 DEF Pending
<1>3. CASE bank' = bank /\ \E l \in requests : Newest(l)
  <2>1. PICK l \in requests : Newest(l)
    BY <1>3
  <2>2. \A x \in requests' : x.kind = "load" => x.id <= l.id
    BY <2>1 DEF Newest
  <2>3. CASE l # r
    <3>1. l \in requests'
      BY <2>3
    <3> QED
      BY <1>1, <1>3, <2>1, <2>2, <3>1, NewestStays
  <2>4. CASE l = r
    <3>1. PICK v, f : v = r.view /\ f = r.view.filter
      OBVIOUS
    <3>2. Bank!Listed(v)' = Bank!Listed(v) /\ Bank!Matching(f)' = Bank!Matching(f)
      BY <1>3, <3>1, SameBankSameList
    <3>3. q.kind = "load" /\ ~q.late /\ q.view = v /\ q.view.filter = f
      BY <2>1, <2>4, <3>1 DEF Newest
    <3>4. q.reply.rows = Bank!Listed(v)' /\ q.reply.total = Bank!Cardinality(Bank!Matching(f)')
      BY <3>1, <3>2, <3>3
    <3>5. Newest(q)'
      BY <2>2, <2>4, <3>3, <3>4 DEF Newest
    <3> QED
      BY <1>1, <3>5
  <2> QED
    BY <2>3, <2>4
<1>4. CASE /\ bank' = bank
           /\ \A x \in requests : x.kind = "load" => x.late
           /\ doubt \/ ShownIsListed
  <2>1. ShownIsListed => ShownIsListed'
    BY <1>4 DEF ShownIsListed, Bank!Listed, Bank!Matching
  <2>2. \A x \in requests' : x.kind = "load" => x.late
    BY <1>4
  <2> QED
    BY <1>1, <1>4, <2>1, <2>2
<1> QED
  BY <1>2, <1>3, <1>4 DEF BankInv, Followed

LEMMA ServedKeeps ==
  ASSUME BankInv, NEW r \in requests, ~r.served, NEW reply \in Reply, Bank!Answer(r, reply),
         UNCHANGED <<Bank!shownVars, tally, doubt>>,
         bank' \in [BankQuestions -> Bank!Statuses \cup {"gone"}],
         bank' = bank \/ (reply.ok /\ r.kind \notin {"load", "scan"}),
         r.kind # "update" => reply.ok,
         r.kind = "load" => /\ reply.rows = Bank!Listed(r.view) /\ reply.total # -1
                            /\ reply.total = Bank!Cardinality(Bank!Matching(r.view.filter)),
         changed' = IF r.kind \in {"publish", "archive", "delete"} /\ r.scope = "selected"
                    THEN changed \cup {<<r.kind, x, r.of>> : x \in Bank!Affected(r)} ELSE changed
  PROVE  BankInv'
<1> USE DEF Bank!shownVars
<1>1. /\ Numbered'
      /\ \E q \in BankRequest :
           /\ requests' = (requests \ {r}) \cup {q}
           /\ q.id = r.id /\ q.kind = r.kind /\ q.scope = r.scope /\ q.ids = r.ids
           /\ q.of = r.of /\ q.view = r.view /\ q.late = r.late
           /\ q.served /\ q.reply = reply
  BY AnsweredIs DEF BankInv
<1>2. PICK q \in BankRequest :
           /\ requests' = (requests \ {r}) \cup {q}
           /\ q.id = r.id /\ q.kind = r.kind /\ q.scope = r.scope /\ q.ids = r.ids
           /\ q.of = r.of /\ q.view = r.view /\ q.late = r.late
           /\ q.served /\ q.reply = reply
  BY <1>1
<1>3. bank' = bank \/ Pending(q)
  BY <1>2 DEF Pending
<1>4. Followed'
  BY <1>2, <1>3, ServedFollows
<1>5. BankTypes'
  BY DEF BankInv, BankTypes
<1>6. \A x \in requests' : x.kind = "delete" /\ x.scope = "selected" => x.ids \subseteq x.of
  BY <1>2 DEF BankInv, Named
<1>7. Bank!DeletedWasNamed'
  <2>1. CASE changed' = changed
    BY <2>1 DEF BankInv, Named, Bank!DeletedWasNamed
  <2>2. CASE /\ r.scope = "selected"
             /\ changed' = changed \cup {<<r.kind, x, r.of>> : x \in Bank!Affected(r)}
    <3>1. Bank!Affected(r) \subseteq r.ids
      BY <2>2 DEF Bank!Affected
    <3>2. r.kind = "delete" => r.ids \subseteq r.of
      BY <2>2 DEF BankInv, Named
    <3> SUFFICES ASSUME NEW c \in changed', c[1] = "delete" PROVE c[2] \in c[3]
      BY DEF Bank!DeletedWasNamed
    <3>3. CASE c \in changed
      BY <3>3 DEF BankInv, Named, Bank!DeletedWasNamed
    <3>4. CASE \E x \in Bank!Affected(r) : c = <<r.kind, x, r.of>>
      BY <3>1, <3>2, <3>4
    <3> QED
      BY <2>2, <3>3, <3>4
  <2> QED
    BY <2>1, <2>2
<1>8. Named'
  BY <1>6, <1>7 DEF BankInv, Named
<1> QED
  BY <1>1, <1>4, <1>5, <1>8 DEF BankInv

LEMMA ServeKeeps ==
  ASSUME Bank!BankAssumption, BankInv, NEW r \in requests, Bank!Serve(r)
  PROVE  BankInv'
<1>1. /\ ~r.served /\ UNCHANGED <<Bank!shownVars, tally, doubt>>
      /\ changed' = IF r.kind \in {"publish", "archive", "delete"} /\ r.scope = "selected"
                    THEN changed \cup {<<r.kind, x, r.of>> : x \in Bank!Affected(r)} ELSE changed
  BY DEF Bank!Serve
<1>2. /\ r \in BankRequest /\ r.kind \in Kinds
      /\ bank \in [BankQuestions -> Bank!Statuses \cup {"gone"}]
  BY DEF BankInv, BankTypes, Numbered, BankRequest
<1>3. Bank!Done \in Reply /\ Bank!Done.ok /\ Bank!NoReply \in Reply
  BY DEF Bank!Done, Bank!NoReply, Reply
<1>4. CASE r.kind = "load"
  <2>1. PICK reply : reply = [ok |-> TRUE, rows |-> Bank!Listed(r.view),
                              total |-> Bank!Cardinality(Bank!Matching(r.view.filter))]
    OBVIOUS
  <2>2. Bank!Answer(r, reply) /\ bank' = bank
    BY <1>4, <2>1 DEF Bank!Serve
  <2>3. /\ Bank!Listed(r.view) \in SUBSET BankQuestions
        /\ Bank!Cardinality(Bank!Matching(r.view.filter)) \in Counts
    BY BankCounts, ListsAreQuestions
  <2>4. reply \in Reply /\ reply.ok
    BY <2>1, <2>3 DEF Reply
  <2>5. /\ reply.rows = Bank!Listed(r.view) /\ reply.total # -1
        /\ reply.total = Bank!Cardinality(Bank!Matching(r.view.filter))
    BY <2>1, <2>3 DEF Counts
  <2> QED
    BY <1>1, <1>2, <2>2, <2>4, <2>5, ServedKeeps
<1>5. CASE r.kind = "scan"
  <2>1. PICK reply : reply = [Bank!Done EXCEPT !.total = Bank!Cardinality(Bank!Extras)]
    OBVIOUS
  <2>2. Bank!Answer(r, reply) /\ bank' = bank
    BY <1>5, <2>1 DEF Bank!Serve
  <2>3. Bank!Cardinality(Bank!Extras) \in Counts
    BY BankCounts, ExtrasAreQuestions
  <2>4. reply \in Reply /\ reply.ok
    BY <1>3, <2>1, <2>3 DEF Reply
  <2> QED
    BY <1>1, <1>2, <1>5, <2>2, <2>4, ServedKeeps
<1>6. CASE r.kind = "update" /\ Bank!Affected(r) = {}
  <2>1. PICK reply : reply = Bank!NoReply
    OBVIOUS
  <2>2. Bank!Answer(r, reply) /\ bank' = bank
    BY <1>6, <2>1 DEF Bank!Serve
  <2> QED
    BY <1>1, <1>2, <1>3, <1>6, <2>1, <2>2, ServedKeeps
<1>7. CASE r.kind = "create" \/ (r.kind = "update" /\ Bank!Affected(r) # {})
  <2>1. PICK reply : reply = Bank!Done
    OBVIOUS
  <2>2. Bank!Answer(r, reply) /\
        bank' \in {[x \in BankQuestions |-> IF x \in r.ids THEN "draft" ELSE bank[x]], bank}
    BY <1>7, <2>1 DEF Bank!Serve
  <2>3. bank' \in [BankQuestions -> Bank!Statuses \cup {"gone"}]
    BY <1>2, <2>2 DEF Bank!Statuses
  <2> QED
    BY <1>1, <1>3, <1>7, <2>1, <2>2, <2>3, ServedKeeps
<1>8. CASE r.kind \in {"dedupe", "publish", "archive", "delete"}
  <2>1. PICK reply : reply = Bank!Done
    OBVIOUS
  <2>2. PICK hit : hit = IF r.kind = "dedupe" THEN Bank!Extras ELSE Bank!Affected(r)
    OBVIOUS
  <2>3. /\ Bank!Answer(r, reply)
        /\ bank' = [x \in BankQuestions |-> IF x \in hit THEN Bank!Outcome(r.kind) ELSE bank[x]]
    BY <1>8, <2>1, <2>2 DEF Bank!Serve
  <2>4. Bank!Outcome(r.kind) \in Bank!Statuses \cup {"gone"}
    BY <1>8 DEF Bank!Outcome, Bank!Statuses
  <2>5. bank' \in [BankQuestions -> Bank!Statuses \cup {"gone"}]
    BY <1>2, <2>3, <2>4
  <2> QED
    BY <1>1, <1>3, <1>8, <2>1, <2>3, <2>5, ServedKeeps
<1> QED
  BY <1>2, <1>4, <1>5, <1>6, <1>7, <1>8 DEF Kinds

-----------------------------------------------------------------------------
\* A request fails, and another user acts: the list need not follow any more.
LEMMA FailKeeps ==
  ASSUME BankInv, NEW r \in requests, Bank!Fail(r)
  PROVE  BankInv'
<1>1. /\ tally' = [tally EXCEPT !.others = @ + 1] /\ Bank!Answer(r, Bank!NoReply)
      /\ UNCHANGED <<bank, Bank!shownVars, changed, doubt>>
  BY DEF Bank!Fail
<1>2. PICK reply : reply = Bank!NoReply
  OBVIOUS
<1>3. reply \in Reply /\ ~reply.ok
  BY <1>2 DEF Bank!NoReply, Reply
<1>4. /\ Numbered'
      /\ \E q \in BankRequest :
           /\ requests' = (requests \ {r}) \cup {q}
           /\ q.id = r.id /\ q.kind = r.kind /\ q.scope = r.scope /\ q.ids = r.ids
           /\ q.of = r.of /\ q.view = r.view /\ q.late = r.late
           /\ q.served /\ q.reply = reply
  BY <1>1, <1>2, <1>3, AnsweredIs DEF BankInv
<1>5. tally' \in [gestures : Nat, others : Nat] /\ tally'.others # 0
  BY <1>1 DEF BankInv, BankTypes
<1>6. BankTypes'
  BY <1>1, <1>5 DEF BankInv, BankTypes, Bank!shownVars
<1>7. Followed'
  BY <1>5, FailedFollows
<1>8. \A x \in requests' : x.kind = "delete" /\ x.scope = "selected" => x.ids \subseteq x.of
  BY <1>4 DEF BankInv, Named
<1>9. Named'
  BY <1>1, <1>8 DEF BankInv, Named, Bank!DeletedWasNamed, Bank!shownVars
<1> QED
  BY <1>4, <1>6, <1>7, <1>9 DEF BankInv

LEMMA OtherKeeps ==
  ASSUME BankInv, NEW x \in BankQuestions, NEW st \in {"published", "gone"}, Bank!Other(x, st)
  PROVE  BankInv'
<1>1. tally' \in [gestures : Nat, others : Nat] /\ tally'.others # 0
  BY DEF BankInv, BankTypes, Bank!Other
<1>2. bank' \in [BankQuestions -> Bank!Statuses \cup {"gone"}]
  BY DEF BankInv, BankTypes, Bank!Other, Bank!Statuses
<1>3. BankTypes'
  BY <1>1, <1>2 DEF BankInv, BankTypes, Bank!Other, Bank!shownVars
<1>4. Followed'
  BY <1>1, FailedFollows
<1>5. Numbered' /\ Named'
  BY DEF BankInv, Numbered, Named, Bank!DeletedWasNamed, Bank!Other, Bank!shownVars
<1> QED
  BY <1>3, <1>4, <1>5 DEF BankInv

-----------------------------------------------------------------------------
\* A list arrives: the newest is shown from now on, an older one puts the page in doubt.
LEMMA LoadedFollows ==
  ASSUME BankInv, BankTypes', NEW r \in requests, Bank!Loaded(r)
  PROVE  Followed'
<1>1. /\ r.served /\ r.kind = "load" /\ UNCHANGED <<bank, view, due, tally>>
      /\ requests' = {[x EXCEPT !.late = @ \/ x.id < r.id] : x \in requests \ {r}}
  BY DEF Bank!Loaded
<1> SUFFICES ASSUME tally.others = 0
             PROVE  /\ \A x \in requests' : x.served /\ x.kind # "update" => x.reply.ok
                    /\ \/ due'
                       \/ \E x \in requests' : Pending(x)
                       \/ \E l \in requests' : Newest(l)'
                       \/ /\ \A x \in requests' : x.kind = "load" => x.late
                          /\ doubt' \/ ShownIsListed'
  BY <1>1 DEF Followed, Pending
<1>2. r.reply.ok /\ \A x \in requests : x.served /\ x.kind # "update" => x.reply.ok
  BY <1>1 DEF BankInv, Followed
<1>3. /\ rows' = r.reply.rows /\ total' = r.reply.total
      /\ doubt' = (r.late \/ r.view # view)
  BY <1>2 DEF Bank!Loaded, Bank!ListedAnew
<1>4. /\ \A x \in requests \ {r} : \E y \in requests' :
              /\ y.id = x.id /\ y.kind = x.kind /\ y.scope = x.scope /\ y.ids = x.ids /\ y.of = x.of
              /\ y.view = x.view /\ y.served = x.served /\ y.reply = x.reply
              /\ (y.late <=> x.late \/ x.id < r.id)
      /\ \A y \in requests' : \E x \in requests \ {r} :
              /\ y.id = x.id /\ y.kind = x.kind /\ y.scope = x.scope /\ y.ids = x.ids /\ y.of = x.of
              /\ y.view = x.view /\ y.served = x.served /\ y.reply = x.reply
              /\ (y.late <=> x.late \/ x.id < r.id)
  BY <1>1, LateIs DEF BankInv
<1>5. \A x \in requests' : x.served /\ x.kind # "update" => x.reply.ok
  BY <1>2, <1>4
<1>6. CASE due \/ \E x \in requests : Pending(x)
  <2>1. \A x \in requests : Pending(x) => x # r
    BY <1>1 DEF Pending
  <2>2. ASSUME NEW x \in requests, Pending(x) PROVE \E y \in requests' : Pending(y)
    <3>1. PICK y \in requests' : y.kind = x.kind /\ y.served = x.served /\ y.reply = x.reply
      BY <1>4, <2>1, <2>2
    <3> QED
      BY <2>2, <3>1 DEF Pending
  <2> QED
    BY <1>1, <1>5, <1>6, <2>2
<1>7. ASSUME NEW x \in requests PROVE x.id \in Nat /\ r.id \in Nat
  BY DEF BankInv, Numbered, BankRequest
<1>8. CASE \E l \in requests : Newest(l)
  <2>1. PICK l \in requests : Newest(l)
    BY <1>8
  <2>2. CASE l # r
    <3>1. r.id <= l.id /\ r.id # l.id
      BY <1>1, <2>1, <2>2 DEF Newest, BankInv, Numbered
    <3>2. ~(l.id < r.id)
      BY <1>7, <3>1
    <3>3. PICK k \in requests' :
              /\ k.id = l.id /\ k.kind = l.kind /\ k.view = l.view /\ k.served = l.served
              /\ k.reply = l.reply /\ (k.late <=> l.late \/ l.id < r.id)
      BY <1>4, <2>2
    <3>4. Newest(k)
      <4>1. k.kind = "load" /\ ~k.late
        BY <2>1, <3>2, <3>3 DEF Newest
      <4>2. \A x \in requests : x.kind = "load" => x.id <= k.id
        BY <2>1, <3>3 DEF Newest
      <4>3. k.served => /\ k.reply.rows = Bank!Listed(k.view)
                        /\ k.reply.total = Bank!Cardinality(Bank!Matching(k.view.filter))
        BY <2>1, <3>3 DEF Newest
      <4> QED
        BY <4>1, <4>2, <4>3 DEF Newest
    <3>5. \A x \in requests' : x.kind = "load" => x.id <= k.id
      BY <1>4, <3>4 DEF Newest
    <3>6. Newest(k)'
      BY <1>1, <3>4, <3>5, NewestStays
    <3> QED
      BY <1>5, <3>6
  <2>3. CASE l = r
    <3>1. \A x \in requests \ {r} : x.kind = "load" => x.id <= r.id /\ x.id # r.id
      BY <2>1, <2>3 DEF Newest, BankInv, Numbered
    <3>2. \A x \in requests \ {r} : x.kind = "load" => x.id < r.id
      BY <1>7, <3>1
    <3>3. ASSUME NEW y \in requests', y.kind = "load" PROVE y.late
      <4>1. PICK x \in requests \ {r} : y.kind = x.kind /\ (y.late <=> x.late \/ x.id < r.id)
        BY <1>4
      <4> QED
        BY <3>2, <3>3, <4>1
    <3>4. CASE r.view = view
      <4>1. /\ rows' = Bank!Listed(view)
            /\ total' = Bank!Cardinality(Bank!Matching(view.filter))
        BY <1>1, <1>3, <2>1, <2>3, <3>4 DEF Newest
      <4>2. ShownIsListed'
        BY <1>1, <4>1 DEF ShownIsListed, Bank!Listed, Bank!Matching
      <4> QED
        BY <1>5, <3>3, <4>2
    <3>5. CASE r.view # view
      BY <1>3, <1>5, <3>3, <3>5
    <3> QED
      BY <3>4, <3>5
  <2> QED
    BY <2>2, <2>3
<1>9. CASE \A x \in requests : x.kind = "load" => x.late
  <2>1. ASSUME NEW y \in requests', y.kind = "load" PROVE y.late
    <3>1. PICK x \in requests \ {r} : y.kind = x.kind /\ (y.late <=> x.late \/ x.id < r.id)
      BY <1>4
    <3> QED
      BY <1>9, <2>1, <3>1
  <2>2. doubt'
    BY <1>1, <1>3, <1>9
  <2> QED
    BY <1>5, <2>1, <2>2
<1> QED
  BY <1>6, <1>8, <1>9 DEF BankInv, Followed

LEMMA LoadedKeeps ==
  ASSUME BankInv, NEW r \in requests, Bank!Loaded(r)
  PROVE  BankInv'
<1>1. /\ r.kind = "load" /\ UNCHANGED <<bank, view, allMode, target, preview, due, tally, changed>>
      /\ requests' = {[x EXCEPT !.late = @ \/ x.id < r.id] : x \in requests \ {r}}
      /\ IF r.reply.ok THEN Bank!ListedAnew(r) ELSE UNCHANGED <<rows, total, selected>>
      /\ busy' = (busy /\ r.after # "bulk")
      /\ doubt' = IF ~r.reply.ok THEN doubt ELSE r.late \/ r.view # view
  BY DEF Bank!Loaded
<1>2. /\ r.reply.rows \subseteq BankQuestions
      /\ r.reply.ok => r.reply.total \in Counts
      /\ r.late \in BOOLEAN
  BY <1>1 DEF BankInv, Numbered, BankRequest, Reply
<1>3. /\ rows' \subseteq BankQuestions /\ selected' \subseteq rows' /\ total' \in Counts
      /\ selected' \subseteq selected
  BY <1>1, <1>2 DEF BankInv, BankTypes, Bank!ListedAnew
<1>4. busy' \in BOOLEAN /\ doubt' \in BOOLEAN
  BY <1>1, <1>2 DEF BankInv, BankTypes
<1>5. BankTypes'
  BY <1>1, <1>3, <1>4 DEF BankInv, BankTypes
<1>6. /\ Numbered'
      /\ \A y \in requests' : \E x \in requests \ {r} :
              /\ y.id = x.id /\ y.kind = x.kind /\ y.scope = x.scope /\ y.ids = x.ids /\ y.of = x.of
              /\ y.view = x.view /\ y.served = x.served /\ y.reply = x.reply
              /\ (y.late <=> x.late \/ x.id < r.id)
  BY <1>1, LateIs DEF BankInv
<1>7. \A x \in requests' : x.kind = "delete" /\ x.scope = "selected" => x.ids \subseteq x.of
  BY <1>6 DEF BankInv, Named
<1>8. Named'
  BY <1>1, <1>3, <1>7 DEF BankInv, Named, Bank!DeletedWasNamed
<1>9. Followed'
  BY <1>5, LoadedFollows
<1> QED
  BY <1>5, <1>6, <1>8, <1>9 DEF BankInv

\* A handler goes on: what it reloads, or not.
LEMMA HandlerKeeps ==
  ASSUME BankInv, BankTypes', NEW r \in requests, r.served, r.kind # "load",
         \/ r.reply.ok /\ \E after \in {"none", "bulk", "dedupe"} : Bank!Follow(r, after)
         \/ ~Pending(r) /\ requests' = requests \ {r},
         UNCHANGED <<bank, view, rows, total, due, doubt, changed>>,
         tally'.others = tally.others,
         target' = target, selected' \subseteq selected
  PROVE  BankInv'
<1>1. CASE ~Pending(r) /\ requests' = requests \ {r}
  <2>1. Numbered'
    BY <1>1, FewerNumbered DEF BankInv
  <2>2. /\ \A x \in requests : x.kind = "load" \/ Pending(x) => x \in requests'
        /\ \A x \in requests' : x \in requests
    BY <1>1
  <2>3. Followed'
    BY <2>2, FollowedStays DEF BankInv
  <2>4. Named'
    BY <2>2, NamedStays DEF BankInv
  <2> QED
    BY <2>1, <2>3, <2>4 DEF BankInv
<1>2. ASSUME NEW after \in {"none", "bulk", "dedupe"}, Bank!Follow(r, after)
      PROVE  BankInv'
  <2>1. PICK q : q = Bank!Reload(r, after)
    OBVIOUS
  <2>2. /\ q \in BankRequest /\ q.id = Bank!NextId(requests) /\ q.kind = "load"
        /\ ~q.served /\ ~q.late /\ ~q.reply.ok
    BY <2>1, ReloadIs DEF BankInv
  <2>3. requests' = (requests \ {r}) \cup {q}
    BY <1>2, <2>1 DEF Bank!Follow
  <2>4. Numbered' /\ \A x \in requests' : x # q => x.id < q.id
    BY <2>2, <2>3, OneMoreNumbered DEF BankInv
  <2>5. \A x \in requests' : x = q \/ (x \in requests /\ x.id < q.id /\ x.id \in Nat)
    BY <2>3, <2>4 DEF Numbered, BankRequest
  <2>6. q \in requests' /\ q.id \in Nat
    BY <2>2, <2>3 DEF BankRequest
  <2>7. Followed'
    BY <2>2, <2>5, <2>6, LoadFollows DEF BankInv
  <2>8. Named'
    BY <2>2, <2>5, NamedStays DEF BankInv
  <2> QED
    BY <2>4, <2>7, <2>8 DEF BankInv
<1> QED
  BY <1>1, <1>2

LEMMA BulkDoneKeeps ==
  ASSUME BankInv, NEW r \in requests, Bank!BulkDone(r)
  PROVE  BankInv'
<1>1. /\ r.served /\ r.kind # "load"
      /\ UNCHANGED <<bank, view, rows, total, target, preview, due, tally, changed, doubt>>
      /\ \/ /\ r.reply.ok /\ Bank!Follow(r, "bulk") /\ allMode' = FALSE /\ busy' = busy
            /\ selected' = selected \ r.of
         \/ /\ ~r.reply.ok /\ busy' = FALSE /\ requests' = requests \ {r}
            /\ UNCHANGED <<allMode, selected>>
  BY DEF Bank!BulkDone
<1>2. BankTypes'
  BY <1>1 DEF BankInv, BankTypes
<1> QED
  BY <1>1, <1>2, HandlerKeeps DEF Pending

LEMMA EditDoneKeeps ==
  ASSUME BankInv, NEW r \in requests, Bank!EditDone(r)
  PROVE  BankInv'
<1>1. /\ r.served /\ r.kind # "load"
      /\ UNCHANGED <<bank, Bank!shownVars, tally, changed, doubt>>
      /\ \/ r.reply.ok /\ Bank!Follow(r, "none")
         \/ ~r.reply.ok /\ requests' = requests \ {r}
  BY DEF Bank!EditDone
<1>2. BankTypes'
  BY <1>1 DEF BankInv, BankTypes, Bank!shownVars
<1> QED
  BY <1>1, <1>2, HandlerKeeps DEF Pending, Bank!shownVars

LEMMA ScannedKeeps ==
  ASSUME BankInv, NEW r \in requests, Bank!Scanned(r)
  PROVE  BankInv'
<1>1. /\ r.served /\ r.kind = "scan" /\ requests' = requests \ {r}
      /\ preview' = IF r.reply.ok THEN r.reply.total ELSE preview
      /\ UNCHANGED <<bank, view, rows, total, selected, allMode, target, busy, due,
                     tally, changed, doubt>>
  BY DEF Bank!Scanned
<1>2. r.reply.total \in {-1} \cup Counts
  BY DEF BankInv, Numbered, BankRequest, Reply
<1>3. BankTypes'
  BY <1>1, <1>2 DEF BankInv, BankTypes
<1> QED
  BY <1>1, <1>3, HandlerKeeps DEF Pending

LEMMA DedupeDoneKeeps ==
  ASSUME BankInv, NEW r \in requests, Bank!DedupeDone(r)
  PROVE  BankInv'
<1>1. /\ r.served /\ r.kind # "load" /\ preview' = -1
      /\ UNCHANGED <<bank, view, rows, total, selected, allMode, target, busy, due,
                     tally, changed, doubt>>
      /\ \/ r.reply.ok /\ Bank!Follow(r, "dedupe")
         \/ ~r.reply.ok /\ requests' = requests \ {r}
  BY DEF Bank!DedupeDone
<1>2. BankTypes'
  BY <1>1 DEF BankInv, BankTypes
<1> QED
  BY <1>1, <1>2, HandlerKeeps DEF Pending

-----------------------------------------------------------------------------
\* The view changes.
LEMMA ViewKeeps ==
  ASSUME BankInv, view' \in Views, due' = TRUE, tally' = [tally EXCEPT !.gestures = @ + 1],
         UNCHANGED <<bank, rows, total, selected, allMode, target, preview, busy,
                     requests, changed, doubt>>
  PROVE  BankInv'
<1>1. tally' \in [gestures : Nat, others : Nat] /\ tally'.others = tally.others
  BY DEF BankInv, BankTypes
<1>2. BankTypes'
  BY <1>1 DEF BankInv, BankTypes
<1>3. Followed'
  BY <1>1, DueFollows DEF BankInv
<1>4. Numbered' /\ Named'
  BY DEF BankInv, Numbered, Named, Bank!DeletedWasNamed
<1> QED
  BY <1>2, <1>3, <1>4 DEF BankInv

LEMMA SetFilterKeeps ==
  ASSUME BankInv, NEW f \in Filters, Bank!SetFilter(f)
  PROVE  BankInv'
<1>1. PICK u : u = [view EXCEPT !.filter = f]
  OBVIOUS
<1>2. view' = [u EXCEPT !.page = 1]
  BY <1>1 DEF Bank!SetFilter, BankInv, BankTypes, Views
<1>3. u \in Views
  BY <1>1 DEF BankInv, BankTypes, Views
<1>4. view' \in Views
  BY <1>2, <1>3 DEF Views
<1> QED
  BY <1>4, ViewKeeps DEF Bank!SetFilter, Bank!Count

LEMMA SetPageSizeKeeps ==
  ASSUME BankInv, NEW n \in PageSizes, Bank!SetPageSize(n)
  PROVE  BankInv'
<1>1. PICK u : u = [view EXCEPT !.size = n]
  OBVIOUS
<1>2. view' = [u EXCEPT !.page = 1]
  BY <1>1 DEF Bank!SetPageSize, BankInv, BankTypes, Views
<1>3. u \in Views
  BY <1>1 DEF BankInv, BankTypes, Views
<1>4. view' \in Views
  BY <1>2, <1>3 DEF Views
<1> QED
  BY <1>4, ViewKeeps DEF Bank!SetPageSize, Bank!Count

LEMMA TurnPageKeeps ==
  ASSUME BankInv, Bank!TurnPage
  PROVE  BankInv'
<1>1. view \in Views /\ view.page \in Nat /\ view.page # 0
  BY DEF BankInv, BankTypes, Views
<1>2. \/ view.page > 1 /\ view' = [view EXCEPT !.page = @ - 1]
      \/ view' = [view EXCEPT !.page = @ + 1]
  BY DEF Bank!TurnPage
<1>3. view' \in Views
  BY <1>1, <1>2 DEF Views
<1> QED
  BY <1>3, ViewKeeps DEF Bank!TurnPage, Bank!Count

LEMMA LoadKeeps ==
  ASSUME BankInv, Bank!Load
  PROVE  BankInv'
<1>1. PICK q : q = Bank!Request("load", "selected", {}, {})
  OBVIOUS
<1>2. /\ q \in BankRequest /\ q.id = Bank!NextId(requests) /\ q.kind = "load"
      /\ ~q.served /\ ~q.late /\ ~q.reply.ok
  BY <1>1, RequestIs DEF BankInv, Kinds
<1>3. /\ requests' = requests \cup {q} /\ due' = FALSE
      /\ UNCHANGED <<bank, view, rows, total, selected, allMode, target, preview, busy,
                     tally, changed, doubt>>
  BY <1>1 DEF Bank!Load, Bank!Send
<1>4. Numbered' /\ \A x \in requests' : x # q => x.id < q.id
  BY <1>2, <1>3, OneMoreNumbered DEF BankInv
<1>5. \A x \in requests' : x = q \/ (x \in requests /\ x.id < q.id /\ x.id \in Nat)
  BY <1>3, <1>4 DEF Numbered, BankRequest
<1>6. q \in requests' /\ q.id \in Nat
  BY <1>2, <1>3 DEF BankRequest
<1>7. Followed'
  BY <1>2, <1>3, <1>5, <1>6, LoadFollows DEF BankInv
<1>8. Named'
  BY <1>2, <1>3, <1>5, NamedStays DEF BankInv
<1>9. BankTypes'
  BY <1>3 DEF BankInv, BankTypes
<1> QED
  BY <1>4, <1>7, <1>8, <1>9 DEF BankInv

-----------------------------------------------------------------------------
\* Gestures that send nothing, and those that send an operation.
LEMMA GestureKeeps ==
  ASSUME BankInv, BankTypes', UNCHANGED <<bank, view, rows, total, due, changed, doubt>>,
         tally'.others = tally.others,
         \/ target' = target \/ target'.kind # "delete"
         \/ selected' \subseteq target'.ids,
         selected' \subseteq selected \/ target'.kind # "delete",
         \/ requests' = requests
         \/ \E kind \in Kinds \ {"load"}, scope \in {"selected", "all_matching"},
              ids \in SUBSET BankQuestions, of \in SUBSET BankQuestions :
                /\ requests' = requests \cup {Bank!Request(kind, scope, ids, of)}
                /\ kind = "delete" /\ scope = "selected" => ids \subseteq of
  PROVE  BankInv'
<1>1. target'.kind = "delete" => selected' \subseteq target'.ids
  BY DEF BankInv, Named
<1>2. Bank!DeletedWasNamed'
  BY DEF BankInv, Named, Bank!DeletedWasNamed
<1>3. CASE requests' = requests
  <2>1. Numbered' /\ Named'
    BY <1>1, <1>2, <1>3 DEF BankInv, Numbered, Named
  <2>2. Followed'
    BY <1>3, FollowedStays DEF BankInv
  <2> QED
    BY <2>1, <2>2 DEF BankInv
<1>4. ASSUME NEW kind \in Kinds \ {"load"}, NEW scope \in {"selected", "all_matching"},
             NEW ids \in SUBSET BankQuestions, NEW of \in SUBSET BankQuestions,
             requests' = requests \cup {Bank!Request(kind, scope, ids, of)},
             kind = "delete" /\ scope = "selected" => ids \subseteq of
      PROVE  BankInv'
  <2>1. PICK q : q = Bank!Request(kind, scope, ids, of)
    OBVIOUS
  <2>2. /\ q \in BankRequest /\ q.id = Bank!NextId(requests) /\ q.kind = kind
        /\ q.scope = scope /\ q.ids = ids /\ q.of = of /\ ~q.served /\ ~q.late /\ ~q.reply.ok
    BY <2>1, RequestIs DEF BankInv
  <2>3. requests' = requests \cup {q}
    BY <1>4, <2>1
  <2>4. Numbered'
    BY <2>2, <2>3, OneMoreNumbered DEF BankInv
  <2>5. Named'
    BY <1>1, <1>2, <1>4, <2>2, <2>3 DEF BankInv, Named
  <2>6. Followed'
    BY <2>2, <2>3, FollowedStays DEF BankInv
  <2> QED
    BY <2>4, <2>5, <2>6 DEF BankInv
<1> QED
  BY <1>3, <1>4

LEMMA SelectKeeps ==
  ASSUME BankInv, Bank!Select
  PROVE  BankInv'
<1>1. /\ tally' = [tally EXCEPT !.gestures = @ + 1] /\ target = Bank!NoTarget
      /\ UNCHANGED <<bank, view, rows, total, target, preview, busy, due, requests, changed, doubt>>
  BY DEF Bank!Select, Bank!Count, Bank!Free
<1>2. selected' \subseteq rows /\ allMode' \in BOOLEAN
  BY DEF Bank!Select, Bank!ToggleSelect, Bank!SelectPage, Bank!SelectAllMatching,
         Bank!DeselectAll, BankInv, BankTypes
<1>3. tally' \in [gestures : Nat, others : Nat] /\ tally'.others = tally.others
  BY <1>1 DEF BankInv, BankTypes
<1>4. BankTypes'
  BY <1>1, <1>2, <1>3 DEF BankInv, BankTypes
<1>5. target'.kind # "delete"
  BY <1>1 DEF Bank!NoTarget
<1> QED
  BY <1>1, <1>3, <1>4, <1>5, GestureKeeps

LEMMA AskBulkKeeps ==
  ASSUME BankInv, Bank!AskBulk
  PROVE  BankInv'
<1>1. /\ tally' = [tally EXCEPT !.gestures = @ + 1]
      /\ UNCHANGED <<bank, view, rows, total, selected, allMode, preview, busy, due,
                     requests, changed, doubt>>
  BY DEF Bank!AskBulk, Bank!Count
<1>2. PICK kind \in {"archive", "delete"}, ids \in SUBSET rows :
        /\ target' = [kind |-> kind, ids |-> ids,
                      total |-> IF allMode /\ ids = selected THEN total ELSE -1]
        /\ kind = "delete" => ids = selected
  <2>1. selected \in SUBSET rows
    BY DEF BankInv, BankTypes
  <2> QED
    BY <2>1 DEF Bank!AskBulk, Bank!Ask
<1>3. tally' \in [gestures : Nat, others : Nat] /\ tally'.others = tally.others
  BY <1>1 DEF BankInv, BankTypes
<1>4. target' \in [kind : {"none", "archive", "delete"}, ids : SUBSET BankQuestions,
                   total : {-1} \cup Counts]
  BY <1>2 DEF BankInv, BankTypes
<1>5. BankTypes'
  BY <1>1, <1>2, <1>3, <1>4 DEF BankInv, BankTypes
<1>6. target'.kind # "delete" \/ selected' \subseteq target'.ids
  BY <1>1, <1>2
<1> QED
  BY <1>1, <1>3, <1>5, <1>6, GestureKeeps

\* What the buttons send for a selection.
LEMMA BulkSends ==
  ASSUME BankInv, NEW kind \in {"publish", "archive", "delete"}, NEW of \in SUBSET BankQuestions,
         Bank!Bulk(kind, of), kind = "delete" => selected \subseteq of
  PROVE  /\ busy' \in BOOLEAN
         /\ \/ requests' = requests
            \/ \E k \in Kinds \ {"load"}, scope \in {"selected", "all_matching"},
                 ids \in SUBSET BankQuestions, o \in SUBSET BankQuestions :
                   /\ requests' = requests \cup {Bank!Request(k, scope, ids, o)}
                   /\ k = "delete" /\ scope = "selected" => ids \subseteq o
<1>1. CASE of = {} /\ ~allMode
  BY <1>1 DEF Bank!Bulk, BankInv, BankTypes
<1>2. CASE ~(of = {} /\ ~allMode)
  <2>1. PICK scope \in {"selected", "all_matching"} :
          scope = IF allMode THEN "all_matching" ELSE "selected"
    OBVIOUS
  <2>2. busy' = TRUE /\ requests' = requests \cup {Bank!Request(kind, scope, selected, of)}
    BY <1>2, <2>1 DEF Bank!Bulk, Bank!Send, Bank!BulkPayload
  <2>3. selected \in SUBSET BankQuestions /\ kind \in Kinds \ {"load"}
    BY DEF BankInv, BankTypes, Kinds
  <2> QED
    BY <2>1, <2>2, <2>3
<1> QED
  BY <1>1, <1>2

LEMMA ConfirmKeeps ==
  ASSUME BankInv, Bank!Confirm
  PROVE  BankInv'
<1>1. /\ target # Bank!NoTarget /\ target' = Bank!NoTarget
      /\ Bank!Bulk(target.kind, target.ids)
      /\ UNCHANGED <<bank, view, rows, total, selected, allMode, preview, due, tally,
                     changed, doubt>>
  BY DEF Bank!Confirm
<1>2. target' \in [kind : {"none", "archive", "delete"}, ids : SUBSET BankQuestions,
                   total : {-1} \cup Counts] /\ target'.kind # "delete"
  BY <1>1 DEF Bank!NoTarget
<1>3. target.kind \in {"none", "archive", "delete"} /\ target.ids \in SUBSET BankQuestions
  BY DEF BankInv, BankTypes
<1>4. target.kind \in {"archive", "delete"}
  BY <1>1, <1>3 DEF BankInv, BankTypes
<1>5. target.kind = "delete" => selected \subseteq target.ids
  BY DEF BankInv, Named
<1>6. /\ busy' \in BOOLEAN
      /\ \/ requests' = requests
         \/ \E k \in Kinds \ {"load"}, scope \in {"selected", "all_matching"},
              ids \in SUBSET BankQuestions, o \in SUBSET BankQuestions :
                /\ requests' = requests \cup {Bank!Request(k, scope, ids, o)}
                /\ k = "delete" /\ scope = "selected" => ids \subseteq o
  <2>1. PICK kind, of : kind = target.kind /\ of = target.ids
    OBVIOUS
  <2>2. /\ kind \in {"publish", "archive", "delete"} /\ of \in SUBSET BankQuestions
        /\ Bank!Bulk(kind, of) /\ (kind = "delete" => selected \subseteq of)
    BY <1>1, <1>3, <1>4, <1>5, <2>1
  <2> QED
    BY <2>2, BulkSends
<1>7. BankTypes'
  BY <1>1, <1>2, <1>6 DEF BankInv, BankTypes
<1> QED
  BY <1>1, <1>2, <1>6, <1>7, GestureKeeps

LEMMA DismissKeeps ==
  ASSUME BankInv, Bank!Dismiss
  PROVE  BankInv'
<1>1. /\ target' = Bank!NoTarget /\ preview' = -1
      /\ UNCHANGED <<bank, view, rows, total, selected, allMode, busy, due, requests,
                     tally, changed, doubt>>
  BY DEF Bank!Dismiss
<1>2. target' \in [kind : {"none", "archive", "delete"}, ids : SUBSET BankQuestions,
                   total : {-1} \cup Counts] /\ target'.kind # "delete"
  BY <1>1 DEF Bank!NoTarget
<1>3. BankTypes'
  BY <1>1, <1>2 DEF BankInv, BankTypes
<1> QED
  BY <1>1, <1>2, <1>3, GestureKeeps

LEMMA PublishKeeps ==
  ASSUME BankInv, Bank!Publish
  PROVE  BankInv'
<1>1. /\ tally' = [tally EXCEPT !.gestures = @ + 1]
      /\ UNCHANGED <<bank, view, rows, total, selected, allMode, target, preview, due,
                     changed, doubt>>
  BY DEF Bank!Publish, Bank!Count
<1>2. PICK of \in SUBSET BankQuestions : Bank!Bulk("publish", of)
  <2>1. /\ selected \in SUBSET BankQuestions
        /\ \A x \in rows : {x} \in SUBSET BankQuestions
    BY DEF BankInv, BankTypes
  <2>2. PICK of \in {selected} \cup {{x} : x \in rows} : Bank!Bulk("publish", of)
    BY DEF Bank!Publish
  <2> QED
    BY <2>1, <2>2
<1>3. /\ busy' \in BOOLEAN
      /\ \/ requests' = requests
         \/ \E k \in Kinds \ {"load"}, scope \in {"selected", "all_matching"},
              ids \in SUBSET BankQuestions, o \in SUBSET BankQuestions :
                /\ requests' = requests \cup {Bank!Request(k, scope, ids, o)}
                /\ k = "delete" /\ scope = "selected" => ids \subseteq o
  BY <1>2, BulkSends
<1>4. tally' \in [gestures : Nat, others : Nat] /\ tally'.others = tally.others
  BY <1>1 DEF BankInv, BankTypes
<1>5. BankTypes'
  BY <1>1, <1>3, <1>4 DEF BankInv, BankTypes
<1> QED
  BY <1>1, <1>3, <1>4, <1>5, GestureKeeps

LEMMA EditKeeps ==
  ASSUME BankInv, NEW kind \in {"update", "create", "scan"}, NEW ids \in SUBSET BankQuestions,
         Bank!Edit(kind, ids)
  PROVE  BankInv'
<1>1. /\ tally' = [tally EXCEPT !.gestures = @ + 1]
      /\ requests' = requests \cup {Bank!Request(kind, "selected", ids, {})}
      /\ UNCHANGED <<bank, Bank!shownVars, changed, doubt>>
  BY DEF Bank!Edit, Bank!Send, Bank!Count
<1>2. tally' \in [gestures : Nat, others : Nat] /\ tally'.others = tally.others
  BY <1>1 DEF BankInv, BankTypes
<1>3. BankTypes'
  BY <1>1, <1>2 DEF BankInv, BankTypes, Bank!shownVars
<1>4. /\ kind \in Kinds \ {"load"} /\ kind # "delete" /\ {} \in SUBSET BankQuestions
  BY DEF Kinds
<1>5. \E k \in Kinds \ {"load"}, scope \in {"selected", "all_matching"},
         i \in SUBSET BankQuestions, o \in SUBSET BankQuestions :
            /\ requests' = requests \cup {Bank!Request(k, scope, i, o)}
            /\ k = "delete" /\ scope = "selected" => i \subseteq o
  BY <1>1, <1>4
<1> QED
  BY <1>1, <1>2, <1>3, <1>5, GestureKeeps DEF Bank!shownVars

LEMMA EditOneKeeps ==
  ASSUME BankInv, Bank!EditOne
  PROVE  BankInv'
<1>1. rows \subseteq BankQuestions
  BY DEF BankInv, BankTypes
<1>2. \/ \E x \in BankQuestions : Bank!Edit("update", {x})
      \/ \E x \in BankQuestions : Bank!Edit("create", {x})
      \/ Bank!Edit("scan", {})
  BY <1>1 DEF Bank!EditOne
<1>3. CASE \E x \in BankQuestions : Bank!Edit("update", {x}) \/ Bank!Edit("create", {x})
  <2>1. PICK x \in BankQuestions : Bank!Edit("update", {x}) \/ Bank!Edit("create", {x})
    BY <1>3
  <2>2. {x} \in SUBSET BankQuestions
    OBVIOUS
  <2> QED
    BY <2>1, <2>2, EditKeeps
<1>4. CASE Bank!Edit("scan", {})
  <2>1. {} \in SUBSET BankQuestions
    OBVIOUS
  <2> QED
    BY <1>4, <2>1, EditKeeps
<1> QED
  BY <1>2, <1>3, <1>4

LEMMA ConfirmDedupeKeeps ==
  ASSUME BankInv, Bank!ConfirmDedupe
  PROVE  BankInv'
<1>1. /\ preview' = -1
      /\ \/ requests' = requests
         \/ requests' = requests \cup {Bank!Request("dedupe", "selected", {}, {})}
      /\ UNCHANGED <<bank, view, rows, total, selected, allMode, target, busy, due,
                     tally, changed, doubt>>
  BY DEF Bank!ConfirmDedupe, Bank!Send
<1>2. BankTypes'
  BY <1>1 DEF BankInv, BankTypes
<1>3. /\ "dedupe" \in Kinds \ {"load"} /\ {} \in SUBSET BankQuestions
  BY DEF Kinds
<1>4. \/ requests' = requests
      \/ \E k \in Kinds \ {"load"}, scope \in {"selected", "all_matching"},
           i \in SUBSET BankQuestions, o \in SUBSET BankQuestions :
             /\ requests' = requests \cup {Bank!Request(k, scope, i, o)}
             /\ k = "delete" /\ scope = "selected" => i \subseteq o
  BY <1>1, <1>3
<1> QED
  BY <1>1, <1>2, <1>4, GestureKeeps

LEMMA BankStep ==
  ASSUME Bank!BankAssumption, BankInv, [Bank!Next]_Bank!bankVars
  PROVE  BankInv'
<1>1. CASE UNCHANGED Bank!bankVars
  <2>1. /\ UNCHANGED <<bank, view, rows, total, selected, allMode, target, preview, busy, due>>
        /\ UNCHANGED <<requests, tally, changed, doubt>>
    BY <1>1 DEF Bank!bankVars, Bank!shownVars
  <2>2. BankTypes'
    BY <2>1 DEF BankInv, BankTypes
  <2> QED
    BY <2>1, <2>2, GestureKeeps
<1>2. ASSUME NEW r \in requests, Bank!Serve(r) \/ Bank!Fail(r) PROVE BankInv'
  BY <1>2, ServeKeeps, FailKeeps
<1>3. ASSUME NEW r \in requests, \/ Bank!Loaded(r) \/ Bank!BulkDone(r) \/ Bank!EditDone(r)
                                \/ Bank!Scanned(r) \/ Bank!DedupeDone(r)
      PROVE  BankInv'
  BY <1>3, LoadedKeeps, BulkDoneKeeps, EditDoneKeeps, ScannedKeeps, DedupeDoneKeeps
<1>4. ASSUME NEW x \in BankQuestions, NEW st \in {"published", "gone"}, Bank!Other(x, st)
      PROVE  BankInv'
  BY <1>4, OtherKeeps
<1>5. ASSUME NEW f \in Filters, Bank!SetFilter(f) PROVE BankInv'
  BY <1>5, SetFilterKeeps
<1>6. ASSUME NEW n \in PageSizes, Bank!SetPageSize(n) PROVE BankInv'
  BY <1>6, SetPageSizeKeeps
<1>7. CASE Bank!TurnPage \/ Bank!Load \/ Bank!Select \/ Bank!AskBulk
  BY <1>7, TurnPageKeeps, LoadKeeps, SelectKeeps, AskBulkKeeps
<1>8. CASE Bank!Confirm \/ Bank!Dismiss \/ Bank!Publish \/ Bank!EditOne \/ Bank!ConfirmDedupe
  BY <1>8, ConfirmKeeps, DismissKeeps, PublishKeeps, EditOneKeeps, ConfirmDedupeKeeps
<1> QED
  BY <1>1, <1>2, <1>3, <1>4, <1>5, <1>6, <1>7, <1>8 DEF Bank!Next

\* The invariant that the theorems below rest on: the selection is of what is listed, what is
\* to be deleted was named, and what the list needs to become the server's is on its way.
THEOREM BankAlwaysCoherent ==
  ASSUME Bank!BankAssumption PROVE Bank!Spec => []BankInv
<1>1. Bank!Init => BankInv
  BY BankStart
<1>2. BankInv /\ [Bank!Next]_Bank!bankVars => BankInv'
  BY BankStep
<1> QED
  BY <1>1, <1>2, PTL DEF Bank!Spec

\* Type correctness; the user sees every question that an operation on the selection is
\* about, whatever answers arrive; and a permanent deletion of the selection removes nothing
\* that its dialog did not count, although it is sent from the selection of a later moment.
THEOREM DeletedWasAlwaysNamed ==
  ASSUME Bank!BankAssumption
  PROVE  Bank!Spec => [](Bank!TypeOK /\ Bank!SelectionIsListed /\ Bank!DeletedWasNamed)
<1>1. ASSUME BankInv PROVE Bank!TypeOK
  <2>1. /\ Counts = 0 .. Bank!Cardinality(BankQuestions)
        /\ \A x \in {-1} \cup Counts : x \in -1 .. Bank!Cardinality(BankQuestions)
    BY BankCounts DEF Counts
  <2> QED
    BY <1>1, <2>1 DEF BankInv, BankTypes, Bank!TypeOK, Views
<1>2. BankInv => Bank!SelectionIsListed /\ Bank!DeletedWasNamed
  BY DEF BankInv, BankTypes, Named, Bank!SelectionIsListed
<1> QED
  BY <1>1, <1>2, BankAlwaysCoherent, PTL

\* At rest the list and its total are those of the server for the view that is shown, unless
\* somebody else changed the bank, a request failed, or the last answer was late or for
\* another view: every change of the bank and of the view is followed by a load that sees it.
THEOREM QuietListIsAlwaysCurrent ==
  ASSUME Bank!BankAssumption PROVE Bank!Spec => []Bank!QuietListIsCurrent
<1>1. BankInv => Bank!QuietListIsCurrent
  BY DEF BankInv, Followed, ShownIsListed, Bank!QuietListIsCurrent
<1> QED
  BY <1>1, BankAlwaysCoherent, PTL

=============================================================================

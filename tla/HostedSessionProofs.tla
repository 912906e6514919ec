------------------------ MODULE HostedSessionProofs ------------------------
(***************************************************************************)
(* Theorems about the session of /client, for every set of tabs and calls  *)
(* and every bound: its types, and that a token is only stored by the tab  *)
(* that began the login it is of.                                          *)
(***************************************************************************)
EXTENDS HostedSession, FiniteSetTheorems, TLAPS

-----------------------------------------------------------------------------
(***************************************************************************)
(* The inductive invariant.                                                *)
(***************************************************************************)
\* What a tab keeps as pending state is a login it began itself.
PendingIsOwn ==
  \A t \in Tabs : tab[t].state # 0 =>
    tab[t].state \in DOMAIN starter /\ starter[tab[t].state] = t

\* A tab that Auth has is there for a login that was begun.
UrlsBegun ==
  \A t \in Tabs :
    /\ tab[t].url \in {0} \cup DOMAIN starter
    /\ tab[t].page \in {"leaving", "auth"} => tab[t].url # 0

\* A call that waits for Auth has a try left.
TriesLeft == \A c \in Calls : call[c].step = "sent" => call[c].tries < MaxTries

SessionInv == TypeOK /\ PendingIsOwn /\ UrlsBegun /\ TriesLeft

\* What a step keeps of the tabs, and which step provisions.
TabsKept ==
  /\ tab' \in [Tabs -> TabRow]
  /\ \E n \in Tokens : starter' \in [1 .. n -> Tabs]
  /\ DOMAIN starter \subseteq DOMAIN starter'
  /\ PendingIsOwn' /\ UrlsBegun'

NoneProvisions ==
  \A t \in Tabs : tab'[t].page = "provisioning" => tab[t].page = "provisioning"

GrowthKept == posts' \cup clicks' \cup lost' \cup registered' \subseteq DOMAIN starter'

-----------------------------------------------------------------------------
(***************************************************************************)
(* The tabs.                                                               *)
(***************************************************************************)
LEMMA Zero == ASSUME HostedSessionAssumption PROVE 0 \in Tokens
BY DEF Tokens, HostedSessionAssumption

LEMMA LoginsNumbered ==
  ASSUME HostedSessionAssumption, TypeOK
  PROVE  \E n \in Nat : /\ n <= MaxLogins /\ starter \in [1 .. n -> Tabs]
                        /\ DOMAIN starter = 1 .. n /\ NextLogin = n + 1
<1>1. PICK n \in 0 .. MaxLogins : starter \in [1 .. n -> Tabs]
  BY DEF TypeOK, Tokens
<1>2. n \in Nat /\ n <= MaxLogins
  BY <1>1 DEF HostedSessionAssumption
<1>3. Cardinality(1 .. n) = n
  BY <1>2, FS_Interval
<1>4. DOMAIN starter = 1 .. n
  BY <1>1
<1> QED
  BY <1>1, <1>2, <1>3, <1>4 DEF NextLogin

\* A login begins: it is the next one, and the tab's own.
LEMMA StartKeeps ==
  ASSUME HostedSessionAssumption, SessionInv, NEW t \in Tabs,
         NEW register \in BOOLEAN, StartHostedAuth(t, register)
  PROVE  /\ TabsKept /\ NoneProvisions
         /\ registered' = registered => GrowthKept
<1>1. PICK n \in Nat : /\ n <= MaxLogins /\ starter \in [1 .. n -> Tabs]
                       /\ DOMAIN starter = 1 .. n /\ NextLogin = n + 1
  BY LoginsNumbered DEF SessionInv
<1> DEFINE row == [page |-> "leaving", state |-> n + 1, url |-> n + 1,
                   register |-> register]
<1>2. /\ n + 1 \in 1 .. MaxLogins
      /\ starter' = [k \in 1 .. n + 1 |-> IF k = n + 1 THEN t ELSE starter[k]]
      /\ tab' = [tab EXCEPT ![t] = row]
      /\ posts' \subseteq posts \cup {n + 1} /\ UNCHANGED <<clicks, lost>>
  BY <1>1 DEF StartHostedAuth, Logins, PostClick
<1>3. /\ row \in TabRow /\ row.state = n + 1 /\ row.url = n + 1
      /\ row.page = "leaving"
  BY <1>1, <1>2 DEF TabRow, Pages, Tokens, HostedSessionAssumption
<1> HIDE DEF row
<1>4. /\ tab' \in [Tabs -> TabRow]
      /\ tab'[t] = row /\ \A u \in Tabs \ {t} : tab'[u] = tab[u]
  BY <1>2, <1>3 DEF SessionInv, TypeOK
<1>5. starter' \in [1 .. n + 1 -> Tabs] /\ n + 1 \in Tokens
  BY <1>1, <1>2 DEF Tokens, HostedSessionAssumption
<1>6. /\ starter'[n + 1] = t /\ DOMAIN starter' = 1 .. n + 1
      /\ \A k \in 1 .. n : starter'[k] = starter[k] /\ k \in 1 .. n + 1
      /\ n + 1 \in 1 .. n + 1 /\ n + 1 # 0
  BY <1>1, <1>2
<1>7. PendingIsOwn'
  <2> SUFFICES ASSUME NEW u \in Tabs, tab'[u].state # 0
               PROVE  /\ tab'[u].state \in DOMAIN starter'
                      /\ starter'[tab'[u].state] = u
    BY DEF PendingIsOwn
  <2>1. CASE u = t
    BY <1>3, <1>4, <1>6, <2>1
  <2>2. CASE u # t
    <3>1. tab[u].state \in 1 .. n /\ starter[tab[u].state] = u
      BY <1>1, <1>4, <2>2 DEF SessionInv, PendingIsOwn
    <3> QED
      BY <1>4, <1>6, <2>2, <3>1
  <2> QED
    BY <2>1, <2>2
<1>8. UrlsBegun'
  <2> SUFFICES ASSUME NEW u \in Tabs
               PROVE  /\ tab'[u].url \in {0} \cup DOMAIN starter'
                      /\ tab'[u].page \in {"leaving", "auth"} => tab'[u].url # 0
    BY DEF UrlsBegun
  <2>1. CASE u = t
    BY <1>3, <1>4, <1>6, <2>1
  <2>2. CASE u # t
    BY <1>1, <1>4, <1>6, <2>2 DEF SessionInv, UrlsBegun
  <2> QED
    BY <2>1, <2>2
<1>9. DOMAIN starter \subseteq DOMAIN starter'
  BY <1>1, <1>6
<1>10. registered' = registered => GrowthKept
  BY <1>2, <1>6, <1>9 DEF GrowthKept, SessionInv, TypeOK
<1>11. NoneProvisions
  BY <1>3, <1>4 DEF NoneProvisions
<1> QED
  BY <1>4, <1>5, <1>7, <1>8, <1>9, <1>10, <1>11 DEF TabsKept

\* Steps that begin no login.
LEMMA TabsStay ==
  ASSUME SessionInv, starter' = starter, tab' \in [Tabs -> TabRow],
         \A t \in Tabs :
           /\ tab'[t].state \in {0, tab[t].state}
           /\ \E u \in Tabs : tab'[t].url = tab[u].url
           /\ tab'[t].page \in {"leaving", "auth"} =>
                tab[t].page \in {"leaving", "auth"} /\ tab'[t].url = tab[t].url
  PROVE  TabsKept
<1>1. PendingIsOwn' /\ UrlsBegun'
  BY DEF SessionInv, PendingIsOwn, UrlsBegun
<1> QED
  BY <1>1 DEF SessionInv, TypeOK, TabsKept

LEMMA TabMoves ==
  ASSUME SessionInv, NEW t \in Tabs, NEW row \in TabRow,
         row.state \in {0, tab[t].state}, row.url = tab[t].url,
         row.page \in {"leaving", "auth"} => tab[t].page \in {"leaving", "auth"},
         starter' = starter, tab' = [tab EXCEPT ![t] = row]
  PROVE  /\ TabsKept
         /\ tab'[t] = row /\ \A u \in Tabs \ {t} : tab'[u] = tab[u]
         /\ row.page # "provisioning" => NoneProvisions
<1>1. /\ tab' \in [Tabs -> TabRow]
      /\ tab'[t] = row /\ \A u \in Tabs \ {t} : tab'[u] = tab[u]
  BY DEF SessionInv, TypeOK
<1>2. \A u \in Tabs :
        /\ tab'[u].state \in {0, tab[u].state} /\ tab'[u].url = tab[u].url
        /\ tab'[u].page \in {"leaving", "auth"} =>
             tab[u].page \in {"leaving", "auth"}
  BY <1>1
<1>3. TabsKept
  BY <1>1, <1>2, TabsStay
<1> QED
  BY <1>1, <1>3 DEF NoneProvisions

\* A tab changes its page, and perhaps forgets its pending state.
LEMMA TabGoes ==
  ASSUME HostedSessionAssumption, SessionInv, NEW t \in Tabs,
         NEW to \in Pages,
         to \in {"leaving", "auth"} => tab[t].page \in {"leaving", "auth"},
         starter' = starter,
         \/ tab' = [tab EXCEPT ![t].page = to]
         \/ tab' = [tab EXCEPT ![t].page = to, ![t].state = 0]
  PROVE  /\ TabsKept
         /\ tab'[t].page = to /\ \A u \in Tabs \ {t} : tab'[u] = tab[u]
         /\ to # "provisioning" => NoneProvisions
<1>0. tab[t] \in TabRow /\ 0 \in Tokens /\ tab = [x \in Tabs |-> tab[x]]
  BY Zero DEF SessionInv, TypeOK
<1>1. CASE tab' = [tab EXCEPT ![t].page = to]
  <2> DEFINE row == [tab[t] EXCEPT !.page = to]
  <2>1. /\ row \in TabRow /\ row.state = tab[t].state /\ row.url = tab[t].url
        /\ row.page = to
    BY <1>0 DEF TabRow
  <2>2. tab' = [tab EXCEPT ![t] = row]
    BY <1>1
  <2> HIDE DEF row
  <2> QED
    BY <2>1, <2>2, TabMoves
<1>2. CASE tab' = [tab EXCEPT ![t].page = to, ![t].state = 0]
  <2> DEFINE row == [tab[t] EXCEPT !.page = to, !.state = 0]
  <2>1. /\ row \in TabRow /\ row.state = 0 /\ row.url = tab[t].url
        /\ row.page = to
    BY <1>0 DEF TabRow
  <2>2. tab' = [tab EXCEPT ![t] = row]
    BY <1>0, <1>2 DEF TabRow
  <2> HIDE DEF row
  <2> QED
    BY <2>1, <2>2, TabMoves
<1> QED
  BY <1>1, <1>2

\* Auth sends a tab to the callback: its own, or one that took its link over.
LEMMA AuthReturnKeeps ==
  ASSUME HostedSessionAssumption, SessionInv, NEW t \in Tabs, NEW u \in Tabs,
         AuthReturn(t, u)
  PROVE  TabsKept /\ NoneProvisions
<1> DEFINE row(x) == IF x = u THEN [tab[u] EXCEPT !.page = "callback",
                                                  !.url = tab[t].url]
                     ELSE IF x = t THEN [tab[t] EXCEPT !.page = "closed"]
                     ELSE tab[x]
<1>1. /\ \A x \in Tabs : tab[x] \in TabRow
      /\ starter' = starter
  BY DEF SessionInv, TypeOK, AuthReturn, growth
<1>2. \A x \in Tabs :
        /\ row(x) \in TabRow /\ row(x).state = tab[x].state
        /\ row(x).url \in {tab[x].url, tab[t].url}
        /\ row(x).page \in {"provisioning", "leaving", "auth"} =>
             row(x) = tab[x]
  BY <1>1 DEF TabRow, Pages
<1>3. tab' = [x \in Tabs |-> row(x)]
  <2>1. tab' = [tab EXCEPT ![t].page = IF u = t THEN "callback" ELSE "closed",
                           ![u].page = "callback", ![u].url = tab[t].url]
        /\ tab = [x \in Tabs |-> tab[x]]
    BY DEF SessionInv, TypeOK, AuthReturn
  <2> QED
    BY <1>1, <2>1 DEF TabRow
<1> HIDE DEF row
<1>4. /\ tab' \in [Tabs -> TabRow]
      /\ \A x \in Tabs : tab'[x] = row(x)
  BY <1>2, <1>3
<1>5. NoneProvisions
  BY <1>2, <1>4 DEF NoneProvisions
<1> QED
  BY <1>1, <1>2, <1>4, <1>5, TabsStay

\* The callback: the token stored is of the login the tab has pending.
LEMMA CallbackKeeps ==
  ASSUME HostedSessionAssumption, SessionInv, NEW t \in Tabs, Callback(t)
  PROVE  TabsKept /\ stored' \in Tokens /\ StoresOwnLogin
<1>0. /\ tab[t] \in TabRow /\ 0 \in Tokens /\ starter' = starter
      /\ Page(t) = "callback" /\ {"provisioning", "failed"} \subseteq Pages
  BY Zero DEF SessionInv, TypeOK, Callback, growth, Pages
<1>1. CASE /\ MatchingState(t)
           /\ stored' = tab[t].url
           /\ tab' = [tab EXCEPT ![t].page = "provisioning"]
  <2>1. TabsKept /\ \A u \in Tabs \ {t} : tab'[u] = tab[u]
    BY <1>0, <1>1, TabGoes
  <2>2. stored' = tab[t].state /\ stored' # 0
    BY <1>1 DEF MatchingState
  <2>3. stored' \in Tokens
    BY <1>0, <1>1 DEF TabRow
  <2>4. StoresOwnLogin
    BY <2>1, <2>2 DEF SessionInv, PendingIsOwn, StoresOwnLogin, Page
  <2> QED
    BY <2>1, <2>3, <2>4
<1>2. CASE /\ stored' = 0
           /\ tab' = [tab EXCEPT ![t].page = "failed", ![t].state = 0]
  <2>1. TabsKept
    BY <1>0, <1>2, TabGoes
  <2> QED
    BY <1>0, <1>2, <2>1 DEF StoresOwnLogin
<1> QED
  BY <1>1, <1>2 DEF Callback

-----------------------------------------------------------------------------
(***************************************************************************)
(* The calls, the clicks and the counters.                                 *)
(***************************************************************************)
CallsKept == call' \in [Calls -> CallRow \cup {Idle}] /\ TriesLeft'

LEMMA CallTakes ==
  ASSUME SessionInv, NEW c \in Calls, NEW row \in CallRow \cup {Idle},
         row.step = "sent" => row.tries < MaxTries,
         call' = [call EXCEPT ![c] = row]
  PROVE  CallsKept
BY DEF SessionInv, TypeOK, TriesLeft, CallsKept

LEMMA CallsStay ==
  ASSUME SessionInv, call' = call
  PROVE  CallsKept
BY DEF SessionInv, TypeOK, TriesLeft, CallsKept

LEMMA UnloadKeepsCalls ==
  ASSUME SessionInv, NEW t \in Tabs, Unload(t)
  PROVE  CallsKept
<1>1. call' = [c \in Calls |-> IF call[c].tab = t THEN Idle ELSE call[c]]
  BY DEF Unload
<1>2. Idle.step = "idle"
  BY DEF Idle
<1> QED
  BY <1>1, <1>2 DEF SessionInv, TypeOK, TriesLeft, CallsKept

\* A call is tried again while it has tries left, and with the last one denied.
LEMMA ValidateKeeps ==
  ASSUME HostedSessionAssumption, SessionInv, NEW c \in Calls, Validate(c)
  PROVE  CallsKept
<1>1. /\ call[c] \in CallRow /\ call[c].step = "sent"
      /\ call[c].tries \in Nat /\ call[c].tries < MaxTries /\ MaxTries \in Nat
      /\ call = [x \in Calls |-> call[x]]
  BY DEF SessionInv, TypeOK, TriesLeft, Validate, Idle, CallRow,
         HostedSessionAssumption
<1>2. CASE call' = [call EXCEPT ![c].step = Verdict(c)]
  <2> DEFINE row == [call[c] EXCEPT !.step = Verdict(c)]
  <2>1. row \in CallRow /\ row.step # "sent"
    BY <1>1 DEF CallRow, Verdict
  <2>2. call' = [call EXCEPT ![c] = row]
    BY <1>2
  <2> HIDE DEF row
  <2> QED
    BY <2>1, <2>2, CallTakes
<1>3. CASE call' = [call EXCEPT ![c].tries = @ + 1,
                      ![c].step = IF GiveUp(c) THEN "denied" ELSE @]
  <2> DEFINE row == [call[c] EXCEPT !.tries = @ + 1,
                       !.step = IF GiveUp(c) THEN "denied" ELSE @]
  <2>1. call[c].tries + 1 \in 0 .. MaxTries
    BY <1>1
  <2>2. row \in CallRow /\ row.tries = call[c].tries + 1
        /\ row.step = IF GiveUp(c) THEN "denied" ELSE "sent"
    BY <1>1, <2>1 DEF CallRow
  <2>3. row.step = "sent" => row.tries < MaxTries
    BY <1>1, <2>2 DEF GiveUp
  <2>4. call' = [call EXCEPT ![c] = row]
    BY <1>1, <1>3 DEF CallRow
  <2> HIDE DEF row
  <2> QED
    BY <2>2, <2>3, <2>4, CallTakes
<1> QED
  BY <1>2, <1>3 DEF Validate

LEMMA NextKeepsCalls ==
  ASSUME HostedSessionAssumption, SessionInv, Next
  PROVE  CallsKept
<1>1. ASSUME NEW t \in Tabs, Unload(t) PROVE CallsKept
  BY <1>1, UnloadKeepsCalls
<1>2. ASSUME NEW t \in Tabs, NEW c \in Calls, Request(t, c) PROVE CallsKept
  <2> DEFINE row == [tab |-> t, token |-> stored, tries |-> 0, step |-> "sent"]
  <2>1. row \in CallRow /\ row.tries < MaxTries
    BY DEF CallRow, SessionInv, TypeOK, HostedSessionAssumption
  <2>2. call' = [call EXCEPT ![c] = row]
    BY <1>2 DEF Request
  <2> HIDE DEF row
  <2> QED
    BY <2>1, <2>2, CallTakes
<1>3. ASSUME NEW c \in Calls, Validate(c) PROVE CallsKept
  BY <1>3, ValidateKeeps
<1>4. ASSUME NEW c \in Calls, Answered(c) \/ Unauthorized(c) PROVE CallsKept
  BY <1>4, CallTakes DEF Answered, Unauthorized, Idle
<1> QED
  BY <1>1, <1>2, <1>3, <1>4, CallsStay DEF Next, Open, SignOut, ChooseAuth,
     AuthReturn, RegisterAndClose, Callback, Provisioned, Expire, RecordClick

LEMMA NextKeepsCounts ==
  ASSUME HostedSessionAssumption, SessionInv, Next
  PROVE  dead' \subseteq Logins /\ made' \in 0 .. MaxCalls /\ faults' \in 0 .. MaxFaults
<1>0. /\ dead \subseteq Logins /\ made \in 0 .. MaxCalls /\ faults \in 0 .. MaxFaults
      /\ MaxCalls \in Nat /\ MaxFaults \in Nat
  BY DEF SessionInv, TypeOK, HostedSessionAssumption
<1>1. ASSUME NEW t \in Tabs, NEW c \in Calls, Request(t, c)
      PROVE  made' \in 0 .. MaxCalls /\ UNCHANGED <<dead, faults>>
  BY <1>0, <1>1 DEF Request
<1>2. ASSUME NEW c \in Calls, Validate(c)
      PROVE  faults' \in 0 .. MaxFaults /\ UNCHANGED <<dead, made>>
  BY <1>0, <1>2 DEF Validate
<1>3. ASSUME NEW k \in Logins, Expire(k)
      PROVE  dead' \subseteq Logins /\ UNCHANGED <<made, faults>>
  BY <1>0, <1>3 DEF Expire, counters
<1> QED
  BY <1>0, <1>1, <1>2, <1>3 DEF Next, Open, Unload, SignOut, ChooseAuth,
     AuthReturn, RegisterAndClose, Callback, Provisioned, Answered,
     Unauthorized, RecordClick, counters

\* A click and a registration are of a login that was begun.
LEMMA GrowthStays ==
  ASSUME SessionInv, DOMAIN starter \subseteq DOMAIN starter',
         posts' \cup clicks' \cup lost' \subseteq posts \cup clicks \cup lost,
         \/ registered' = registered
         \/ \E t \in Tabs : /\ Page(t) = "auth"
                            /\ registered' \subseteq registered \cup {tab[t].url}
  PROVE  GrowthKept
BY DEF SessionInv, TypeOK, UrlsBegun, Page, GrowthKept

-----------------------------------------------------------------------------
(***************************************************************************)
(* The steps.                                                              *)
(***************************************************************************)
LEMMA LoadKeeps ==
  ASSUME HostedSessionAssumption, SessionInv, NEW t \in Tabs,
         Open(t) \/ ChooseAuth(t) \/ Provisioned(t)
  PROVE  TabsKept /\ NoneProvisions /\ GrowthKept
<1>1. stored' = stored /\ registered' = registered
  BY DEF Open, ChooseAuth, Provisioned
<1>2. CASE \E register \in BOOLEAN : StartHostedAuth(t, register)
  BY <1>1, <1>2, StartKeeps
<1>3. CASE /\ \/ tab' = [tab EXCEPT ![t].page = "client"]
              \/ tab' = [tab EXCEPT ![t].page = "client", ![t].state = 0]
           /\ UNCHANGED <<starter, growth>>
  <2>1. TabsKept /\ NoneProvisions
    BY <1>3, TabGoes DEF Pages
  <2> QED
    BY <1>1, <1>3, <2>1, GrowthStays DEF growth
<1> QED
  BY <1>2, <1>3 DEF Open, Load, ChooseAuth, Provisioned

LEMMA MoveKeeps ==
  ASSUME HostedSessionAssumption, SessionInv, NEW t \in Tabs,
         Unload(t) \/ SignOut(t) \/ RegisterAndClose(t)
  PROVE  TabsKept /\ NoneProvisions /\ GrowthKept
<1>1. UNCHANGED <<starter, posts, clicks, lost>>
  BY DEF Unload, SignOut, RegisterAndClose, growth
<1>2. TabsKept /\ NoneProvisions
  <2>1. CASE Unload(t)
    BY <1>1, <2>1, TabGoes DEF Unload, Page, Pages
  <2>2. CASE SignOut(t)
    BY <1>1, <2>2, TabGoes DEF SignOut, Pages
  <2>3. CASE RegisterAndClose(t)
    BY <1>1, <2>3, TabGoes DEF RegisterAndClose, Pages
  <2> QED
    BY <2>1, <2>2, <2>3
<1>3. GrowthKept
  BY <1>1, GrowthStays
     DEF Unload, SignOut, RegisterAndClose, Authenticate
<1> QED
  BY <1>2, <1>3

LEMMA SessionStep ==
  ASSUME HostedSessionAssumption, SessionInv, [Next]_vars
  PROVE  SessionInv' /\ (StoresOwnLogin \/ UNCHANGED vars)
<1>1. ASSUME Next, TabsKept, GrowthKept, stored' \in Tokens
      PROVE  SessionInv'
  BY <1>1, NextKeepsCalls, NextKeepsCounts
     DEF SessionInv, TypeOK, TabsKept, GrowthKept, CallsKept
<1>2. ASSUME Next, TabsKept, GrowthKept, NoneProvisions,
             stored' = stored \/ stored' = 0
      PROVE  SessionInv' /\ StoresOwnLogin
  <2>1. stored' \in Tokens
    BY <1>2, Zero DEF SessionInv, TypeOK
  <2> QED
    BY <1>1, <1>2, <2>1 DEF NoneProvisions, StoresOwnLogin, Page
<1>3. ASSUME Next, NEW t \in Tabs, Open(t) \/ ChooseAuth(t) \/ Provisioned(t)
      PROVE  SessionInv' /\ StoresOwnLogin
  BY <1>2, <1>3, LoadKeeps DEF Open, ChooseAuth, Provisioned
<1>4. ASSUME Next, NEW t \in Tabs,
             Unload(t) \/ SignOut(t) \/ RegisterAndClose(t)
      PROVE  SessionInv' /\ StoresOwnLogin
  BY <1>2, <1>4, MoveKeeps DEF Unload, SignOut, RegisterAndClose
<1>5. ASSUME Next, NEW t \in Tabs, NEW u \in Tabs, AuthReturn(t, u)
      PROVE  SessionInv' /\ StoresOwnLogin
  <2>1. TabsKept /\ NoneProvisions
    BY <1>5, AuthReturnKeeps
  <2>2. GrowthKept
    BY <1>5, GrowthStays DEF AuthReturn, Authenticate, growth
  <2> QED
    BY <1>2, <1>5, <2>1, <2>2 DEF AuthReturn
<1>6. ASSUME Next, NEW t \in Tabs, Callback(t)
      PROVE  SessionInv' /\ StoresOwnLogin
  <2>1. GrowthKept
    BY <1>6, GrowthStays DEF Callback, growth
  <2> QED
    BY <1>1, <1>6, <2>1, CallbackKeeps
<1>7. ASSUME Next, NEW c \in Calls, Unauthorized(c)
      PROVE  SessionInv' /\ StoresOwnLogin
  <2>1. call[c].tab \in Tabs
    BY <1>7 DEF Unauthorized, SessionInv, TypeOK, CallRow, Idle
  <2> QED
    BY <1>2, <1>7, <2>1, StartKeeps DEF Unauthorized
<1>8. ASSUME UNCHANGED <<tab, starter, stored>>
      PROVE  TabsKept /\ NoneProvisions
  BY <1>8, TabsStay DEF SessionInv, TypeOK, NoneProvisions
<1>9. ASSUME Next, NEW c \in Calls,
             (\E t \in Tabs : Request(t, c)) \/ Validate(c) \/ Answered(c)
      PROVE  SessionInv' /\ StoresOwnLogin
  <2>1. UNCHANGED <<tab, starter, stored, posts, clicks, lost, registered>>
    BY <1>9 DEF Request, Validate, Answered, growth
  <2> QED
    BY <1>2, <1>8, <1>9, <2>1, GrowthStays
<1>10. ASSUME Next, NEW k \in Logins, Expire(k) \/ RecordClick(k)
       PROVE  SessionInv' /\ StoresOwnLogin
  <2>1. /\ UNCHANGED <<tab, starter, stored, registered>>
        /\ posts' \cup clicks' \cup lost' \subseteq posts \cup clicks \cup lost
    BY <1>10 DEF Expire, RecordClick, growth
  <2> QED
    BY <1>2, <1>8, <1>10, <2>1, GrowthStays
<1>11. CASE UNCHANGED vars
  BY <1>11 DEF vars, growth, counters, SessionInv, TypeOK, PendingIsOwn,
     UrlsBegun, TriesLeft
<1> QED
  BY <1>3, <1>4, <1>5, <1>6, <1>7, <1>9, <1>10, <1>11 DEF Next

LEMMA SessionInit ==
  ASSUME HostedSessionAssumption, Init
  PROVE  SessionInv
<1>1. 0 \in Tokens /\ 0 \in 0 .. MaxCalls /\ 0 \in 0 .. MaxFaults
  BY Zero DEF HostedSessionAssumption
<1>2. /\ tab \in [Tabs -> TabRow]
      /\ \A t \in Tabs : /\ tab[t].state = 0 /\ tab[t].url = 0
                         /\ tab[t].page = "closed"
  BY <1>1 DEF Init, TabRow, Pages
<1>3. /\ call \in [Calls -> CallRow \cup {Idle}]
      /\ \A c \in Calls : call[c].step = "idle"
  BY DEF Init, Idle
<1>4. starter \in [1 .. 0 -> Tabs]
  BY DEF Init
<1> QED
  BY <1>1, <1>2, <1>3, <1>4 DEF Init, SessionInv, TypeOK, PendingIsOwn,
     UrlsBegun, TriesLeft

-----------------------------------------------------------------------------
\* The session keeps its types: a login is numbered when it is begun, and a
\* click, a registration and a tab at Auth are of one that was begun.
THEOREM TypeCorrect ==
  ASSUME HostedSessionAssumption
  PROVE  Spec => []TypeOK
<1>1. Init => SessionInv
  BY SessionInit
<1>2. SessionInv /\ [Next]_vars => SessionInv'
  BY SessionStep
<1>3. SessionInv => TypeOK
  BY DEF SessionInv
<1> QED
  BY <1>1, <1>2, <1>3, PTL DEF Spec
=============================================================================

--------------------------- MODULE HostedSession ---------------------------
(***************************************************************************)
(* The browser session of /client: the access token in localStorage that   *)
(* all tabs share, the login in progress in the sessionStorage of a tab,   *)
(* the redirect to hosted Auth and its callback, the calls that carry the  *)
(* token and the guard that asks Auth about it, and the click that is      *)
(* recorded for a registration.  Logins and tokens are numbered in the     *)
(* order they are made; 0 is none.  A token carries the login it is of.    *)
(***************************************************************************)
EXTENDS Integers, FiniteSets

CONSTANTS
  Tabs,
  Calls,             \* requests of the pages in flight
  MaxLogins,         \* bound: logins begun
  MaxCalls,          \* bound: requests made
  MaxFaults,         \* bound: calls to Auth that fail
  MaxTries,          \* calls to Auth for one validation; the code has 2
  Moves              \* may a login return in another tab?

\* Asked of the parameters of an instance.
HostedSessionAssumption ==
  /\ {MaxLogins, MaxCalls, MaxTries} \subseteq Nat \ {0}
  /\ MaxFaults \in Nat
  /\ Moves \in BOOLEAN

VARIABLES
  stored,            \* localStorage: the access token
  dead,              \* tokens Auth does not accept any more
  tab,               \* page, pending state and URL of each tab
  call,              \* requests in flight
  starter,           \* the tab each login was begun in
  posts, clicks, lost,   \* clicks on their way to growth-core, stored, lost
  registered,        \* logins that made a user at Auth
  made, faults

growth == <<posts, clicks, lost>>
counters == <<made, faults>>
vars == <<stored, dead, tab, call, starter, growth, registered, counters>>

Logins == 1 .. MaxLogins
Tokens == 0 .. MaxLogins
Pages == {"closed", "client", "leaving", "auth", "callback", "provisioning",
          "failed", "panel"}
TabRow == [page: Pages, state: Tokens, url: Tokens, register: BOOLEAN]
Idle == [tab |-> "none", token |-> 0, tries |-> 0, step |-> "idle"]
CallRow == [tab: Tabs, token: Tokens, tries: 0 .. MaxTries,
            step: {"sent", "accepted", "denied"}]

TypeOK ==
  /\ stored \in Tokens /\ dead \subseteq Logins
  /\ tab \in [Tabs -> TabRow]
  /\ call \in [Calls -> CallRow \cup {Idle}]
  /\ \E n \in Tokens : starter \in [1 .. n -> Tabs]
  /\ posts \cup clicks \cup lost \cup registered \subseteq DOMAIN starter
  /\ made \in 0 .. MaxCalls /\ faults \in 0 .. MaxFaults

Init ==
  /\ stored = 0 /\ dead = {}
  /\ tab = [t \in Tabs |-> [page |-> "closed", state |-> 0, url |-> 0,
                            register |-> FALSE]]
  /\ call = [c \in Calls |-> Idle]
  /\ starter = [n \in {} |-> CHOOSE t \in Tabs : TRUE]
  /\ posts = {} /\ clicks = {} /\ lost = {} /\ registered = {}
  /\ made = 0 /\ faults = 0

-----------------------------------------------------------------------------
Page(t) == tab[t].page
Accepted(k) == k # 0 /\ k \notin dead
NextLogin == Cardinality(DOMAIN starter) + 1

\* The click of a registration is posted before the page is left, not awaited.
PostClick(n, register) == posts' = IF register THEN posts \cup {n} ELSE posts

\* startHostedAuth: a fresh state, kept in the tab and sent in the URL; the
\* page runs on until the browser has left it.
StartHostedAuth(t, register) ==
  LET n == NextLogin IN
  /\ n \in Logins
  /\ starter' = [k \in 1 .. n |-> IF k = n THEN t ELSE starter[k]]
  /\ tab' = [tab EXCEPT ![t] = [page |-> "leaving", state |-> n, url |-> n,
                                register |-> register]]
  /\ PostClick(n, register)
  /\ UNCHANGED <<clicks, lost>>

\* Loading /client: without a token the tab goes to Auth at once.
Load(t) ==
  IF stored = 0 THEN \E register \in BOOLEAN : StartHostedAuth(t, register)
  ELSE /\ tab' = [tab EXCEPT ![t].page = "client"]
       /\ UNCHANGED <<starter, growth>>

Open(t) ==
  /\ Page(t) \in {"closed", "auth", "failed"}
  /\ Load(t)
  /\ UNCHANGED <<stored, dead, call, registered, counters>>

Unload(t) ==
  /\ Page(t) = "leaving"
  /\ tab' = [tab EXCEPT ![t].page = "auth"]
  /\ call' = [c \in Calls |-> IF call[c].tab = t THEN Idle ELSE call[c]]
  /\ UNCHANGED <<stored, dead, starter, growth, registered, counters>>

SignOut(t) ==
  /\ Page(t) = "client"
  /\ stored' = 0
  /\ tab' = [tab EXCEPT ![t].page = "panel", ![t].state = 0]
  /\ UNCHANGED <<dead, call, starter, growth, registered, counters>>

ChooseAuth(t) ==
  /\ Page(t) = "panel"
  /\ \E register \in BOOLEAN : StartHostedAuth(t, register)
  /\ UNCHANGED <<stored, dead, call, registered, counters>>

-----------------------------------------------------------------------------
(***************************************************************************)
(* Hosted Auth and the callback                                            *)
(***************************************************************************)
Authenticate(t) ==
  registered' = registered \cup (IF tab[t].register THEN {tab[t].url} ELSE {})

\* Auth sends the tab, or one that took its link over, to the callback.
AuthReturn(t, u) ==
  /\ Page(t) = "auth"
  /\ u = t \/ (Moves /\ Page(u) = "closed")
  /\ Authenticate(t)
  /\ tab' = [tab EXCEPT ![t].page = IF u = t THEN "callback" ELSE "closed",
                        ![u].page = "callback", ![u].url = tab[t].url]
  /\ UNCHANGED <<stored, dead, call, starter, growth, counters>>

\* The user is made, and the browser never comes back.
RegisterAndClose(t) ==
  /\ Page(t) = "auth" /\ tab[t].register
  /\ Authenticate(t)
  /\ tab' = [tab EXCEPT ![t].page = "closed"]
  /\ UNCHANGED <<stored, dead, call, starter, growth, counters>>

\* Mutant: a state is enough.
AnyState(t) == tab[t].url # 0

MatchingState(t) == tab[t].state # 0 /\ tab[t].url = tab[t].state

\* The callback script up to its await: the token is stored, or whatever
\* token there is goes.
Callback(t) ==
  /\ Page(t) = "callback"
  /\ IF MatchingState(t)
     THEN /\ stored' = tab[t].url
          /\ tab' = [tab EXCEPT ![t].page = "provisioning"]
     ELSE /\ stored' = 0
          /\ tab' = [tab EXCEPT ![t].page = "failed", ![t].state = 0]
  /\ UNCHANGED <<dead, call, starter, growth, registered, counters>>

\* Catalog access is provisioned, or is not; either way the client loads.
Provisioned(t) ==
  /\ Page(t) = "provisioning"
  /\ IF stored = 0 THEN \E register \in BOOLEAN : StartHostedAuth(t, register)
     ELSE /\ tab' = [tab EXCEPT ![t].page = "client", ![t].state = 0]
          /\ UNCHANGED <<starter, growth>>
  /\ UNCHANGED <<stored, dead, call, registered, counters>>

-----------------------------------------------------------------------------
(***************************************************************************)
(* Requests and the guard                                                  *)
(***************************************************************************)
Request(t, c) ==
  /\ Page(t) = "client" /\ call[c] = Idle /\ made < MaxCalls
  /\ made' = made + 1
  /\ call' = [call EXCEPT ![c] = [tab |-> t, token |-> stored, tries |-> 0,
                                  step |-> "sent"]]
  /\ UNCHANGED <<stored, dead, tab, starter, growth, registered, faults>>

\* What the guard makes of an answer of Auth.
Verdict(c) == IF Accepted(call[c].token) THEN "accepted" ELSE "denied"

\* Mutant: the call is not tried again.
GiveUpAtOnce(c) == TRUE

\* Mutant: one try more.
GiveUpLate(c) == call[c].tries = MaxTries

\* retry runs the call maxRetries times in all.
GiveUp(c) == call[c].tries + 1 = MaxTries

\* validateToken: Auth answers, or the call fails and is tried again until
\* the tries are used up; then the token is called invalid.
Validate(c) ==
  /\ call[c].step = "sent"
  /\ \/ /\ call' = [call EXCEPT ![c].step = Verdict(c)]
        /\ UNCHANGED faults
     \/ /\ faults < MaxFaults
        /\ faults' = faults + 1
        /\ call' = [call EXCEPT ![c].tries = @ + 1,
              ![c].step = IF GiveUp(c) THEN "denied" ELSE @]
  /\ UNCHANGED <<stored, dead, tab, starter, growth, registered, made>>

Answered(c) ==
  /\ call[c].step = "accepted"
  /\ call' = [call EXCEPT ![c] = Idle]
  /\ UNCHANGED <<stored, dead, tab, starter, growth, registered, counters>>

\* request on a 401: the stored token goes, whichever token the call carried.
Unauthorized(c) ==
  /\ call[c].step = "denied"
  /\ stored' = 0
  /\ StartHostedAuth(call[c].tab, FALSE)
  /\ call' = [call EXCEPT ![c] = Idle]
  /\ UNCHANGED <<dead, registered, counters>>

Expire(k) ==
  /\ k \in Logins \cap DOMAIN starter /\ k \notin dead
  /\ dead' = dead \cup {k}
  /\ UNCHANGED <<stored, tab, call, starter, growth, registered, counters>>

\* recordAuthRedirect: growth-core stores the event, or it is only logged.
RecordClick(n) ==
  /\ n \in posts
  /\ posts' = posts \ {n}
  /\ \/ clicks' = clicks \cup {n} /\ UNCHANGED lost
     \/ lost' = lost \cup {n} /\ UNCHANGED clicks
  /\ UNCHANGED <<stored, dead, tab, call, starter, registered, counters>>

Next ==
  \/ \E t \in Tabs :
       \/ Open(t) \/ Unload(t) \/ SignOut(t) \/ ChooseAuth(t)
       \/ \E u \in Tabs : AuthReturn(t, u)
       \/ RegisterAndClose(t) \/ Callback(t) \/ Provisioned(t)
       \/ \E c \in Calls : Request(t, c)
  \/ \E c \in Calls : Validate(c) \/ Answered(c) \/ Unauthorized(c)
  \/ \E n \in Logins : Expire(n) \/ RecordClick(n)

Spec == Init /\ [][Next]_vars
-----------------------------------------------------------------------------
(***************************************************************************)
(* Properties.                                                             *)
(***************************************************************************)

\* A token is only stored by the tab that began the login it is of: the state
\* that startHostedAuth left in the tab and the callback compares.
StoresOwnLogin ==
  \A t \in Tabs :
    Page(t) = "callback" /\ stored' # 0 /\ stored' # stored
      /\ tab'[t].page = "provisioning"
    => starter[stored'] = t

\* A token that Auth accepts stays until the user signs out or logs in again.
KeepsValidToken ==
  Accepted(stored) /\ stored' # stored =>
    \/ stored' # 0
    \/ \E t \in Tabs : Page(t) = "client" /\ tab'[t].page = "panel"
=============================================================================

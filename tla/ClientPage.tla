----------------------------- MODULE ClientPage -----------------------------
(***************************************************************************)
(* The page /client around its views: navigation, the render that asks for *)
(* the user and then for the data, the silent refresh of orders, the timer *)
(* that looks for a due attempt and prompts for it, the claim, the handoff *)
(* and its result, and the request to publish an ad.  Functions in flight  *)
(* are kept in slots; each await lets the others run.  The inside of the   *)
(* catalog view is CatalogPage.                                            *)
(***************************************************************************)
EXTENDS Integers, FiniteSets

CONSTANTS
  Attempts,
  Slots,             \* functions of the page in flight
  MaxStarts,         \* bound: functions begun
  MaxFaults          \* bound: requests that fail

\* Asked of the parameters of an instance.
ClientPageAssumption == MaxStarts \in Nat \ {0} /\ MaxFaults \in Nat

VARIABLES
  activeView,
  content,           \* what the page shows
  slot,              \* functions in flight
  publishWorkerBusy, orderRefreshBusy, orderRefreshQueued,
  prompted,          \* sessionStorage: attempts the worker prompted for
  hidden,            \* is the tab in the background?
  meFailed,          \* history: the user could not be asked for, and no view
                     \* was drawn since
  attempt,           \* the queue at the server
  by,                \* whose step was the last: user, page or server
  starts, faults

flags == <<publishWorkerBusy, orderRefreshBusy, orderRefreshQueued>>
vars == <<activeView, content, slot, flags, prompted, hidden, meFailed,
          attempt, by, starts, faults>>

Views == {"overview", "orders", "details", "catalog"}
NoAttempt == "noAttempt"
Some == Attempts \cup {NoAttempt}
Loading == [kind |-> "loading", view |-> "overview", attempt |-> NoAttempt,
            prompt |-> NoAttempt]
Show(kind, a) == [Loading EXCEPT !.kind = kind, !.attempt = a]
Idle == [kind |-> "idle", pc |-> "idle", due |-> NoAttempt]

TypeOK ==
  /\ activeView \in Views
  /\ content \in [kind : {"loading", "view", "claiming", "handoff", "nothingDue",
                          "queued", "error"},
                  view : Views, attempt : Some, prompt : Some]
  /\ slot \in [Slots -> [kind : {"idle", "render", "refresh", "timer", "claim",
                                 "open", "result", "enqueue"},
                         pc : {"idle", "me", "data", "ready", "catalog", "sent"},
                         due : Some]]
  /\ flags \in BOOLEAN \X BOOLEAN \X BOOLEAN
  /\ hidden \in BOOLEAN /\ meFailed \in BOOLEAN
  /\ prompted \subseteq Attempts
  /\ attempt \in [Attempts -> {"none", "queued", "submitting", "done"}]
  /\ by \in {"user", "page", "server"}
  /\ starts \in 0 .. MaxStarts /\ faults \in 0 .. MaxFaults

Init ==
  /\ activeView \in Views
  /\ content = Loading
  /\ slot = [s \in Slots |-> Idle]
  /\ publishWorkerBusy = FALSE /\ orderRefreshBusy = FALSE
  /\ orderRefreshQueued = FALSE
  /\ prompted = {} /\ hidden = FALSE /\ meFailed = FALSE
  /\ attempt \in [Attempts -> {"none", "queued"}]
  /\ by = "user" /\ starts = 0 /\ faults = 0

-----------------------------------------------------------------------------
\* A function begins in a free slot.
Begin(s, kind, pc, due) ==
  /\ slot[s] = Idle /\ starts < MaxStarts
  /\ starts' = starts + 1
  /\ slot' = [slot EXCEPT ![s] = [kind |-> kind, pc |-> pc, due |-> due]]

Fault(fails) ==
  /\ fails \in BOOLEAN
  /\ fails => faults < MaxFaults
  /\ faults' = faults + (IF fails THEN 1 ELSE 0)

\* navigateTo, a click on a tab, a changed hash: the view changes at once, and
\* render asks who the user is.
Navigate(s, v) ==
  /\ activeView' = v
  /\ Begin(s, "render", "me", NoAttempt)
  /\ by' = "user"
  /\ UNCHANGED <<content, flags, prompted, hidden, meFailed, attempt, faults>>

\* A refresh button: renderClient at once.
Refresh(s) ==
  /\ Begin(s, "render", "data", NoAttempt)
  /\ content' = Loading
  /\ by' = "user"
  /\ UNCHANGED <<activeView, flags, prompted, hidden, meFailed, attempt, faults>>

Me(s) ==
  /\ slot[s].pc = "me"
  /\ \E fails \in BOOLEAN :
       /\ Fault(fails)
       /\ IF fails
          THEN /\ meFailed' = TRUE
               /\ slot' = [slot EXCEPT ![s] = Idle]
               /\ UNCHANGED content
          ELSE /\ content' = Loading
               /\ slot' = [slot EXCEPT ![s].pc = "data"]
               /\ UNCHANGED meFailed
  /\ by' = "page"
  /\ UNCHANGED <<activeView, flags, prompted, hidden, attempt, starts>>

\* loadClientData: a request that fails counts as an empty list.
Load(s) ==
  /\ slot[s].pc = "data"
  /\ \E fails \in BOOLEAN, due \in Some :
       /\ Fault(fails)
       /\ IF fails \/ ~\E a \in Attempts : attempt[a] = "queued"
          THEN due = NoAttempt
          ELSE due # NoAttempt /\ attempt[due] = "queued"
       /\ slot' = [slot EXCEPT ![s].pc = "ready", ![s].due = due]
  /\ by' = "server"
  /\ UNCHANGED <<activeView, content, flags, prompted, hidden, meFailed, attempt,
                 starts>>

\* maybeStartPublishWorker on top of what the page shows.
Prompts(due) ==
  /\ ~publishWorkerBusy /\ activeView # "details"
  /\ due # NoAttempt /\ due \notin prompted

WithPrompt(shown, due) ==
  /\ content' = IF Prompts(due) THEN [shown EXCEPT !.prompt = due] ELSE shown
  /\ prompted' = IF Prompts(due) THEN prompted \cup {due} ELSE prompted

\* Mutant: the view is that of the moment the render began.
DrawnTooEarly(s) == [Loading EXCEPT !.kind = "view", !.view = content.view]

\* renderClient draws the view that is active once the data has come.
Drawn(s) == [Loading EXCEPT !.kind = "view", !.view = activeView]

hasVisibleOrderData == ~hidden /\ activeView \in {"overview", "orders"}

\* Mutant: the refresh that waits is forgotten to be taken off.
EndRefreshKeeping(s) ==
  /\ slot' = [slot EXCEPT ![s] = Idle]
  /\ orderRefreshBusy' = FALSE
  /\ UNCHANGED <<orderRefreshQueued, starts>>

\* finally of refreshVisibleOrderData: the refresh that waits begins.
EndRefresh(s) ==
  /\ orderRefreshQueued' = FALSE
  /\ IF orderRefreshQueued /\ hasVisibleOrderData /\ starts < MaxStarts
     THEN /\ slot' = [slot EXCEPT ![s] = [kind |-> "refresh", pc |-> "data",
                                          due |-> NoAttempt]]
          /\ starts' = starts + 1
          /\ UNCHANGED orderRefreshBusy
     ELSE /\ slot' = [slot EXCEPT ![s] = Idle]
          /\ orderRefreshBusy' = FALSE
          /\ UNCHANGED starts

Leave(s) ==
  IF slot[s].kind = "refresh" THEN EndRefresh(s)
  ELSE /\ slot' = [slot EXCEPT ![s] = Idle]
       /\ UNCHANGED <<orderRefreshBusy, orderRefreshQueued, starts>>

\* The data is there: the timer prompts, a render draws.  The catalog view
\* first clears the page and loads once more.
Draw(s) ==
  /\ slot[s].pc = "ready"
  /\ \/ /\ slot[s].kind = "timer"
        /\ WithPrompt(content, slot[s].due) /\ Leave(s)
        /\ UNCHANGED meFailed
     \/ /\ slot[s].kind # "timer" /\ activeView = "catalog"
        /\ content' = Loading
        /\ slot' = [slot EXCEPT ![s].pc = "catalog"]
        /\ UNCHANGED <<prompted, orderRefreshBusy, orderRefreshQueued, starts,
                       meFailed>>
     \/ /\ slot[s].kind # "timer" /\ activeView # "catalog"
        /\ WithPrompt(Drawn(s), slot[s].due) /\ Leave(s)
        /\ meFailed' = FALSE
  /\ by' = "page"
  /\ UNCHANGED <<activeView, publishWorkerBusy, hidden, attempt, faults>>

\* renderCatalog draws whatever view is active by now.
DrawCatalog(s) ==
  /\ slot[s].pc = "catalog"
  /\ WithPrompt([Loading EXCEPT !.kind = "view", !.view = "catalog"], slot[s].due)
  /\ Leave(s)
  /\ meFailed' = FALSE
  /\ by' = "page"
  /\ UNCHANGED <<activeView, publishWorkerBusy, hidden, attempt, faults>>

-----------------------------------------------------------------------------
(***************************************************************************)
(* Timers                                                                  *)
(***************************************************************************)
PublishTick(s) ==
  /\ ~hidden /\ ~publishWorkerBusy
  /\ Begin(s, "timer", "data", NoAttempt)
  /\ by' = "page"
  /\ UNCHANGED <<activeView, content, flags, prompted, hidden, meFailed, attempt,
                 faults>>

\* refreshVisibleOrderData, from its timer or when the tab comes back.
RefreshOrders(s) ==
  IF orderRefreshBusy
  THEN orderRefreshQueued' = TRUE /\ UNCHANGED <<slot, orderRefreshBusy, starts>>
  ELSE /\ Begin(s, "refresh", "data", NoAttempt)
       /\ orderRefreshBusy' = TRUE
       /\ UNCHANGED orderRefreshQueued

RefreshTick(s) ==
  /\ hasVisibleOrderData /\ RefreshOrders(s)
  /\ by' = "page"
  /\ UNCHANGED <<activeView, content, publishWorkerBusy, prompted, hidden, meFailed,
                 attempt, faults>>

Hide ==
  /\ ~hidden /\ hidden' = TRUE /\ by' = "user"
  /\ UNCHANGED <<activeView, content, slot, flags, prompted, meFailed, attempt,
                 starts, faults>>

Return(s) ==
  /\ hidden /\ hidden' = FALSE /\ by' = "user"
  /\ IF activeView \in {"overview", "orders"} THEN RefreshOrders(s)
     ELSE UNCHANGED <<slot, orderRefreshBusy, orderRefreshQueued, starts>>
  /\ UNCHANGED <<activeView, content, publishWorkerBusy, prompted, meFailed, attempt,
                 faults>>

-----------------------------------------------------------------------------
(***************************************************************************)
(* Claim, handoff, result, publish                                         *)
(***************************************************************************)
ShowsDetails == content.kind = "view" /\ content.view = "details"

MayClaim == ~publishWorkerBusy

claimDueAttempt(s) ==
  /\ content.prompt # NoAttempt \/ ShowsDetails
  /\ MayClaim
  /\ Begin(s, "claim", "sent", NoAttempt)
  /\ publishWorkerBusy' = TRUE
  /\ content' = Show("claiming", NoAttempt)
  /\ by' = "user"
  /\ UNCHANGED <<activeView, orderRefreshBusy, orderRefreshQueued, prompted, hidden,
                 meFailed, attempt, faults>>

openSubmission(s, a) ==
  /\ ShowsDetails /\ attempt[a] = "submitting"
  /\ Begin(s, "open", "sent", a)
  /\ content' = Loading
  /\ by' = "user"
  /\ UNCHANGED <<activeView, flags, prompted, hidden, meFailed, attempt, faults>>

recordPublishResult(s) ==
  /\ content.kind = "handoff"
  /\ Begin(s, "result", "sent", content.attempt)
  /\ by' = "user"
  /\ UNCHANGED <<activeView, content, flags, prompted, hidden, meFailed, attempt,
                 faults>>

enqueuePublish(s, a) ==
  /\ ShowsDetails /\ attempt[a] = "none"
  /\ Begin(s, "enqueue", "sent", a)
  /\ content' = Loading
  /\ by' = "user"
  /\ UNCHANGED <<activeView, flags, prompted, hidden, meFailed, attempt, faults>>

\* What the server does with each of them; a claim takes any queued attempt.
Served(s, now) ==
  CASE slot[s].kind = "claim" ->
         \E a \in Attempts : attempt[a] = "queued"
                             /\ now = [attempt EXCEPT ![a] = "submitting"]
    [] slot[s].kind = "open" -> now = attempt
    [] slot[s].kind = "result" ->
         now = [attempt EXCEPT ![slot[s].due] = "done"]
    [] slot[s].kind = "enqueue" ->
         now = [attempt EXCEPT ![slot[s].due] = "queued"]

\* The attempt the answer is about.
About(s, now) ==
  IF slot[s].kind = "claim" THEN CHOOSE a \in Attempts : now[a] # attempt[a]
  ELSE slot[s].due

Answer(s) ==
  /\ slot[s].pc = "sent"
  /\ \/ \E now \in [Attempts -> {"none", "queued", "submitting", "done"}] :
          /\ Served(s, now)
          /\ attempt' = now
          /\ IF slot[s].kind = "result"
             THEN /\ activeView' = "details" /\ content' = Loading
                  /\ slot' = [slot EXCEPT ![s] = [kind |-> "render",
                       pc |-> "data", due |-> NoAttempt]]
             ELSE /\ content' = Show(IF slot[s].kind = "enqueue" THEN "queued"
                                     ELSE "handoff", About(s, now))
                  /\ slot' = [slot EXCEPT ![s] = Idle]
                  /\ UNCHANGED activeView
          /\ UNCHANGED faults
     \/ /\ slot[s].kind = "claim" /\ ~\E a \in Attempts : attempt[a] = "queued"
        /\ content' = Show("nothingDue", NoAttempt)
        /\ slot' = [slot EXCEPT ![s] = Idle]
        /\ UNCHANGED <<activeView, attempt, faults>>
     \/ /\ Fault(TRUE)
        /\ content' = Show("error", NoAttempt)
        /\ slot' = [slot EXCEPT ![s] = Idle]
        /\ UNCHANGED <<activeView, attempt>>
  /\ publishWorkerBusy' = (publishWorkerBusy /\ slot[s].kind # "claim")
  /\ by' = "server"
  /\ UNCHANGED <<orderRefreshBusy, orderRefreshQueued, prompted, hidden, meFailed,
                 starts>>

Next ==
  \/ Hide
  \/ \E s \in Slots :
       \/ \E v \in Views : Navigate(s, v)
       \/ Refresh(s) \/ Me(s) \/ Load(s) \/ Draw(s) \/ DrawCatalog(s)
       \/ PublishTick(s) \/ RefreshTick(s) \/ Return(s)
       \/ claimDueAttempt(s) \/ recordPublishResult(s) \/ Answer(s)
       \/ \E a \in Attempts : openSubmission(s, a) \/ enqueuePublish(s, a)

Spec == Init /\ [][Next]_vars

\* Requests are answered or fail, and the page goes on when they are.
Fairness == \A s \in Slots : WF_vars(Load(s)) /\ WF_vars(Draw(s))
                             /\ WF_vars(DrawCatalog(s))
FairSpec == Spec /\ Fairness
-----------------------------------------------------------------------------
(***************************************************************************)
(* Properties.                                                             *)
(***************************************************************************)

\* Once no function is in flight the page shows the active view, whatever
\* order timers and answers came in: renderClient reads activeView after its
\* data.  Two cases are excepted.  The catalog awaits a call of its own and is
\* then drawn over whatever view is active by then; no other view is.  And a
\* navigation whose /me fails changes nothing on the page until a view is
\* drawn again.
SettledShowsView ==
  (\A s \in Slots : slot[s] = Idle) /\ content.kind = "view" /\ ~meFailed
    => content.view \in {activeView, "catalog"}

\* A refresh of the orders that had to wait is not left waiting.
RefreshNotLeft == orderRefreshQueued ~> ~orderRefreshQueued

\* Is something the user asked for in flight?
UserWaits == \E s \in Slots : slot[s].kind \notin {"idle", "refresh", "timer"}

\* The handoff, into which the seller is asked to paste the Bazos id, stays
\* while neither the user nor anything the user asked for acts.
HandoffStays == [][content.kind = "handoff" /\ content'.kind # "handoff"
                     => by' = "user" \/ UserWaits]_vars
=============================================================================

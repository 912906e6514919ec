------------------------------ MODULE ClientMC ------------------------------
(***************************************************************************)
(* Instances of ClientPage, HostedSession and CatalogPage for TLC: the     *)
(* three parts of the page /client.  They share no variable, so a          *)
(* behaviour is one of a setting:                                          *)
(*   page      the views, their timers and requests, two attempts          *)
(*   tabs      two tabs log in, Auth may send one's login to the other     *)
(*   oneTab    one tab with two requests at once                           *)
(*   overlap   the catalog view, two calls in flight                       *)
(*   serial    the catalog view, one call after the other, a longer story: *)
(*             the constants of CatalogPage itself                         *)
(***************************************************************************)
EXTENDS CatalogPage, TLC

CONSTANTS
  p1, p2,                                                    \* two products
  Attempts, Slots, MaxStarts, MaxPageFaults,                 \* page
  Tabs, TabCalls, MaxTabLogins, MaxTabCalls, MaxTabFaults,   \* tabs
  Tab, Requests, MaxLogins, MaxRequests, MaxFaults,          \* oneTab
  MaxTries                                                   \* both of them

VARIABLES
  setting,
  activeView, content, slot, publishWorkerBusy, orderRefreshBusy,
  orderRefreshQueued, prompted, hidden, meFailed, attempt, by, starts, faults,
  stored, dead, tab, request, starter, posts, clicks, lost, registered,
  requested, outages

PageVars ==
  <<activeView, content, slot, publishWorkerBusy, orderRefreshBusy,
    orderRefreshQueued, prompted, hidden, meFailed, attempt, by, starts, faults>>
SessionVars ==
  <<stored, dead, tab, request, starter, posts, clicks, lost, registered,
    requested, outages>>
ClientVars == <<setting, PageVars, SessionVars, vars>>

Client == INSTANCE ClientPage WITH MaxFaults <- MaxPageFaults

BothTabs == INSTANCE HostedSession WITH
  call <- request, made <- requested, faults <- outages,
  Calls <- TabCalls, MaxLogins <- MaxTabLogins, MaxCalls <- MaxTabCalls,
  MaxFaults <- MaxTabFaults, Moves <- TRUE

OneTab == INSTANCE HostedSession WITH
  call <- request, made <- requested, faults <- outages,
  Tabs <- {Tab}, Calls <- Requests, MaxCalls <- MaxRequests, Moves <- FALSE

\* Searches find both products, one or none.
Searches == {<<p1, p2>>, <<p2>>, << >>}

Overlap == INSTANCE CatalogPage WITH MaxInFlight <- 2, MaxCalls <- 4

ASSUME Parameters ==
  /\ Client!ClientPageAssumption
  /\ BothTabs!HostedSessionAssumption /\ OneTab!HostedSessionAssumption
  /\ CatalogPageAssumption /\ Overlap!CatalogPageAssumption

\* The parts that do not move stay in one initial state.
PageIdle ==
  Client!Init /\ activeView = "overview" /\ attempt = [a \in Attempts |-> "none"]
CatalogIdle ==
  Init /\ products = <<p2>> /\ preview = None

ClientInit ==
  \/ setting = "page" /\ Client!Init /\ OneTab!Init /\ CatalogIdle
  \/ setting = "tabs" /\ BothTabs!Init /\ PageIdle /\ CatalogIdle
  \/ setting = "oneTab" /\ OneTab!Init /\ PageIdle /\ CatalogIdle
  \/ setting = "overlap" /\ Overlap!Init /\ PageIdle /\ OneTab!Init
  \/ setting = "serial" /\ Init /\ PageIdle /\ OneTab!Init

ClientNext ==
  /\ \/ setting = "page" /\ Client!Next /\ UNCHANGED <<SessionVars, vars>>
     \/ setting = "tabs" /\ BothTabs!Next /\ UNCHANGED <<PageVars, vars>>
     \/ setting = "oneTab" /\ OneTab!Next /\ UNCHANGED <<PageVars, vars>>
     \/ setting = "overlap" /\ Overlap!Next
          /\ UNCHANGED <<PageVars, SessionVars>>
     \/ setting = "serial" /\ Next /\ UNCHANGED <<PageVars, SessionVars>>
  /\ UNCHANGED setting

ClientSpec == ClientInit /\ [][ClientNext]_ClientVars

-----------------------------------------------------------------------------
\* The page, the session and the catalog view keep their types.
ClientTypeOK ==
  /\ setting = "page" => Client!TypeOK
  /\ setting = "tabs" => BothTabs!TypeOK
  /\ setting = "oneTab" => OneTab!TypeOK
  /\ setting = "overlap" => Overlap!TypeOK
  /\ setting = "serial" => TypeOK

\* With no function in flight the page shows the active view, see ClientPage.
SettledShowsView == setting = "page" => Client!SettledShowsView

\* A token is only stored by the tab that began the login it is of.
OwnLoginStored == [][setting = "tabs" => BothTabs!StoresOwnLogin]_ClientVars

\* A token that Auth accepts stays in the only tab, whatever its requests meet.
ValidTokenKept == [][setting = "oneTab" => OneTab!KeepsValidToken]_ClientVars

\* With one call at a time the settled page shows what its handlers work on, a
\* draft has the values of its own product, and what is queued is what was shown.
PageAndServerAgreeAlone == setting = "serial" => PageAndServerAgree

\* Calls that may overlap differ in nothing but their names; so do slots.
Symmetric == Permutations(Calls) \cup Permutations(Slots)
=============================================================================

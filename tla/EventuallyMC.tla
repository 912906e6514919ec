---------------------------- MODULE EventuallyMC ----------------------------
(***************************************************************************)
(* Instances of StockProjection, AdAvailability, ClientPage and Gateway    *)
(* for TLC, under the fairness each of them justifies: what must happen in *)
(* the end.  They share no variable here, so a behaviour is one of a       *)
(* setting:                                                                *)
(*   stock     stock events handled one after the other, failures, crashes *)
(*   ads       the timer, which looks at some of the ads, and users        *)
(*   page      the silent refresh of orders between renders                *)
(*   gateway   requests that share the sockets to their service            *)
(***************************************************************************)
EXTENDS Integers, SequencesExt

CONSTANTS
  StockAds, StockWorkers, Quantities, MaxStockEvents, MaxCrashes,   \* stock
  Ads, AdRequests, Window, MinInterval, MaxInterval, Lifetime,      \* ads
  FallbackAfter, MaxRunning, MaxRequests, MaxLookupFaults, MaxThrows,
  MaxEdits, MaxDays, Evaluates,
  Attempts, Slots, MaxStarts, MaxPageFaults,                        \* page
  Services, Public, Requests, MaxSockets                            \* gateway

VARIABLES
  setting,
  available, offerable, stockEvents, stockQueue, catalogEvents, catalogQueue,
  projected, projector, crashes, missed,
  ad, order, expiry, activeAdCount, listing, worker, day, edits, requests,
  faults, throws, prepared,
  activeView, content, slot, publishWorkerBusy, orderRefreshBusy,
  orderRefreshQueued, prompted, hidden, meFailed, attempt, by, starts, failures,
  phase, timeoutSet, warm, req, queue, run

StockVars ==
  <<available, offerable, stockEvents, stockQueue, catalogEvents, catalogQueue,
    projected, projector, crashes, missed>>
AdVars ==
  <<ad, order, expiry, activeAdCount, listing, worker, day, edits, requests,
    faults, throws, prepared>>
PageVars ==
  <<activeView, content, slot, publishWorkerBusy, orderRefreshBusy,
    orderRefreshQueued, prompted, hidden, meFailed, attempt, by, starts,
    failures>>
GatewayVars == <<phase, timeoutSet, warm, req, queue, run>>
EventuallyVars == <<setting, StockVars, AdVars, PageVars, GatewayVars>>

Stock == INSTANCE StockProjection WITH
  ad <- projected, worker <- projector, Ads <- StockAds,
  Workers <- StockWorkers, MaxCatalogEvents <- 0, MaxRunning <- 1,
  Failures <- TRUE, Reconciles <- FALSE, SellerActs <- FALSE

Timer == INSTANCE AdAvailability WITH
  Requests <- AdRequests, MaxFaults <- MaxLookupFaults

Page == INSTANCE ClientPage WITH faults <- failures, MaxFaults <- MaxPageFaults

Proxy == INSTANCE Gateway

ASSUME Parameters ==
  /\ Stock!StockAssumption /\ Timer!AvailabilityAssumption
  /\ Page!ClientPageAssumption /\ Proxy!GatewayAssumption
  /\ IsFiniteSet(Ads)

\* The parts that do not move stay in one initial state.
StockIdle == Stock!Init /\ available = Max(Quantities)
             /\ projected = [d \in StockAds |-> Stock!NoAd]
AdIdle ==
  Timer!Init /\ order = SetToSeq(Ads) /\ \A a \in Ads : expiry[a].known
PageIdle ==
  /\ Page!Init /\ activeView = "overview"
  /\ \A t \in Attempts : attempt[t] = "none"
GatewayIdle == Proxy!Init /\ phase = "down" /\ timeoutSet

EventuallyInit ==
  \/ setting = "stock" /\ Stock!Init /\ AdIdle /\ PageIdle /\ GatewayIdle
  \/ setting = "ads" /\ Timer!Init /\ StockIdle /\ PageIdle /\ GatewayIdle
  \/ setting = "page" /\ Page!Init /\ StockIdle /\ AdIdle /\ GatewayIdle
  \/ setting = "gateway" /\ Proxy!Init /\ StockIdle /\ AdIdle /\ PageIdle

EventuallyNext ==
  /\ \/ setting = "stock" /\ Stock!Next
          /\ UNCHANGED <<AdVars, PageVars, GatewayVars>>
     \/ setting = "ads" /\ Timer!Next
          /\ UNCHANGED <<StockVars, PageVars, GatewayVars>>
     \/ setting = "page" /\ Page!Next
          /\ UNCHANGED <<StockVars, AdVars, GatewayVars>>
     \/ setting = "gateway" /\ Proxy!Next
          /\ UNCHANGED <<StockVars, AdVars, PageVars>>
  /\ UNCHANGED setting

-----------------------------------------------------------------------------
(***************************************************************************)
(* The fairness of FairSpec of each module, for the setting it is of.      *)
(***************************************************************************)
\* The consumer takes what is queued, and handlers run on.
StockFairness ==
  WF_StockVars(setting = "stock" /\ \E w \in StockWorkers : Stock!Work(w))

\* The timer runs every minute, its run ends, and time passes.
AdFairness ==
  /\ WF_AdVars(setting = "ads" /\ Timer!Tick)
  /\ WF_AdVars(setting = "ads" /\ Timer!TimerTick)
  /\ WF_AdVars(setting = "ads" /\ Timer!Handle("timer"))

\* Requests are answered or fail, and the page goes on when they are.
PageFairness ==
  \A s \in Slots :
    /\ WF_PageVars(setting = "page" /\ Page!Load(s))
    /\ WF_PageVars(setting = "page" /\ Page!Draw(s))
    /\ WF_PageVars(setting = "page" /\ Page!DrawCatalog(s))

\* The gateway's event loop and its timers run; no service has to answer.
GatewayFairness ==
  /\ WF_GatewayVars(setting = "gateway" /\ Proxy!Listen)
  /\ \A s \in Services :
       /\ WF_GatewayVars(setting = "gateway" /\ Proxy!WarmUp(s))
       /\ WF_GatewayVars(setting = "gateway" /\ Proxy!Connect(s))
  /\ \A r \in Requests :
       /\ WF_GatewayVars(setting = "gateway" /\ Proxy!Guard(r))
       /\ WF_GatewayVars(setting = "gateway" /\ Proxy!Forward(r))
       /\ WF_GatewayVars(setting = "gateway" /\ Proxy!Timeout(r))

EventuallySpec ==
  /\ EventuallyInit /\ [][EventuallyNext]_EventuallyVars
  /\ StockFairness /\ AdFairness /\ PageFairness /\ GatewayFairness

-----------------------------------------------------------------------------
\* Rows, slots and requests keep their types; no service has more requests
\* under way than sockets.
EventuallyTypeOK ==
  /\ setting = "stock" => Stock!TypeOK
  /\ setting = "ads" => Timer!TypeOK
  /\ setting = "page" => Page!TypeOK
  /\ setting = "gateway" => Proxy!TypeOK

\* Warehouse changes reach the ads in the end, unless the write of the last
\* event failed.
EventuallyCaughtUp == setting = "stock" => Stock!EventuallyCaughtUp

\* A listing that disappeared from Bazos is noticed in the end, although the
\* timer looks at one ad at a time.
GoneIsNoticed == setting = "ads" => Timer!GoneIsNoticed

\* A refresh of the orders that had to wait is not left waiting.
RefreshNotLeft == setting = "page" => Page!RefreshNotLeft

\* Every request is answered, though a service never answers and all sockets
\* to it are taken.
EventuallyAnswered == setting = "gateway" => Proxy!EventuallyAnswered
=============================================================================

---------------------------- MODULE AdsOnSaleMC -----------------------------
(***************************************************************************)
(* Instances of AdAvailability and StockProjection for TLC: what becomes   *)
(* of an ad that is on sale.  A behaviour is one of a setting; the         *)
(* settings share no row.                                                  *)
(*   timer     the timer and two requests on one ad overlap                *)
(*   managed   the timer and one request at a time, days pass, ads are     *)
(*             edited; long enough for several checks of a managed ad: the *)
(*             constants of AdAvailability itself                          *)
(*   catalog   Catalog events and reconciliations overlap, two ads         *)
(*   all       every operation on the stock of one ad, one after the other *)
(***************************************************************************)
EXTENDS AdAvailability, TLC

CONSTANTS
  r1, r2,
  CatalogAds, CatalogWorkers, MaxWithdrawals, MaxOverlap,         \* catalog
  StockAds, StockWorkers, MaxStockEvents, MaxCatalogEvents,       \* all
  Quantities, MaxCrashes                                          \* both

VARIABLES
  setting,
  available, offerable, stockEvents, stockQueue, catalogEvents, catalogQueue,
  projected, projector, crashes, missed

Timer == INSTANCE AdAvailability WITH
  Requests <- {r1, r2}, Window <- 1, MinInterval <- 1, MaxInterval <- 1,
  Lifetime <- 1, FallbackAfter <- 1, MaxRunning <- 2, MaxRequests <- 3,
  MaxFaults <- 1, MaxThrows <- 0, MaxEdits <- 1, MaxDays <- 0,
  Evaluates <- TRUE

Catalog == INSTANCE StockProjection WITH
  ad <- projected, worker <- projector, Ads <- CatalogAds,
  Workers <- CatalogWorkers, MaxStockEvents <- 0,
  MaxCatalogEvents <- MaxWithdrawals, MaxRunning <- MaxOverlap,
  Failures <- TRUE, Reconciles <- TRUE, SellerActs <- FALSE

All == INSTANCE StockProjection WITH
  ad <- projected, worker <- projector, Ads <- StockAds,
  Workers <- StockWorkers, MaxRunning <- 1,
  Failures <- TRUE, Reconciles <- TRUE, SellerActs <- TRUE

ASSUME Parameters ==
  /\ AvailabilityAssumption /\ Timer!AvailabilityAssumption
  /\ Catalog!StockAssumption /\ All!StockAssumption

StockVars ==
  <<available, offerable, stockEvents, stockQueue, catalogEvents, catalogQueue,
    projected, projector, crashes, missed>>

\* The component that does not move stays in one initial state.
AdIdle == Init /\ \A a \in Ads : expiry[a].known
StockIdle == All!Init /\ projected = [d \in StockAds |-> All!NoAd]

OnSaleInit ==
  \/ setting = "timer" /\ Timer!Init /\ StockIdle
  \/ setting = "managed" /\ Init /\ StockIdle
  \/ setting = "catalog" /\ Catalog!Init /\ AdIdle
  \/ setting = "all" /\ All!Init /\ AdIdle

OnSaleNext ==
  /\ \/ setting = "timer" /\ Timer!Next /\ UNCHANGED StockVars
     \/ setting = "managed" /\ Next /\ UNCHANGED StockVars
     \/ setting = "catalog" /\ Catalog!Next /\ UNCHANGED vars
     \/ setting = "all" /\ All!Next /\ UNCHANGED vars
  /\ UNCHANGED setting

OnSaleVars == <<setting, vars, StockVars>>
OnSaleSpec == OnSaleInit /\ [][OnSaleNext]_OnSaleVars

-----------------------------------------------------------------------------

\* A prepared update stays marked until Bazos shows a day not before the save,
\* or the ad is deleted or published anew, unless the policy is evaluated.
PendingKept == [][setting = "managed" => KeepsPending]_OnSaleVars

\* Catalog events and the reconciliation, in any order and overlapping: once a
\* product is not offerable and its events are handled, no ad is sellable.
CatalogStops == setting = "catalog" => Catalog!CatalogStops

\* "Durable evidence": what an event or a reconciliation recorded in
\* lastPolicyCheck is not removed by another, nor by offers, edits, a queued ad
\* or a result, through failures and restarts, when none overlap.  A policy
\* check, a claim and a prepared draft do remove it.
EvidenceKept ==
  [][setting = "all" => All!KeepsEvidence \/ All!Replaces]_OnSaleVars
=============================================================================

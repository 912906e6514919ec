-------------------------- MODULE StockProjection --------------------------
(***************************************************************************)
(* How the stock and sellability of one product reach its ads: Warehouse   *)
(* and Catalog events through RabbitMQ, the availability reconciliation    *)
(* script and the offer operations.  Each of them reads the ads, then      *)
(* writes them one by one from what it read, with a pacing delay or a call *)
(* to another service in between; consumers set no prefetch, so events     *)
(* overlap.  The seller's other operations, edits and publishing, are here *)
(* by what they write to the columns of this model.  Warehouse and Catalog *)
(* are external: they change, then send an event.  Unacknowledged events   *)
(* are redelivered after a restart; one that throws is dropped (nack       *)
(* without requeue).                                                       *)
(***************************************************************************)
EXTENDS Integers, Sequences, FiniteSets, FiniteSetsExt

CONSTANTS
  Ads,               \* rows bazosAd has or may get for this product
  Workers,           \* events, reconciliations and syncs being served
  Quantities,        \* stock levels, 0 among them
  MaxStockEvents,    \* bound: stock changes
  MaxCatalogEvents,  \* bound: changes of the product to not offerable
  MaxCrashes,        \* bound: restarts of the service
  MaxRunning,        \* bound: workers busy at once; 1 is no overlap
  Failures,          \* may a database statement of a worker fail?
  Reconciles,        \* is the reconciliation script run?
  SellerActs         \* does the seller use offers, edit and publish?

\* Asked of the parameters of an instance.
StockAssumption ==
  /\ 0 \in Quantities /\ Quantities \subseteq Nat
  /\ {MaxStockEvents, MaxCatalogEvents, MaxCrashes, MaxRunning} \subseteq Nat
  /\ {Failures, Reconciles, SellerActs} \subseteq BOOLEAN

VARIABLES
  available,         \* Warehouse: sellable quantity
  offerable,         \* Catalog: may the product be offered?
  stockEvents,       \* every Warehouse event sent, in order
  stockQueue,        \* numbers of those waiting in stock.bazos-service
  catalogEvents,     \* how many Catalog events were sent
  catalogQueue,      \* numbers of those waiting in catalog.bazos-service
  ad,                \* bazosAd rows
  worker,            \* locals of the handlers
  crashes,
  missed             \* history: ads whose last projection was lost

events == <<stockEvents, catalogEvents>>
queues == <<stockQueue, catalogQueue>>
external == <<available, offerable, events>>
vars == <<external, queues, ad, worker, crashes, missed>>

-----------------------------------------------------------------------------
StockEvent == [type: {"stock.updated", "stock.out"}, quantity: Quantities]

\* lastPolicyCheck.warehouseStockSync
NoSync == [event |-> 0, type |-> "none", quantity |-> 0, status |-> "none"]
StockSync == [event: 1 .. MaxStockEvents, type: {"stock.updated", "stock.out"},
              quantity: Quantities, status: {"applied", "failed"}]

\* catalogSync and reconciled are the other two entries of lastPolicyCheck.
\* "draft" stands for all publish statuses but published and deleted: no event
\* tells them apart.
AdRow == [status: {"absent", "draft", "published", "deleted"},
          stock: Quantities, active: BOOLEAN,
          stockSync: StockSync \cup {NoSync},
          catalogSync: 0 .. MaxCatalogEvents, reconciled: BOOLEAN]
NewAd(status, stock) ==
  [status |-> status, stock |-> stock, active |-> stock > 0,
   stockSync |-> NoSync, catalogSync |-> 0, reconciled |-> FALSE]
NoAd == NewAd("absent", 0)

Jobs == {"stock", "catalog", "reconcile", "sync"}
Idle == [job |-> "none", pc |-> "idle", event |-> 0, todo |-> {},
         read |-> [d \in Ads |-> NoAd], quantity |-> 0]
WorkerState ==
  [job: Jobs, pc: {"ads", "warehouse", "disable", "find", "update", "create"},
   event: 0 .. MaxStockEvents + MaxCatalogEvents,
   todo: SUBSET Ads, read: [Ads -> AdRow], quantity: Quantities]

TypeOK ==
  /\ available \in Quantities
  /\ offerable \in BOOLEAN
  /\ stockEvents \in Seq(StockEvent)
  /\ stockQueue \subseteq 1 .. Len(stockEvents)
  /\ catalogEvents \in 0 .. MaxCatalogEvents
  /\ catalogQueue \subseteq 1 .. catalogEvents
  /\ ad \in [Ads -> AdRow]
  /\ worker \in [Workers -> WorkerState \cup {Idle}]
  /\ crashes \in 0 .. MaxCrashes
  /\ missed \subseteq Ads

Init ==
  /\ available \in Quantities \ {0}
  /\ offerable = TRUE
  /\ stockEvents = << >> /\ catalogEvents = 0
  /\ stockQueue = {} /\ catalogQueue = {}
  /\ ad \in [Ads -> {NoAd, NewAd("published", available)}]
  /\ worker = [w \in Workers |-> Idle]
  /\ crashes = 0
  /\ missed = {}

-----------------------------------------------------------------------------
Existing == {d \in Ads : ad[d].status # "absent"}
Running == Cardinality({w \in Workers : worker[w].job # "none"})
MayStart(w) == worker[w].job = "none" /\ Running < MaxRunning
MaySlipIn == MaxRunning > 1 \/ Running = 0

\* What the worker read is all it knows of the ads from here on.
Begin(w, job, pc, event, todo) ==
  worker' = [worker EXCEPT ![w] =
    [job |-> job, pc |-> pc, event |-> event, todo |-> todo,
     read |-> [d \in Ads |-> IF d \in todo THEN ad[d] ELSE NoAd],
     quantity |-> 0]]

Goto(w, pc) == worker' = [worker EXCEPT ![w].pc = pc]

\* The loop is done with ad d.
Proceed(w, d) ==
  LET rest == worker[w].todo \ {d} IN
  worker' = [worker EXCEPT ![w] =
    IF rest = {} THEN Idle
    ELSE [@ EXCEPT !.pc = "ads", !.todo = rest, !.read[d] = NoAd]]

-----------------------------------------------------------------------------
(***************************************************************************)
(* Warehouse and Catalog.                                                  *)
(***************************************************************************)
ChangeStock ==
  /\ Len(stockEvents) < MaxStockEvents
  /\ \E q \in Quantities \ {available}, type \in {"stock.updated", "stock.out"} :
       /\ type = "stock.out" => q = 0
       /\ available' = q
       /\ stockEvents' = Append(stockEvents, [type |-> type, quantity |-> q])
  /\ stockQueue' = stockQueue \cup {Len(stockEvents) + 1}
  /\ UNCHANGED <<offerable, catalogEvents, catalogQueue, ad, worker, crashes,
                 missed>>

StopOffering ==
  /\ catalogEvents < MaxCatalogEvents
  /\ offerable' = FALSE
  /\ catalogEvents' = catalogEvents + 1
  /\ catalogQueue' = catalogQueue \cup {catalogEvents + 1}
  /\ UNCHANGED <<available, stockEvents, stockQueue, ad, worker, crashes, missed>>

\* The sellable-again event is ignored by the service: there is none to send.
OfferAgain ==
  /\ ~offerable
  /\ catalogEvents < MaxCatalogEvents
  /\ offerable' = TRUE
  /\ UNCHANGED <<available, events, queues, ad, worker, crashes, missed>>

-----------------------------------------------------------------------------
(***************************************************************************)
(* StockEventsSubscriber                                                   *)
(***************************************************************************)
\* The read fails: the event is acknowledged negatively and gone.
StockDeliver(w) ==
  /\ MayStart(w)
  /\ stockQueue # {}
  /\ LET n == Min(stockQueue) IN
     /\ stockQueue' = stockQueue \ {n}
     /\ \/ /\ Existing # {}
           /\ Begin(w, "stock", "ads", n, Existing)
           /\ UNCHANGED missed
        \/ Existing = {} /\ UNCHANGED <<worker, missed>>
        \/ Failures /\ missed' = Existing /\ UNCHANGED worker
  /\ UNCHANGED <<external, catalogQueue, ad, crashes>>

Evidence(n, status) ==
  [event |-> n, type |-> stockEvents[n].type,
   quantity |-> stockEvents[n].quantity, status |-> status]

\* Mutant: the evidence is spread over nothing, other entries are dropped.
ProjectedAlone(row, read, n) ==
  LET event == stockEvents[n] IN
  [row EXCEPT !.stock = event.quantity, !.active = event.quantity > 0,
     !.stockSync = Evidence(n, "applied"),
     !.catalogSync = 0, !.reconciled = FALSE]

\* buildAdStockProjection over the current row: the columns it does not set
\* keep their value, lastPolicyCheck is written back as it was read.
Projected(row, read, n) ==
  LET event == stockEvents[n]
      offSale == event.quantity = 0
      status == CASE offSale -> "deleted"
                  [] ~offSale /\ read.status = "deleted"
                              /\ read.stockSync.type = "stock.out" -> "draft"
                  [] OTHER -> row.status
  IN [row EXCEPT !.stock = event.quantity, !.active = ~offSale,
        !.status = status, !.stockSync = Evidence(n, "applied"),
        !.catalogSync = read.catalogSync, !.reconciled = read.reconciled]

Applied(read, n) == read.stockSync = Evidence(n, "applied")

\* Mutant: an ad that has the event already is waited for.
StockProjectWaits(w, d) ==
  /\ worker[w].job = "stock"
  /\ d \in worker[w].todo
  /\ ~Applied(worker[w].read[d], worker[w].event)
  /\ ad' = [ad EXCEPT ![d] =
              Projected(ad[d], worker[w].read[d], worker[w].event)]
  /\ missed' = missed \ {d}
  /\ Proceed(w, d)
  /\ UNCHANGED <<external, queues, crashes>>

StockProject(w, d) ==
  /\ worker[w].job = "stock"
  /\ d \in worker[w].todo
  /\ LET n == worker[w].event
         read == worker[w].read[d]
     IN ad' = IF Applied(read, n) THEN ad
              ELSE [ad EXCEPT ![d] = Projected(ad[d], read, n)]
  /\ missed' = missed \ {d}
  /\ Proceed(w, d)
  /\ UNCHANGED <<external, queues, crashes>>

\* The update throws; recordStockSyncFailure, itself perhaps in vain.
StockProjectFails(w, d) ==
  /\ Failures
  /\ worker[w].job = "stock"
  /\ d \in worker[w].todo
  /\ LET n == worker[w].event
         read == worker[w].read[d]
     IN /\ ~Applied(read, n)
        /\ \/ ad' = [ad EXCEPT ![d].stockSync = Evidence(n, "failed"),
                               ![d].catalogSync = read.catalogSync,
                               ![d].reconciled = read.reconciled]
           \/ ad' = ad
  /\ missed' = missed \cup {d}
  /\ Proceed(w, d)
  /\ UNCHANGED <<external, queues, crashes>>

-----------------------------------------------------------------------------
(***************************************************************************)
(* CatalogProductEventsSubscriber: events that make the product not        *)
(* offerable; all others are ignored.                                      *)
(***************************************************************************)
CatalogDeliver(w) ==
  /\ MayStart(w)
  /\ catalogQueue # {}
  /\ LET n == Min(catalogQueue) IN
     /\ catalogQueue' = catalogQueue \ {n}
     /\ \/ /\ Existing # {}
           /\ Begin(w, "catalog", "ads", n, Existing)
           /\ UNCHANGED missed
        \/ Existing = {} /\ UNCHANGED <<worker, missed>>
        \/ Failures /\ missed' = Existing /\ UNCHANGED worker
  /\ UNCHANGED <<external, stockQueue, ad, crashes>>

\* Mutant: only the status is written.
DisabledStatusOnly(row, read) ==
  [row EXCEPT !.status = "deleted",
     !.stockSync = read.stockSync, !.catalogSync = read.catalogSync,
     !.reconciled = read.reconciled]

\* The state both the Catalog event and the reconciliation leave an ad in.
Disabled(row, read) ==
  [row EXCEPT !.stock = 0, !.active = FALSE, !.status = "deleted",
     !.stockSync = read.stockSync, !.catalogSync = read.catalogSync,
     !.reconciled = read.reconciled]

CatalogApply(w, d) ==
  /\ worker[w].job = "catalog"
  /\ d \in worker[w].todo
  /\ LET n == worker[w].event
         read == worker[w].read[d]
     IN ad' = IF read.catalogSync = n THEN ad
              ELSE [ad EXCEPT ![d] =
                      [Disabled(ad[d], read) EXCEPT !.catalogSync = n]]
  /\ missed' = missed \ {d}
  /\ Proceed(w, d)
  /\ UNCHANGED <<external, queues, crashes>>

\* A write that throws ends the handler: the ads after it are not visited.
CatalogApplyFails(w) ==
  /\ Failures
  /\ worker[w].job = "catalog"
  /\ missed' = missed \cup worker[w].todo
  /\ worker' = [worker EXCEPT ![w] = Idle]
  /\ UNCHANGED <<external, queues, ad, crashes>>

-----------------------------------------------------------------------------
(***************************************************************************)
(* BazosAvailabilityReconciliationService.reconcile                        *)
(***************************************************************************)
OnSale(d) == ad[d].active \/ ad[d].stock > 0 \/ ad[d].status = "published"

ReconcileList(w) ==
  /\ Reconciles
  /\ MayStart(w)
  /\ LET listed == {d \in Existing : OnSale(d)} IN
     /\ listed # {}
     /\ Begin(w, "reconcile", "ads", 0, listed)
  /\ UNCHANGED <<external, queues, ad, crashes, missed>>

\* One ad at a time: Catalog first (a lookup that fails counts as missing).
ReconcileCatalog(w) ==
  /\ worker[w].job = "reconcile" /\ worker[w].pc = "ads"
  /\ \/ (~offerable \/ Failures) /\ Goto(w, "disable")
     \/ offerable /\ Goto(w, "warehouse")
  /\ UNCHANGED <<external, queues, ad, crashes, missed>>

\* A Warehouse lookup that fails leaves the ad as it is.
ReconcileWarehouse(w, d) ==
  /\ worker[w].job = "reconcile" /\ worker[w].pc = "warehouse"
  /\ d \in worker[w].todo
  /\ \/ available = 0 /\ Goto(w, "disable")
     \/ (available > 0 \/ Failures) /\ Proceed(w, d)
  /\ UNCHANGED <<external, queues, ad, crashes, missed>>

ReconcileDisable(w, d) ==
  /\ worker[w].job = "reconcile" /\ worker[w].pc = "disable"
  /\ d \in worker[w].todo
  /\ \/ ad' = [ad EXCEPT ![d] = [Disabled(ad[d], worker[w].read[d])
                                   EXCEPT !.reconciled = TRUE]]
     \/ Failures /\ ad' = ad
  /\ Proceed(w, d)
  /\ UNCHANGED <<external, queues, crashes, missed>>

-----------------------------------------------------------------------------
(***************************************************************************)
(* OffersService                                                           *)
(***************************************************************************)
SyncReadStock(w) ==
  /\ SellerActs
  /\ MayStart(w)
  /\ worker' = [worker EXCEPT ![w] =
       [Idle EXCEPT !.job = "sync", !.pc = "find", !.quantity = available]]
  /\ UNCHANGED <<external, queues, ad, crashes, missed>>

\* findFirst, then a pricing call before the write.
SyncFindAd(w) ==
  /\ worker[w].job = "sync" /\ worker[w].pc = "find"
  /\ \/ \E d \in Existing : worker' = [worker EXCEPT ![w].pc = "update",
                                                     ![w].todo = {d}]
     \/ Existing = {} /\ Goto(w, "create")
  /\ UNCHANGED <<external, queues, ad, crashes, missed>>

SyncUpdate(w, d) ==
  /\ worker[w].job = "sync" /\ worker[w].pc = "update"
  /\ d \in worker[w].todo
  /\ ad' = [ad EXCEPT ![d].stock = worker[w].quantity,
                      ![d].active = worker[w].quantity > 0]
  /\ Proceed(w, d)
  /\ UNCHANGED <<external, queues, crashes, missed>>

SyncCreate(w, d) ==
  /\ worker[w].job = "sync" /\ worker[w].pc = "create"
  /\ d \notin Existing
  /\ ad' = [ad EXCEPT ![d] = NewAd("draft", worker[w].quantity)]
  /\ worker' = [worker EXCEPT ![w] = Idle]
  /\ UNCHANGED <<external, queues, crashes, missed>>

SellerWrites(d, row) ==
  /\ SellerActs /\ MaySlipIn
  /\ ad' = [ad EXCEPT ![d] = row]
  /\ UNCHANGED <<external, queues, worker, crashes, missed>>

\* renewAd and delete
SetActive(d, active) ==
  d \in Existing /\ SellerWrites(d, [ad[d] EXCEPT !.active = active])

-----------------------------------------------------------------------------
(***************************************************************************)
(* BazosAdService, BazosCatalogSellActionService and the publish queue.    *)
(* A policy result, or new draft options, replace all of lastPolicyCheck;  *)
(* only updateDraft writes back what it held.  The gates of these          *)
(* operations are modelled in SellAction, PublishPolicy and PublishQueue;  *)
(* what Warehouse and Catalog told them may be out of date here.           *)
(***************************************************************************)
Unnoted(row) ==
  [row EXCEPT !.stockSync = NoSync, !.catalogSync = 0, !.reconciled = FALSE]

\* createDraft, of the seller or of prepare
CreateDraft(d, quantity) ==
  /\ d \notin Existing
  /\ SellerWrites(d, [NewAd("draft", quantity) EXCEPT !.active = TRUE])

\* updateDraft
EditAd(d, quantity) ==
  d \in Existing /\ SellerWrites(d, [ad[d] EXCEPT !.stock = quantity])

\* evaluatePublishPolicy, which ends prepare too, and the check of enqueueDraft
CheckPolicy(d) == d \in Existing /\ SellerWrites(d, Unnoted(ad[d]))

\* prepare finds a draft that is on sale.
Prepare(d, quantity) ==
  /\ d \in Existing
  /\ (ad[d].active /\ ad[d].status = "draft") \/ MaxRunning > 1
  /\ SellerWrites(d, [Unnoted(ad[d]) EXCEPT !.stock = quantity,
                                            !.status = "draft"])

\* claimNext, which blocks the ad or has it published
ClaimAd(d) ==
  /\ d \in Existing
  /\ ad[d].active \/ MaxRunning > 1
  /\ SellerWrites(d, [Unnoted(ad[d]) EXCEPT !.status = "draft"])

\* enqueueDraft has queued the ad; recordResult
PublishAd(d, status) ==
  d \in Existing /\ SellerWrites(d, [ad[d] EXCEPT !.status = status])

Publishing(d) ==
  \/ CheckPolicy(d) \/ ClaimAd(d)
  \/ \E q \in Quantities : CreateDraft(d, q) \/ EditAd(d, q) \/ Prepare(d, q)
  \/ \E status \in {"draft", "published"} : PublishAd(d, status)

-----------------------------------------------------------------------------
\* The process restarts: RabbitMQ requeues what was not acknowledged.
Unacked(job) == {worker[w].event : w \in {v \in Workers : worker[v].job = job}}

Crash ==
  /\ crashes < MaxCrashes
  /\ crashes' = crashes + 1
  /\ stockQueue' = stockQueue \cup Unacked("stock")
  /\ catalogQueue' = catalogQueue \cup Unacked("catalog")
  /\ worker' = [w \in Workers |-> Idle]
  /\ UNCHANGED <<external, ad, missed>>

Work(w) ==
  \/ StockDeliver(w) \/ CatalogDeliver(w) \/ ReconcileCatalog(w)
  \/ SyncFindAd(w)
  \/ \E d \in Ads : \/ StockProject(w, d) \/ StockProjectFails(w, d)
                    \/ CatalogApply(w, d)
                    \/ ReconcileWarehouse(w, d) \/ ReconcileDisable(w, d)
                    \/ SyncUpdate(w, d) \/ SyncCreate(w, d)
  \/ CatalogApplyFails(w)

Next ==
  \/ ChangeStock \/ StopOffering \/ OfferAgain
  \/ \E w \in Workers : Work(w) \/ ReconcileList(w) \/ SyncReadStock(w)
  \/ \E d \in Ads, active \in BOOLEAN : SetActive(d, active)
  \/ \E d \in Ads : Publishing(d)
  \/ Crash

Spec == Init /\ [][Next]_vars

\* The consumer takes what is queued and every handler runs on: nothing in
\* them waits for anything but a timer, the database or a bounded call.
FairSpec == Spec /\ WF_vars(\E w \in Workers : Work(w))

-----------------------------------------------------------------------------
(***************************************************************************)
(* Properties.                                                             *)
(***************************************************************************)
Drained == stockQueue = {} /\ catalogQueue = {} /\ Running = 0

\* With the stock events handled one after the other, every ad shows in the end
\* the quantity Warehouse has, unless a write of its last event failed; restarts
\* in the middle of an event leave nothing behind.
EventuallyCaughtUp ==
  <>[](\A d \in Existing \ missed : /\ ad[d].stock = available
                                    /\ ad[d].active <=> available > 0)

\* Catalog events and the reconciliation, in any order and overlapping: once a
\* product is not offerable and its events are handled, no ad is sellable.
Sellable(d) == ad[d].active /\ ad[d].stock > 0
CatalogStops ==
  Drained /\ ~offerable => \A d \in Existing \ missed : ~Sellable(d)

\* "Durable evidence": what one service recorded in lastPolicyCheck is not
\* removed by the write of another, unless the publishing side replaces the
\* column.
Replaces ==
  \E d \in Ads : \/ CheckPolicy(d) \/ ClaimAd(d)
                 \/ \E q \in Quantities : Prepare(d, q)
KeepsEvidence ==
  \A d \in Existing :
    /\ ad[d].stockSync # NoSync => ad'[d].stockSync # NoSync
    /\ ad[d].catalogSync # 0 => ad'[d].catalogSync >= ad[d].catalogSync
    /\ ad[d].reconciled => ad'[d].reconciled
=============================================================================

----------------------------- MODULE SellAction -----------------------------
(***************************************************************************)
(* From a Catalog product to an ad in the publish queue: drafts created    *)
(* with a new Catalog product, the sell action (prepare, confirm), the     *)
(* gates that look at the other ads, at Warehouse, at Catalog and at the   *)
(* evidence, and what the queue does to the rows of one identity.  Every   *)
(* call to Catalog or Warehouse and every statement is a step; requests    *)
(* overlap.  Identity gates are those of PublishPolicy and may always fail *)
(* here.  Other services take ads off sale and put them back; what is on   *)
(* Bazos stays there.                                                      *)
(***************************************************************************)
EXTENDS Integers, FiniteSets

CONSTANTS
  Titles,            \* titles that normalise differently
  MaxCopies,         \* bound: Catalog products created for one title
  MaxAds,            \* bound: bazosAd rows
  Requests,          \* requests being served
  MaxRunning,        \* bound: requests at once; 1 is no overlap
  MaxRequests,       \* bound: requests ever served
  MaxFaults,         \* bound: calls and statements that fail
  MaxChanges,        \* bound: changes of a product's quality or stock, and ads
                     \* taken off sale or put back
  Creates            \* are drafts created outside the sell action?

ASSUME SellAssumption ==
  /\ {MaxCopies, MaxAds, MaxRunning} \subseteq Nat \ {0}
  /\ {MaxRequests, MaxFaults, MaxChanges} \subseteq Nat
  /\ Creates \in BOOLEAN

VARIABLES
  catalog,           \* Catalog products there are
  fact,              \* what Catalog and Warehouse say of each product
  ad,                \* bazosAd rows, in createdAt order
  attempt,           \* the open publish attempt of each ad
  request,           \* requests being served, with their locals
  prepared,          \* the latest answer of a prepare
  served, faults, changes

external == <<catalog, fact>>
counters == <<served, faults, changes>>
vars == <<external, ad, attempt, request, prepared, counters>>

Copies == 1 .. MaxCopies
Products == Titles \X Copies
AdIds == 1 .. MaxAds
NoAd == 0
NoProduct == <<>>
Reusable == {"draft", "blocked_policy", "failed", "challenge"}
Statuses ==
  Reusable \cup {"absent", "queued", "publishing", "published", "deleted"}

\* isActive, and whether there is a bazosAdId.
AdRow == [status: Statuses, product: Products \cup {NoProduct},
          active: BOOLEAN, listed: BOOLEAN]
Facts == {"ready", "blocked", "outOfStock"}
ManualGates == {"duplicate_evidence", "content_evidence"}

Answer == [ad: AdIds \cup {NoAd}, canQueue: BOOLEAN, ready: BOOLEAN]

Idle == [job |-> "none"]
Locals ==
  [job: {"create", "prepare", "confirm", "claim"},
   pc: {"search", "product", "quality", "stock", "find", "update", "insert",
        "evaluate", "enqueue", "gate", "queue", "recheck", "block", "submit"},
   title: Titles, product: Products \cup {NoProduct}, ad: AdIds \cup {NoAd},
   renews: BOOLEAN]  \* the ad was "deleted" when enqueueDraft read it

TypeOK ==
  /\ catalog \subseteq Products
  /\ fact \in [Products -> Facts]
  /\ ad \in [AdIds -> AdRow]
  /\ attempt \in [AdIds -> {"none", "queued", "submitting"}]
  /\ request \in [Requests -> Locals \cup {Idle}]
  /\ prepared \in Answer
  /\ served \in 0 .. MaxRequests /\ faults \in 0 .. MaxFaults
  /\ changes \in 0 .. MaxChanges

Init ==
  /\ catalog \in SUBSET (Titles \X {1})
  /\ fact = [p \in Products |-> "ready"]
  /\ ad = [n \in AdIds |-> [status |-> "absent", product |-> NoProduct,
                           active |-> FALSE, listed |-> FALSE]]
  /\ attempt = [n \in AdIds |-> "none"]
  /\ request = [r \in Requests |-> Idle]
  /\ prepared = [ad |-> NoAd, canQueue |-> FALSE, ready |-> FALSE]
  /\ served = 0 /\ faults = 0 /\ changes = 0

-----------------------------------------------------------------------------
Busy(r) == request[r] # Idle
At(r, pc) == Busy(r) /\ request[r].pc = pc
Running == Cardinality({r \in Requests : Busy(r)})
End(r) == request' = [request EXCEPT ![r] = Idle]
Goto(r, pc) == request' = [request EXCEPT ![r].pc = pc]

Start(r, job, pc, t, p, n) ==
  /\ ~Busy(r) /\ Running < MaxRunning /\ served < MaxRequests
  /\ served' = served + 1
  /\ request' = [request EXCEPT ![r] = [job |-> job, pc |-> pc, title |-> t,
                                        product |-> p, ad |-> n,
                                        renews |-> FALSE]]
  /\ UNCHANGED <<external, ad, attempt, prepared, faults, changes>>

Change == changes < MaxChanges /\ changes' = changes + 1

Exists(n) == ad[n].status # "absent"

\* The rows of the product that the queries with isActive find.
AdsOf(p) == {n \in AdIds : Exists(n) /\ ad[n].product = p /\ ad[n].active}

\* Mutant: only what is on Bazos counts as a duplicate.
DuplicatesPublished(p, self) ==
  {n \in AdsOf(p) \ {self} : ad[n].status = "published"}

\* Gate 8: another active ad of the product, whatever its publishStatus.
Duplicates(p, self) == AdsOf(p) \ {self}

\* Gates 9 and 10 on what Warehouse and Catalog say now; a call that fails
\* fails the gate.
OutOfStock(p) == fact[p] = "outOfStock"
NotPublishable(p) == fact[p] = "blocked"

\* Gates 8 to 11 and 13; a caller that gives no ad id does not exclude any,
\* one that gives no evidence fails both evidence gates.
Failures(p, self, evidence) ==
  (IF Duplicates(p, self) # {} THEN {"local_duplicate"} ELSE {})
  \cup (IF OutOfStock(p) THEN {"warehouse"} ELSE {})
  \cup (IF NotPublishable(p) THEN {"catalog"} ELSE {})
  \cup (IF evidence THEN {} ELSE ManualGates)

CanQueueAfterConfirmation(failures) == failures \subseteq ManualGates

\* Rows are created in the order of their numbers.
NewAd(n) ==
  /\ ad[n].status = "absent"
  /\ \A m \in 1 .. n - 1 : ad[m].status # "absent"

Insert(n, p) ==
  /\ NewAd(n)
  /\ ad' = [ad EXCEPT ![n] = [status |-> "draft", product |-> p,
                              active |-> TRUE, listed |-> FALSE]]

-----------------------------------------------------------------------------
(***************************************************************************)
(* createDraft with saveToCatalog or uploaded photos                       *)
(***************************************************************************)
CreateDraft(r, t) == Creates /\ Start(r, "create", "search", t, NoProduct, NoAd)

Similar(t) == {p \in catalog : p[1] = t}

\* Mutant: a search that fails finds nothing.
SearchFindsNothing(r) ==
  /\ At(r, "search")
  /\ \/ /\ Similar(request[r].title) # {}
        /\ \E p \in Similar(request[r].title) :
             request' = [request EXCEPT ![r].pc = "insert", ![r].product = p]
        /\ UNCHANGED faults
     \/ /\ Similar(request[r].title) = {}
        /\ Goto(r, "product")
        /\ UNCHANGED faults
     \/ /\ faults < MaxFaults
        /\ faults' = faults + 1
        /\ Goto(r, "product")
  /\ UNCHANGED <<external, ad, attempt, prepared, served, changes>>

\* findSimilarCatalogProduct: Catalog's own search, compared by title.
Search(r) ==
  /\ At(r, "search")
  /\ \/ \E p \in Similar(request[r].title) :
          request' = [request EXCEPT ![r].pc = "insert", ![r].product = p]
     \/ /\ Similar(request[r].title) = {}
        /\ Goto(r, "product")
  /\ UNCHANGED <<external, ad, attempt, prepared, counters>>

CreateProduct(r) ==
  LET t == request[r].title
      p == <<t, Cardinality(Similar(t)) + 1>>
  IN /\ At(r, "product")
     /\ p \in Products
     /\ catalog' = catalog \cup {p}
     /\ request' = [request EXCEPT ![r].pc = "insert", ![r].product = p]
     /\ UNCHANGED <<fact, ad, attempt, prepared, counters>>

InsertDraft(r) ==
  /\ At(r, "insert") /\ request[r].job = "create"
  /\ \E n \in AdIds : Insert(n, request[r].product)
  /\ End(r)
  /\ UNCHANGED <<external, attempt, prepared, counters>>

-----------------------------------------------------------------------------
(***************************************************************************)
(* prepare                                                                 *)
(***************************************************************************)
Prepare(r, p) == p \in catalog /\ Start(r, "prepare", "quality", p[1], p, NoAd)

\* A blocking issue, a bundle, an answer without issues.
QualityBlocked(p) == fact[p] = "blocked"

\* evaluateCatalogQuality fails closed: a failing lookup ends the request too.
CheckQuality(r) ==
  /\ At(r, "quality")
  /\ IF QualityBlocked(request[r].product) THEN End(r)
     ELSE Goto(r, IF request[r].job = "prepare" THEN "stock" ELSE "enqueue")
  /\ UNCHANGED <<external, ad, attempt, prepared, counters>>

\* The quantity is capped; a draft without stock is prepared all the same.
ResolveStock(r) ==
  /\ At(r, "stock")
  /\ Goto(r, "find")
  /\ UNCHANGED <<external, ad, attempt, prepared, counters>>

FindDraft(r) ==
  LET drafts == {n \in AdsOf(request[r].product) : ad[n].status \in Reusable}
  IN /\ At(r, "find")
     /\ \/ drafts = {} /\ Goto(r, "insert")
        \/ \E n \in drafts :
             /\ \A m \in drafts : m <= n
             /\ request' = [request EXCEPT ![r].pc = "update", ![r].ad = n]
     /\ UNCHANGED <<external, ad, attempt, prepared, counters>>

\* The row is written as a draft without a Bazos id, whatever became of it
\* since it was read; isActive is left alone.
RewriteDraft(r) ==
  LET c == request[r] IN
  /\ At(r, "update")
  /\ ad' = [ad EXCEPT ![c.ad].status = "draft", ![c.ad].listed = FALSE]
  /\ Goto(r, "evaluate")
  /\ UNCHANGED <<external, attempt, prepared, counters>>

PrepareInsert(r) ==
  LET c == request[r] IN
  /\ At(r, "insert") /\ c.job = "prepare"
  /\ \E n \in AdIds :
       /\ Insert(n, c.product)
       /\ request' = [request EXCEPT ![r].pc = "evaluate", ![r].ad = n]
  /\ UNCHANGED <<external, attempt, prepared, counters>>

\* evaluatePublishPolicy passes neither the ad's id nor any evidence; ready is
\* what the same gates say of the ad beside the others.
EvaluatePrepared(r) ==
  LET c == request[r]
      Can(self) == CanQueueAfterConfirmation(Failures(c.product, self, FALSE))
  IN /\ At(r, "evaluate")
     /\ prepared' = [ad |-> c.ad, canQueue |-> Can(NoAd), ready |-> Can(c.ad)]
     /\ End(r)
     /\ UNCHANGED <<external, ad, attempt, counters>>

-----------------------------------------------------------------------------
(***************************************************************************)
(* confirm and the queue                                                   *)
(***************************************************************************)
Confirm(r, n) ==
  /\ Exists(n)
  /\ Start(r, "confirm", "quality", ad[n].product[1], ad[n].product, n)

\* assertPublishableDraft, and an open attempt is returned as it is.
EnqueueRead(r) ==
  LET row == ad[request[r].ad] IN
  /\ At(r, "enqueue")
  /\ IF \/ row.status \in {"published", "publishing"}
        \/ row.listed /\ row.status # "deleted"
        \/ ~row.active
        \/ attempt[request[r].ad] # "none"
     THEN End(r)
     ELSE request' = [request EXCEPT ![r].pc = "gate",
                                     ![r].renews = row.status = "deleted"]
  /\ UNCHANGED <<external, ad, attempt, prepared, counters>>

EnqueueGate(r) ==
  LET c == request[r] IN
  /\ At(r, "gate")
  /\ \/ /\ Failures(c.product, c.ad, TRUE) = {}
        /\ Goto(r, "queue")
     \/ End(r)       \* an identity gate, the evidence or one of those failed
  /\ UNCHANGED <<external, ad, attempt, prepared, counters>>

\* A renewed ad loses the id of its old listing.
EnqueueWrite(r) ==
  LET c == request[r] IN
  /\ At(r, "queue")
  /\ attempt' = [attempt EXCEPT ![c.ad] = IF @ = "none" THEN "queued" ELSE @]
  /\ ad' = [ad EXCEPT ![c.ad].status = "queued",
                      ![c.ad].listed = @ /\ ~c.renews]
  /\ End(r)
  /\ UNCHANGED <<external, prepared, counters>>

\* claimNext; that two claims may overlap is the matter of PublishQueue.
Claim(r, n) ==
  /\ attempt[n] = "queued" /\ ad[n].active
  /\ \A q \in Requests : Busy(q) => request[q].job # "claim"
  /\ Start(r, "claim", "recheck", ad[n].product[1], ad[n].product, n)

ClaimGate(r) ==
  LET c == request[r] IN
  /\ At(r, "recheck")
  /\ \/ /\ Failures(c.product, c.ad, TRUE) = {}
        /\ Goto(r, "submit")
     \/ Goto(r, "block")
  /\ UNCHANGED <<external, ad, attempt, prepared, counters>>

ClaimWrite(r) ==
  LET c == request[r] IN
  /\ At(r, "submit") \/ At(r, "block")
  /\ attempt' = [attempt EXCEPT ![c.ad] =
                   IF c.pc = "submit" THEN "submitting" ELSE "none"]
  /\ ad' = [ad EXCEPT ![c.ad].status =
              IF c.pc = "submit" THEN "publishing" ELSE "blocked_policy"]
  /\ End(r)
  /\ UNCHANGED <<external, prepared, counters>>

\* A human submits the ad and reports; it takes longer than the requests that
\* read the ad before.  Nobody looks at isActive.
Result(n) ==
  /\ attempt[n] = "submitting"
  /\ \A r \in Requests : Busy(r) => request[r].ad # n
  /\ attempt' = [attempt EXCEPT ![n] = "none"]
  /\ \E status \in {"published", "failed", "challenge"} :
       ad' = [ad EXCEPT ![n].status = status,
                        ![n].listed = @ \/ status = "published"]
  /\ UNCHANGED <<external, request, prepared, counters>>

-----------------------------------------------------------------------------
(***************************************************************************)
(* Ads taken off sale and put back.                                        *)
(***************************************************************************)
Turn(n) ==
  /\ Exists(n)
  /\ Change
  /\ UNCHANGED <<external, attempt, request, prepared, served, faults>>

\* offers.delete, and events, reconciliation and checks, which set the status
\* too.  Nothing is done on Bazos, and the id of the listing stays.
Withdraw(n) ==
  /\ Turn(n) /\ ad[n].active
  /\ \E status \in {ad[n].status, "deleted"} :
       ad' = [ad EXCEPT ![n].active = FALSE, ![n].status = status]

\* A positive stock; after stock.out it makes a draft of the ad.
Restore(n) ==
  /\ Turn(n) /\ ~ad[n].active
  /\ \E status \in {ad[n].status} \cup
                  (IF ad[n].status = "deleted" THEN {"draft"} ELSE {}) :
       ad' = [ad EXCEPT ![n].active = TRUE, ![n].status = status]

-----------------------------------------------------------------------------
\* A call to Catalog or Warehouse, or a statement, fails: the clients throw,
\* and the request ends.
Fail(r) ==
  /\ Busy(r) /\ faults < MaxFaults
  /\ faults' = faults + 1
  /\ End(r)
  /\ UNCHANGED <<external, ad, attempt, prepared, served, changes>>

ChangeProduct(p) ==
  /\ p \in catalog
  /\ Change
  /\ \E f \in Facts \ {fact[p]} :
       fact' = [fact EXCEPT ![p] = f]
  /\ UNCHANGED <<catalog, ad, attempt, request, prepared, served, faults>>

Handle(r) ==
  \/ Search(r) \/ CreateProduct(r) \/ InsertDraft(r)
  \/ CheckQuality(r) \/ ResolveStock(r) \/ FindDraft(r) \/ RewriteDraft(r)
  \/ PrepareInsert(r) \/ EvaluatePrepared(r)
  \/ EnqueueRead(r) \/ EnqueueGate(r) \/ EnqueueWrite(r)
  \/ ClaimGate(r) \/ ClaimWrite(r) \/ Fail(r)

Next ==
  \/ \E r \in Requests :
       \/ \E t \in Titles : CreateDraft(r, t)
       \/ \E p \in Products : Prepare(r, p)
       \/ \E n \in AdIds : Confirm(r, n) \/ Claim(r, n)
       \/ Handle(r)
  \/ \E n \in AdIds : Result(n) \/ Withdraw(n) \/ Restore(n)
  \/ \E p \in Products : ChangeProduct(p)

Spec == Init /\ [][Next]_vars

-----------------------------------------------------------------------------
(***************************************************************************)
(* Properties.                                                             *)
(***************************************************************************)
\* An ad that is being submitted or has a listing.
Listed(n) ==
  \/ ad[n].status \in {"publishing", "published"} \/ ad[n].listed
  \/ attempt[n] = "submitting"

\* One title gets one Catalog product when requests do not overlap, also when
\* searches fail and requests are lost: the next one finds what was created.
OneProductPerTitle == \A t \in Titles : Cardinality(Similar(t)) <= 1

\* A prepared draft whose product is in order can be confirmed.
PreparedCanBeConfirmed == prepared.ready => prepared.canQueue
=============================================================================

# Verification of Bazos

`bazos` publishes ads of verified sellers on Bazos.cz. A human does everything
that Bazos protects with SMS, bank or CAPTCHA checks; the service prepares
drafts from Catalog products, decides *whether and when* an ad may be published,
hands due ads to a worker, records what became of them, keeps them in line with
Warehouse and Catalog, watches the public listings, and forwards orders to a
central Orders service. Sellers use it through the page `/client`, behind a
gateway and a hosted login.

This directory holds TLA+ modules of the code, TLC runs on small instances, and
TLAPS proofs for all instances. `PROJECT.json` maps each definition to the lines
it models, lists the hazards of the code and says which property is about which.

## The system

The services keep all state in PostgreSQL (`prisma/schema.prisma`). They are
NestJS classes; requests, timers and RabbitMQ consumers run at once, in one or
several processes. **No handler uses a transaction or a conditional update**:
each `await prisma...` is atomic, everything between two of them is not, and
rows are updated by primary key whatever they have become since they were read.
The page keeps its state in JavaScript variables, the document and the
browser's storages; every `await` of it lets other functions run.

| component | state | operations | hard behaviour | what makes it correct |
|---|---|---|---|---|
| publisher queue (`shared/bazos/publisher`) | `BazosPublishAttempt`, `BazosAd.publishStatus` | `enqueueDraft`, `claimNext`, `recordResult` | check-then-write over several awaits, overlap, lost requests | one submission per identity, one open attempt per ad, slots, final outcomes, ads that follow their attempts |
| policy (`shared/bazos/policy`) | none | `evaluate`, `selectPacingDelaySeconds` | decides on rows read at different instants | cap, pacing, cooldown, no duplicate listing |
| monitoring (`shared/bazos/monitoring`) | none of its own | `reconcileIdentityCounts`, `expireStaleSubmissions` | recount from a snapshot, expiry against a late result | the count is the number of active ads; outcomes stay |
| identity (`shared/bazos/identity`) | `BazosIdentity`, verification sessions | start, complete, challenge and expire a verification | session and identity written by two statements | no automation before a human, none after a challenge |
| consent (`shared/bazos/consent`) | `BazosIdentityConsent` | `grant`, `revoke`, `status` | two grants at once, old pages after a release of other terms | gate 0 is open only for terms that were accepted and not withdrawn |
| ad service and scheduler (`shared/bazos/ad`) | `BazosAd`, times of the next checks | draft, edit, manage, evaluate, `refreshDueExternalStatus` | answers of Bazos, one check a minute, dates without a time | ads gone from Bazos are noticed; only those are taken off |
| sell action (`shared/bazos/catalog`) | `BazosAd`, Catalog products | `prepare`, `confirm` | find-or-create over three services | one listing per product, one product per title |
| stock and catalog events (`shared/rabbitmq`) | `BazosAd` | `stock.updated`, `stock.out`, product no longer offerable | old snapshots, redelivery after a restart, dropped events | ads follow the last stock known; evidence stays |
| availability reconciliation | `BazosAd` | `reconcile` | lookups that fail | unavailable products are off sale |
| offers (`channel/offers`) | `BazosAd` | delete, renew, sync from Catalog | lookups that fail, overlap with events | no outage zeroes an ad |
| clients of Catalog and Warehouse (`shared/clients`) | none | lookups, uploads, tags | each turns a failure into another value | failures are not mistaken for facts |
| orders (`channel/orders`) | `BazosOrder` | `create`, `handleWebhook`, replay reads | repeated webhooks, lost answers, one query per line | an order is forwarded once and whole |
| gateway (`services/api-gateway`) | sockets, timers | start, guard, forward | few sockets, services that hang | every request is answered |
| authentication (`shared/auth`) | none | `validateToken`, its retries, the guard | a token that could not be checked | a valid token is kept |
| page `/client` (`services/bazos-service/src/ui`) | variables, document, storages | views, timers, handoff, catalog view, login | answers in any order, tabs, timers over forms | what is shown, sent and stored belongs together |

The services interact through the rows: enqueue reserves a slot on the identity
and creates an attempt; a claim moves attempt and ad; a result moves attempt,
ad, count and cadence; the next gate evaluation reads all of these. Stock,
catalog, availability and sell action write the same ads at any time. The page
calls the services through the gateway and shows what they answered last.

## The modules

The queue:

* **PublishPolicy**: the identity row and gates 1 to 7 of `evaluate` as a
  predicate, the pacing delays as a set. Status, review state, session state and
  verification date are folded into `standing`: nothing in the queue tells them
  apart.
* **PublishQueue**: the queue with everything that writes its rows. Each
  request is a process: `claim`, `enqueue`, `record`, `expire`, `reconcile` hold
  a program counter and the local variables that outlive an await; each action
  is the code from one awaited statement to the next. `evaluate` is two steps,
  the identity query and the rest, because it awaits in between.
  Gates that depend on other services may pass or fail at will.
  `clock` is in ticks; `notBefore` and `startedAt` are clock values, the
  creation order of attempts is their number. Services that write one row in one
  statement (`Pause`, `Reverify`, `WithdrawAd`, `RestoreAd`, `ReuseDraft`) are
  one action. `CrashHandler` loses a request at any await: the process died or a
  statement threw. Two history variables exist: `attempt[a].worker`, the claim
  that started an attempt, and `awaitingHuman`, a challenge not yet resolved.
* **AttemptLifecycle**: the abstract specification: attempts as phases, one
  open attempt per draft, one submission per identity, no way back to the queue.
  `PublishQueue` implements it (`ImplementsLifecycle`), the phases being the
  attempts' status.

Who may publish:

* **Verification**: the sessions of one identity and the three columns they
  write. `MarkVerified`, `MarkChallenge` and the expiry are two statements each,
  session first; a crash may come in between. History: `challenged`.
* **SellerConsent**: tabs that show the terms of the release they were loaded
  from, `grant` as its two statements (revoke what is active, insert), `revoke`,
  and gate 0. Histories: `accepted`, `withdrawn`.

Making an ad:

* **SellAction**: `createDraft`, `prepare`, `confirm` and the claim, with gates
  8 to 11 and 13 on rows, product and stock of that instant. Every call to
  Catalog or Warehouse is a step and may fail. Ads go off and on sale as offers,
  events and checks switch them (`Withdraw`, `Restore`): the row stops or starts
  being active, its listing on Bazos stays, and the gates look at active rows
  only.
* **CatalogRecord**: what the clients of Catalog and Warehouse make of a
  failure, and what drafts, uploads, tags and the sync of offers do with that.

An ad on sale:

* **AdAvailability**: the timer and the user requests that fetch a public page
  and write the row from what they read before; edits, evaluations and managing
  in between; the listing itself, which Bazos removes and humans edit, to what is
  `prepared` here or to something else. Times are countdowns that fall to 0.
* **StockProjection**: Warehouse and Catalog change and send events; consumers
  read all ads of a product and write them one by one from that snapshot;
  reconciliation and sync do the same. A restart redelivers what was not
  acknowledged; an event that throws is dropped. What the seller does besides
  (`Publishing`: drafts, edits, policy checks, the queue) is one step each, by
  what it writes to the columns of this module. History: `missed`, ads whose
  write failed.

* **OrderForwarding**: a webhook delivered any number of times, its lines mapped
  one query each while ads change, the call to Orders whose answer may get lost,
  the record of it. Orders is external and idempotent by the external id.

The page and what is in front of the services:

* **ClientPage**: views, the render that awaits user and data, the silent
  refresh of orders, the timer that prompts for a due attempt, claim, handoff
  and result. A function in flight is a slot.
* **CatalogPage**: the catalog view, with searches, previews, preparations and
  confirmations answered in any order. The document (`drawn`) changes only when
  something draws.
* **HostedSession**: the token all tabs share, the login a tab began, the
  redirect and its callback, calls with the guard and its retries.
* **Gateway**: warm-up, routing, guard, one pool of sockets per service,
  timeouts, answers that come too late.

For TLC: **PublishQueueMC**, **PublishQueueCountsMC**, **IdentityMC**,
**ServicesMC**, **SellActionMC**, **AdsOnSaleMC** (extends AdAvailability),
**ClientMC** (extends CatalogPage), **ClientPageMC**, **EventuallyMC**. Several
of them put components that share no row side by side, or two settings of one: a
variable `setting` or `part` picks the one that moves, so the states add up and
do not multiply. The history `overlapped` tells whether two requests have
overlapped so far; a property named `...Alone` is stated up to then, or for the
setting in which calls do not overlap, because it fails otherwise.

For TLAPS: **PublishQueueProofs** (requests that overlap, life cycle, pacing,
then whole requests one after the other), **IdentityProofs** (Verification and
SellerConsent), **ServicesProofs** (CatalogRecord and OrderForwarding),
**SellActionProofs**, **AdsOnSaleProofs** (AdAvailability and StockProjection),
**HostedSessionProofs**, **ClientProofs** (CatalogPage, ClientPage, and both
settings of HostedSession, for which it instantiates HostedSessionProofs),
**EventuallyProofs** (the settings of EventuallyMC: StockProjection,
AdAvailability, ClientPage, Gateway). The parameters of the settings that a
theorem is about are CONSTANTS of the MC module, so it speaks of every instance
and the run of one.

Operators commented "Mutant" are plausible bugs of the definition that follows
them, kept to show that each property can fail; no action uses them.

## The runs

| run | question | properties that hold |
|---|---|---|
| `queue_overlap` | What survives when any two requests of the queue overlap and any may be lost? | `TypeOK`, `AtMostOneSubmitting`, `OneOpenAttemptPerAd`, `SlotsSpaced`, `ImplementsLifecycle` |
| `queue_serial` | What holds for every sequence of whole requests, while other services take ads off and on sale? | `CooldownRespected`, `AdFollowsAttempt`, `TerminalIsFinal`, `ChallengeStops` |
| `queue_counts` | Setting `counts`: are the counts right and the cap kept when requests do not overlap and only Bazos takes ads away? Setting `workers`: what is left when two claims and two enqueue requests overlap and any may be lost? | `PublishedWithinCap`, `CountIsExact`; `SerializedPerWorker`, `StartedInSlot` in both |
| `identity` | Does anything get automated without a human, after a challenge, or without consent, when requests overlap and are lost between their two statements? | `HumanBeforeAutomation`, `ColumnsAgree`, `TermsWereAccepted`; until requests overlap `ChallengeHoldsAlone`, until a revocation overlaps a grant `WithdrawalHoldsAlone` |
| `services` | Is an order sent once and whole when its webhook is repeated? Do three failing calls to Catalog or Warehouse reach an ad? | `OncePerPurchase`, `ForwardedAgrees`, `WholeOrder`, `OutageZeroesNothing`, `TagsKeptAlone` |
| `sell` | When can one product be listed twice, if creations, preparations, confirmations and claims overlap and ads go off and on sale? Only when an ad off sale was overlooked. | `OneListingPerProduct`, `OneProductPerTitleAlone` |
| `ads_on_sale` | Are only ads taken off that are gone or not offerable, and does what was noted of an ad stay until the publishing side replaces it? | `DeletedOnlyIfGone`, `CatalogStops`, `PendingKept`, `EvidenceKept` |
| `client` | Does the page show, send and store what belongs together, whatever order its answers come in? | `ClientTypeOK`, `SettledShowsView`, `NothingMixed`, `PageAndServerAgreeAlone`, `OwnLoginStored`, `ValidTokenKept` |
| `eventually` | Does what must happen happen? | `EventuallyTypeOK`, `EventuallyCaughtUp`, `GoneIsNoticed`, `RefreshNotLeft`, `EventuallyAnswered` |

| run | what it refutes |
|---|---|
| `queue_two_claims` | "Workers must serialize publish attempts per identity": two overlapping claims both check before either writes, `AtMostOneSubmitting` fails |
| `sell_confirm` | a test that a prepared draft in order can be confirmed: gate 8 finds the draft itself, `PreparedCanBeConfirmed` fails |
| `page_handoff` | the handoff form into which the Bazos id is to be pasted: the refresh of the orders draws over it, `HandoffStays` fails |

The sentences are quoted under "findings" in `PROJECT.json`.

**Bounds of the queue.** Two or three ads of one identity (identities share
nothing: every property relates rows of one), two of the same category so that
the cooldown bites; two attempts, the least for which serialization, spacing and
the life cycle of a second attempt of the same ad can go wrong; `MaxTime` 2 or 3
ticks with the pacing delay, the cooldown and the stale age of 0 to 2 ticks, so
that each of them passes within a run; a cap of 2 that one ad published from the
start puts within reach in `queue_counts`; `MaxRunning` requests in flight, 2
for the overlap and 1 for sequences. `MaxRunning = 1` also keeps the
one-statement services between requests. The clock moves at any time, so an
arbitrary delay can fall between two awaits. Symmetry exchanges the two ads of
the same category.

**Bounds elsewhere.** Two requests, tabs or calls at once, since every hazard
listed is a pair; where a third actor matters (a release of terms, an edit on
Bazos, a redelivery) it is an action of its own.

| module | instance |
|---|---|
| Verification | two sessions of one identity, two requests, two ticks with a lifetime of one |
| SellerConsent | two wordings, two tabs, two grants at once, four rows |
| OrderForwarding | one purchase, two listings and the line that needs none, two rows, one change of the ads |
| CatalogRecord | one product, two ads, two requests, three failing calls (a lookup, its fallback, an upload) |
| SellAction | one title, two copies in Catalog, two ads, two of six requests at once, one failure, two changes of the product or of an ad's being on sale |
| AdAvailability | `timer`: one ad, the timer and two requests of which two run at once, one lookup without a usable answer; `managed`: one request at a time, two edits, one midnight, intervals of two or three ticks in a lifetime of three; `eventually`: two ads of which the timer sees one, one request, one database error, one lookup without a usable answer |
| StockProjection | `catalog`: two ads, two events, a restart, reconciliations, two workers at once; `all`: every operation on one ad, one after the other, with two stock events and one of Catalog; `eventually`: two ads, three stock events of quantities 0, 1 and 2, failures and a restart |
| ClientPage | two attempts, two functions in flight, five begun, one failing request |
| CatalogPage | two products, three answers of a search; two calls at once of four, or six one after the other |
| HostedSession | two tabs with two logins and three failing calls; one tab with three logins and two of three calls at once, one failing |
| Gateway | two services, one without a guard, two requests, one socket |

Deadlock is checked where requests can always come again; it is off where a
bound on requests, orders or calls ends every behaviour.

**Fairness.** Only `eventually` assumes any, per component (`FairSpec` of each):

* `EventuallyCaughtUp`: RabbitMQ delivers what is queued and a handler goes on,
  since it waits only for its pacing timer, for the database and for calls that
  are answered or fail. Failures and restarts stay possible.
* `GoneIsNoticed`: time passes, the interval of the scheduler fires every minute,
  and its run ends because a fetch is aborted after five seconds. Nothing is
  assumed of users. Lookups that bring no usable answer and statements that
  throw are finitely many (`MaxLookupFaults`, `MaxThrows`): a page that never
  loads tells nothing. One lookup a minute among the least recently updated
  suffices because every check moves the ad to the end.
* `RefreshNotLeft`: every request of the page is answered or fails, and the page
  then goes on. This is an assumption about the browser: the page sets no
  timeout.
* `EventuallyAnswered`: the event loop and the timers of the gateway run. No
  service has to answer.

None is assumed of the queue, so no progress is stated of it: enqueue, claim and
result run when an operator or a worker asks.

## What is proved

For every set of identities, ads, requests, purchases, listings, products, tabs
and terms, every bound, and every value of the policy constants; the assumptions
are those named in each module (`PolicyAssumption`, `QueueAssumption`,
`VerificationAssumption`, `ConsentAssumption`, `OrderAssumption`,
`CatalogRecordAssumption`, `SellAssumption`). Modules that are only used as
instances define theirs (`AvailabilityAssumption`, `StockAssumption`,
`ClientPageAssumption`, `HostedSessionAssumption`, `CatalogPageAssumption`);
AdsOnSaleMC, ClientMC and EventuallyMC assume them of their instances
(`Parameters`; the ads the timer looks at are also finitely many, being rows of
a table), and the run of each evaluates them. A theorem that needs more says so
in its ASSUME.

**The queue.**

* `TypeCorrect`: `Spec => []TypeOK`.
* `Serialized`: `Spec => []SerializedPerWorker`. Two attempts of one identity
  are `submitting` together only if different `claimNext` requests started them.
* `OneWorkerSerializes`: with at most one claim request, `Spec =>
  []AtMostOneSubmitting`, the documented rule.
* `InSlot`: `Spec => []StartedInSlot`.
* `OneOpenAttempt` and `QueueImplementsLifecycle`, assuming `OneOfEach` (one
  claim and one enqueue request at a time, results for claimed attempts only):
  `Spec => []OneOpenAttemptPerAd` and `Spec => ImplementsLifecycle`. Results,
  expiries, recounts and the writes of other services overlap freely.
* `Spaced`, assuming `OneEnqueue` (one enqueue request at a time):
  `Spec => []SlotsSpaced`.

The argument for the first group. `RowSteps` says what any step can do to one
attempt: leave it, create it, close it, or start it from a claim that is at its
`submit` step; all other actions are discharged there once. The inductive
invariant `ClaimInv` adds to the type what a claim knows of the rows it holds.
`KnowsRows`: they exist, and their slot had passed on a clock that only grows
(so a start is not early). `SawNoneOfItsOwn`: from the check of `claimNext` to
its write no other `submitting` attempt of the identity was started by this same
request. The check itself establishes it, and nothing can break it afterwards: a
row only becomes `submitting` by a start, a start belongs to a request at
`submit`, and this request starts nothing else before its own write. The check
is not stable for *other* requests, which is why the property names the worker
and why `queue_two_claims` fails.

`LifecycleInv` extends it for the life cycle. What a handler holds across its
awaits stays in the class it was read in: a claim holds queued attempts
(`HoldsQueued`), because only the claim itself takes one out of the queue;
results and expiries hold started ones (`HoldStarted`), and a started attempt is
running or ended for ever. So a write by primary key never resurrects an
attempt, and an attempt is opened only by the enqueue that creates it
(`OpenedBy`). An enqueue past its check therefore still knows that its draft has
no open attempt (`KnowsDraft`). With this every statement of the handlers is one
step of AttemptLifecycle or none: `AttemptWrites` lists the five that write an
attempt, `StepImplements` maps each.

The three assumptions are needed. Two claims break `AtMostOneSubmitting`
(`queue_two_claims`); a second enqueue passes the check while the first is
between its check and its create; an unclaimed result closes an attempt that a
claim still holds as queued, and the claim reopens it.

`PacingInv` relates three places: the slots in the rows, `nextPublishNotBefore`
of the identity, and the slot an enqueue holds. The rows' slots are at most the
identity's; an enqueue whose gates passed holds a slot at least `PacingMin`
later than the identity's (`KnowsPace`), since gate 6 compared the two on one
instant and only an enqueue moves it (`PaceMovedBy`); writing it to the identity
before the row keeps both facts when the request is lost in between. A slot lost
like this leaves a gap, never an overlap.

**The queue, one request after the other.** The rest of PublishQueueProofs
proves what `queue_serial` and `queue_counts` check of sequences of whole
requests. The hypotheses grow with what a property needs, and each is the
condition under which it holds at all:

| hypothesis | adds | theorems |
|---|---|---|
| `OneAtATime` | `MaxRunning = 1` | `OutcomeIsFinal`, `OnePerAdAndIdentity` |
| `Undisturbed` | no request is lost | `AdsFollowAttempts`, `ChallengeStopsClaims` |
| `InOrder` | results are reported for claimed attempts only | `CooldownKept` |
| `Counting` | no other service takes an ad off sale; ads listed from the start within the cap | `CountsAreExact`, `CapIsKept` |

`OneRuns` says that a running request has the queue to itself: it is idle or all
others are. So what a request read stays true until it writes, and the
invariants only carry facts across the awaits of that one request. `SerialInv`:
a claim holds queued attempts and saw nothing running of the identity, an
enqueue knows its draft has no open attempt, a result and an expiry hold open
ones. `FollowInv`: every ad shows what an attempt of it is or came to, and no
outcome while one is open (`ShowsAttempts`), or the running request is about to
write it (`WillWrite`), and then what it will write is the outcome of the only
attempt that was open (`EndsRow`); a challenge that waits for a
human has put its identity behind the gates, or its request is about to
(`ChallengeBlocks`), so a claim past them saw none (`SawClear`). `CooldownInv`:
two started attempts of one category are a cooldown apart (`StartsApart`),
because the gate of a claim looks at the time the identity last published in the
category, and every submission that was published is remembered there or by the
running request (`PublishedRemembered`). `ListingInv` and `CountInv`: the number
on the identity is that of its active published ads, or the running request
holds the difference (`Counted`, `Recounts`, `Visits`); a claim past the gate
saw room (`SawRoom`), and since nothing else runs the room is there when the
result is recorded (`RoomForRunning`, `RoomToPublish`).

**Verification.** `HumanFirst`: nothing is automated before a human confirmed a
session, however requests overlap or are lost. The two statements of a
completion are in the right order for it, and `HumanInv` says so: a request
between them (`CompletingAfterConfirmed`) and an identity already verified
(`VerifiedAfterConfirmed`) both come after a confirmed session, and a
confirmation is never taken back. `IdentityColumnsAgree`: the status, the
session state and the review state of an identity, which the gates judge one by
one, agree whatever overwrites what. `ReviewInv` adds that a request that
records a challenge carries a challenge state (`ChallengeCarried`), since
recording it leaves the status alone. Of the session rows the theorem says
nothing: a lost request may leave a challenged session and an identity that does
not know of it.

**Consent.** `TermsAccepted`: gate 0 is open only for terms that were shown to
and accepted by the seller, for any number of tabs, grants and releases. The
service stores the version the request carries, so a request accepts what its
page showed (`RequestsAccepted`) and so does a row (`RowsAccepted`); the gate
compares a row with the current release. `HistoryIsKept`: rows are stamped
revoked and never rewritten.

**Until requests overlap.** `ChallengeStays`: after a challenge or an expiry
nothing is automated until a human asks for a completion again.
`WithdrawalStays`: once the seller revokes, gate 0 is closed until the seller
grants again. Both speak of the history up to the first overlap, and so do their
invariants (`StopInv`, `WithdrawalInv`): up to then at most one request is busy,
and what it read still holds. That the busy requests are a finite set is part of
the invariant, since a cardinality says nothing of an infinite one.
`TagsAreKept` (the product keeps the tag of every draft that was tagged) and
`OneProductAlone` (one title gets one product in Catalog) have the same form
(`AloneInv`).

**Orders.** `OrderInv`: a row is written by its own request only (`OwnRow`); the
items a request carries have all lines of its purchase when it calls
(`MapsWhole`), and the row has them too (`StoresWhole`); what was sent is what
the row has (`RecordsSent`); Orders knows an order by the id of a row only when
its purchase has no number (`KeysOfRows`). From these `Once` (a numbered
purchase is one central order), `Agrees` (a forwarded row has the items Orders
has) and `Whole` (never a part of an order).

**Outages.** `OutageIsNotZero`: whichever calls fail, an ad has price 0 or stock
0 only if Catalog or Warehouse said so; `PhotosBeforeDraft`: no draft without a
photo. `RecordInv` has what a request holds between lookup and write:
`NoPriceIsTrue`, `NoStockIsTrue` (an answer that says none is true) and
`TaggedHasRow`.

**Listings.** `ListedOnce`: two ads of a product are submitted or on Bazos
together only if one was off sale when the claim of the other passed the gates
(the history `overlooked` has such pairs). Each gate evaluation of one ad looks
at the active others, and an ad is visible to them before it is judged itself.
`SellInv` says that a request carries the product and the row it chose
(`CarriesProduct`, `CarriesRow`) and that an attempt or a listing belongs to a
row (`AttemptExists`). `ListedInv` adds `ChosenAlone`: of two rows that are
listed or past the gates of a claim, one overlooked the other. `StepIsRight`
carries it: a step makes a row chosen only by a claim that found no other active
row of the product (`ChosenBy`), so any other row that exists is off sale, and a
row inserted later sees this one.

**Ads.** `DeletedIsGone`: an ad is noted as deleted only when its listing is
gone from Bazos. A handler acts on an answer that is some awaits old;
`AnswersTrue` says that "gone" is still true then, because only a new
publication brings a listing back, and nobody publishes an ad that a handler
works on. That last part is the environment of the model, not a lock in the
code. `PendingIsKept`, assuming that handlers do not overlap and the policy is
not evaluated in between: the mark of a prepared edit stays until Bazos shows a
day not before the save, or the ad is deleted or published anew. `CalmInv` says
that the mark a handler read is that of the row, and that an answer shows no day
later than the listing's.

**Stock and Catalog.** `WithdrawnIsStopped`: whatever Catalog events,
reconciliations, failures and restarts overlap, once a product is not offerable
and its events are handled, none of its ads is sellable, those apart whose write
failed. (A stock event may put such an ad back on sale, see below; the setting
has none.) Two facts carry it. `AppliedStops`: an ad whose `lastPolicyCheck`
notes a Catalog event is off sale, also where a handler read that note and has
yet to write. `Reached`: once an event was sent, each ad is off sale or was
missed, or an event is still queued or a handler has yet to come to the ad.
`EvidenceIsKept`, assuming that handlers do not overlap: what an event or a
reconciliation noted in `lastPolicyCheck` is not removed by another, by offers,
edits, a queued ad or a result. Policy checks, claims and prepared drafts do
replace the column (`Replaces`), and are excepted. `EvidenceInv` says that the note the
only handler holds is that of the row (`ReadsEvidence`) and that events are
handled in the order they were sent (`EventsInOrder`); the next one is the least
number queued, and that a least one exists takes well-foundedness.

**Catalog view.** `NothingIsMixed`: whatever order the answers of any number of
calls come in, the preview is of the selected product, the card on the page is
the prepared draft, and an ad is queued by a confirmation for its own product.
`PageInv` adds what the request number of a preview is for: the call that
carries the last number asks for the selection (`LastPreviewIsOfSelected`),
because selecting gives a new one and no number is above the last
(`NumbersGiven`). `PageAndServerAgreeSerially`, assuming one call at a time
(`MaxInFlight = 1`): the settled page shows the list and the selection its
handlers work on, a draft has the values of its own product, and what is queued
is what the card showed. Its invariant (`SerialInv` of ClientProofs) says for
each step of each call what the document shows meanwhile and what the answer
will be about.

**Views.** `OnlyCatalogIsDrawnLate`: once no function is in flight the page shows
the active view, whatever the timers and requests of any number of attempts do,
with two exceptions. The catalog awaits a call of its own and is drawn over
whatever view is active by then, and no other view is; and after a `/me` that
failed (`meFailed`) the older view stays until one is drawn again.
A page that shows another view has a render in flight (`RenderIsDue`), and a
render never waits for the answer of a request (`RendersLoad`), so it ends by
drawing.

**Tabs.** `OnlyOwnLogins`: a token is stored only by the tab that began its
login, whichever tab Auth sends a login to; a tab's pending state is a login of
its own (`PendingIsOwn`). HostedSessionProofs shows it, and the types, of
HostedSession itself; ClientProofs takes its `SessionStep` over by instance, for
two tabs and for one. `ValidTokenStays`: in one tab a token that Auth
accepts stays until the user signs out or logs in again, assuming that fewer
calls to Auth fail than a validation makes (`MaxFaults < MaxTries`); with as many
failures the code calls a valid token invalid. `ReturnsWithState` says that a
tab away for a login comes back with the state it kept, `CallsFollow` that the
calls in flight carry the stored token and have tries left.

**What must happen.** Liveness itself is beyond the prover. EventuallyProofs
shows, for every instance, safety properties it rests on. One invariant per
setting (`EventuallyInv`):

* `NoRequestIsLost`: a request waits for a socket exactly when it is in the line
  of its service, and there once (`LinesAreRight`), however requests fail, time
  out or are never answered. `GatewayInv`: a line has each request once and only
  waiting ones (`InOrder`), every waiting request is in one (`NoneLost`), and the
  requests sent to a service are a finite set no larger than `MaxSockets`
  (`SocketsHeld`); the type invariant of the run needs this bound.
* `StockSettlesInEnd`: with no event queued and no handler at work, every ad
  shows what Warehouse has, those apart whose last write failed, through
  failures, crashes and redelivery. One handler runs at a time in this setting.
  `ProjectionInv`: what is queued is what comes after the event being served
  (`LatestWait`), so a crash puts back that event and no other; a handler's
  snapshot of an ad it has yet to write is the row (`ReadIsCurrent`); the ads it
  is done with show its event (`ServedIsShown`). That a redelivered event is
  skipped for an ad that has it is right because a noted event is also shown
  (`NotedIsShown`).
* The ads: `AdsInv` says that the order the timer looks at them (`updatedAt`)
  has every ad (`Rotation`), whichever requests and errors write them.
* `RefreshIsUnderWay`: a refresh of the orders waits only while another is in
  flight that loads or is about to draw; its end begins the waiting one or drops
  it. `OneRefreshes`: the flag `orderRefreshBusy` says that exactly one is.

**Types** are proved of the queue, of Verification, SellerConsent,
CatalogRecord, OrderForwarding and SellAction (`TypeCorrect`,
`ConsentTypeCorrect`, `OrderTypeCorrect`), of HostedSession, of every part of
the page (`ClientTypesCorrect`), and of the settings of `eventually`, the
Gateway among them (`EventuallyTypesCorrect`). Those of the catalog view need
more than types: what the server answers to a confirmation is found among the
queued ads, because an answer tells of the draft of today or of an ad that was
queued (`Numbered`), and a confirmation is only sent with such an answer
(`SendsItsProduct`).

## What is only model-checked

The four liveness properties of `eventually`: under fairness, and with
`ENABLED`, they are beyond the prover. Every other property of a passing run is
stated by a theorem, for some under the assumptions named with it.
The three violations are of one instance by their nature.

## What does not hold

Counterexamples that came up, for whoever works on the code. The first three
contradict a sentence of the repository and are runs; the others are the reason
why a property is stated under a condition.

* Two overlapping claims start two submissions; the refresh of the orders
  removes the handoff; a prepared draft is its own duplicate.
* The queue: attempts that waited past their slots are claimed back to back; an
  ad withdrawn while it is submitted is published and not counted, so the cap is
  exceeded; a challenge whose request is lost after its first statement does not
  stop the identity; a result is taken for an attempt nobody claimed.
* Identity: of two overlapping requests the later statement wins, so a
  completion may undo a challenge that came in between.
* Consent: two grants at once leave two active rows; a grant in flight during a
  revocation is active after it.
* Stock: of two writers that overlap the later puts back the `lastPolicyCheck`
  it read; with two stock events handled at once the older may be written last;
  a positive stock reactivates an ad whose product Catalog took off. Evaluating
  the policy, the check of `enqueueDraft`, a claim and `prepare` replace
  `lastPolicyCheck`, the notes of events and reconciliations included.
* Listings: an ad taken off sale keeps its listing on Bazos, but no gate looks
  at inactive ads: a second ad of the product is published, and when the first
  goes on sale again there are two.
* Ads: evaluating the policy drops the mark of a prepared edit; a check replaces
  a prepared edit by what the page still shows; an ad nobody manages any more is
  still checked by the fallback; listing ads notices a deletion and leaves the
  count.
* Drafts: when the draft of a product is queued already, a new one is made; two
  creations at once make two Catalog products; a lookup that failed is answered
  as "not found".
* Orders: when the answer is lost, Orders has the order and the row stays
  unforwarded for good; lines of a webhook that are no objects are dropped
  before the mapping, so the rest of such an order is forwarded as if whole.
* Page: the catalog, opened and left again before its list came, is drawn over
  the view the user went to; a form sent while the preview of another product is
  loading makes a draft of it with the old values; a token is thrown away after
  two failing calls to Auth, or because another tab replaced it meanwhile.
* Gateway: whatever status a service answers goes out as a 200, the redirect of
  the login callback excepted; a service goes on with a request that the gateway
  has answered as timed out.

## What is not modelled

* Legacy publishing module (`channel/publishing`): an older copy of the queue
  that no module imports.
* Accounts, contact data of an identity, updates of offers and ads that pass a
  caller's fields to one row; order lists and their filters; dashboards,
  business health and health endpoints: nothing decides on them or they only
  read.
* `AuthService.register`, `login`, `refreshToken`, circuit breaker and fallback,
  reservations and stock decrements of the clients: no caller.
* The connection to RabbitMQ and to the database; logging; headers.
* The privacy banner (`consent.assets.ts`), a generated script that all sites
  share.
* Payloads, edit passwords, titles, prices and media beyond what a property
  needs; the parsing of a public page (its result is an answer of the
  environment); the fuzzy comparison of titles (titles are equal or not); gate 12,
  the category mapping (any verdict); wall-clock skew between processes.
* Of the page: connecting an account, publishing forms, account and settings
  views, the admin mode.

## Plan

1. A composition of StockProjection and PublishQueue on the shared ads, to state
   the count with withdrawals.
2. The remaining views of the page and the admin mode, if they come to decide
   anything.

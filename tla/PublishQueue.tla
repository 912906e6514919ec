---------------------------- MODULE PublishQueue ----------------------------
(***************************************************************************)
(* The publisher queue of shared/bazos/publisher together with everything  *)
(* that writes the rows it works on: monitoring (stale submissions, count  *)
(* reconciliation), the identity's standing, and the ad writes of the      *)
(* stock, availability and sell-action services.                           *)
(*                                                                         *)
(* No handler uses a transaction.  Every `await prisma...` is one atomic   *)
(* statement, every other request may run between two of them, and what a  *)
(* handler read stays in its local variables.  A handler is therefore a    *)
(* process with a program counter; a request slot is reused when it is     *)
(* idle.  All updates are by primary key and unconditional, as in the      *)
(* code: no guard on the row's current value protects a write.             *)
(***************************************************************************)
EXTENDS PublishPolicy, FiniteSets

CONSTANTS
  Identities, Ads, Categories,
  Owner,             \* Owner[d]: identityId of ad d
  CategoryOf,        \* CategoryOf[d]: Bazos category of ad d
  NoAd, NoIdentity,
  AlreadyListed,     \* ads published before the first step
  Claimers,          \* requests running claimNext
  Enqueuers,         \* requests running enqueueDraft
  Recorders,         \* requests running recordResult
  Expirers,          \* requests running expireStaleSubmissions
  Reconcilers,       \* requests that recount: reconcileIdentityCounts, the
                     \* availability refresh
  ClaimLimit,        \* dto.limit of claimNext, 5 by default
  StaleAfter,        \* maxAgeMinutes of expireStaleSubmissions
  MaxAttempts,       \* bound: attempt rows ever created
  MaxTime,           \* bound: the clock stops there
  MaxRunning,        \* bound: requests in flight at once; 1 is no overlap
  Crashes,           \* may a running handler be lost between two awaits?
  Withdrawals,       \* may stock, Catalog or Bazos take an ad off sale?
  UnclaimedResults   \* may a result be reported for an attempt not claimed?

ASSUME QueueAssumption ==
  /\ Owner \in [Ads -> Identities]
  /\ CategoryOf \in [Ads -> Categories]
  /\ IsFiniteSet(Ads)
  /\ AlreadyListed \subseteq Ads
  /\ NoAd \notin Ads
  /\ NoIdentity \notin Identities
  /\ ClaimLimit \in Nat \ {0}
  /\ StaleAfter \in Nat
  /\ MaxAttempts \in Nat
  /\ MaxTime \in Nat
  /\ MaxRunning \in Nat \ {0}
  /\ {Crashes, Withdrawals, UnclaimedResults} \subseteq BOOLEAN

VARIABLES
  clock,
  identity,          \* bazosIdentity rows
  lastPublishedAt,   \* bazosIdentityCategoryCadence rows
  ad,                \* bazosAd rows
  attempt,           \* bazosPublishAttempt rows, numbered in createdAt order
  claim, enqueue, record, expire, reconcile,  \* the handlers' locals
  awaitingHuman      \* history: a challenge was recorded, nobody resolved it

db == <<identity, lastPublishedAt, ad, attempt>>
handlers == <<claim, enqueue, record, expire, reconcile>>
vars == <<clock, db, handlers, awaitingHuman>>

-----------------------------------------------------------------------------
(***************************************************************************)
(* Rows and handler states.                                                *)
(***************************************************************************)
Attempts == 1 .. MaxAttempts

OpenStatus == {"queued", "submitting"}
Outcome == {"submitted", "challenge_required", "failed"}
TerminalStatus == Outcome \cup {"policy_blocked"}
AttemptStatus == {"absent"} \cup OpenStatus \cup TerminalStatus

AdStatus == {"draft", "queued", "publishing", "published", "failed",
             "challenge", "blocked_policy", "deleted"}

\* `listed` is bazosAdId # null.
AdRow == [status: AdStatus, isActive: BOOLEAN, listed: BOOLEAN]

\* `worker` is a history field: the claim request that started the attempt.
NoWorker == "none"
AttemptRow ==
  [status: AttemptStatus, ad: Ads \cup {NoAd}, notBefore: Time,
   startedAt: Time \cup {NoTime}, worker: Claimers \cup {NoWorker}]

Absent == [status |-> "absent", ad |-> NoAd, notBefore |-> 0,
           startedAt |-> NoTime, worker |-> NoWorker]

ClaimState ==
  [pc: {"idle", "check", "read", "gates", "block", "blockAd",
        "submit", "submitAd"},
   todo: SUBSET Attempts, current: Attempts \cup {0}, allowed: BOOLEAN]
NoClaim == [pc |-> "idle", todo |-> {}, current |-> 0, allowed |-> FALSE]

EnqueueState ==
  [pc: {"idle", "existing", "read", "gates", "reject", "reserve", "create",
        "mark"},
   ad: Ads \cup {NoAd}, wasDeleted: BOOLEAN, allowed: BOOLEAN, slot: Time]
NoEnqueue == [pc |-> "idle", ad |-> NoAd, wasDeleted |-> FALSE,
              allowed |-> FALSE, slot |-> 0]

NoRecord == [pc |-> "idle", attempt |-> 0, outcome |-> "none"]
RecordState ==
  [pc: {"attempt", "ad", "count", "cadence", "identity"},
   attempt: Attempts, outcome: Outcome] \cup {NoRecord}

ExpireState == [pc: {"idle", "attempt", "ad"}, todo: SUBSET Attempts,
                current: Attempts \cup {0}]
NoExpire == [pc |-> "idle", todo |-> {}, current |-> 0]

ReconcileState ==
  [pc: {"idle", "visit", "count", "write"}, ad: Ads \cup {NoAd},
   todo: SUBSET Identities, seen: [Identities -> Nat], always: BOOLEAN,
   current: Identities \cup {NoIdentity}, tracked: Nat]
NoReconcile == [pc |-> "idle", ad |-> NoAd, todo |-> {},
                seen |-> [i \in Identities |-> 0], always |-> FALSE,
                current |-> NoIdentity, tracked |-> 0]

TypeOK ==
  /\ clock \in Time
  /\ identity \in [Identities -> IdentityRow]
  /\ lastPublishedAt \in [Identities -> [Categories -> Time \cup {NoTime}]]
  /\ ad \in [Ads -> AdRow]
  /\ attempt \in [Attempts -> AttemptRow]
  /\ claim \in [Claimers -> ClaimState]
  /\ enqueue \in [Enqueuers -> EnqueueState]
  /\ record \in [Recorders -> RecordState]
  /\ expire \in [Expirers -> ExpireState]
  /\ reconcile \in [Reconcilers -> ReconcileState]
  /\ awaitingHuman \in [Identities -> BOOLEAN]

Init ==
  /\ clock = 0
  /\ identity = [i \in Identities |->
       [NewIdentity EXCEPT !.activeAdCount =
          Cardinality({d \in AlreadyListed : Owner[d] = i})]]
  /\ lastPublishedAt = [i \in Identities |-> [c \in Categories |-> NoTime]]
  /\ ad = [d \in Ads |->
       [status |-> IF d \in AlreadyListed THEN "published" ELSE "draft",
        isActive |-> TRUE, listed |-> d \in AlreadyListed]]
  /\ attempt = [a \in Attempts |-> Absent]
  /\ claim = [c \in Claimers |-> NoClaim]
  /\ enqueue = [e \in Enqueuers |-> NoEnqueue]
  /\ record = [r \in Recorders |-> NoRecord]
  /\ expire = [x \in Expirers |-> NoExpire]
  /\ reconcile = [n \in Reconcilers |-> NoReconcile]
  /\ awaitingHuman = [i \in Identities |-> FALSE]

-----------------------------------------------------------------------------
IdentityOf(a) == Owner[attempt[a].ad]

Exists(a) == attempt[a].status # "absent"
Open(a) == attempt[a].status \in OpenStatus
Queued(a) == attempt[a].status = "queued"
Submitting(a) == attempt[a].status = "submitting"
Terminal(a) == attempt[a].status \in TerminalStatus

\* The number of requests being served.
Running ==
    Cardinality({c \in Claimers : claim[c].pc # "idle"})
  + Cardinality({e \in Enqueuers : enqueue[e].pc # "idle"})
  + Cardinality({r \in Recorders : record[r].pc # "idle"})
  + Cardinality({x \in Expirers : expire[x].pc # "idle"})
  + Cardinality({n \in Reconcilers : reconcile[n].pc # "idle"})

Quiet == Running = 0

MayStart == Running < MaxRunning

\* Requests of one statement slip in between the steps of the others.
MaySlipIn == MaxRunning > 1 \/ Quiet

\* Orders by notBefore, then createdAt.
Before(a, b) ==
  \/ attempt[a].notBefore < attempt[b].notBefore
  \/ attempt[a].notBefore = attempt[b].notBefore /\ a < b

IsFirst(a, S) == a \in S /\ \A b \in S \ {a} : Before(a, b)

\* The MaxAttempts bound leaves room for a row.
RowsLeft == \E a \in Attempts : ~Exists(a)

\* create() appends: `a` is the next row in createdAt order.
NextRow(a) == ~Exists(a) /\ \A b \in Attempts : b < a => Exists(b)

-----------------------------------------------------------------------------
(***************************************************************************)
(* claimNext                                                               *)
(***************************************************************************)
ClaimUnchanged == UNCHANGED <<clock, enqueue, record, expire, reconcile,
                              awaitingHuman>>

\* Mutant: claimNext forgets `notBefore: { lte: now }`.
DueAtOnce == {a \in Attempts : Queued(a)}

Due == {a \in Attempts : Queued(a) /\ attempt[a].notBefore <= clock}

\* `take`: the ClaimLimit first of the due attempts.
Window ==
  {a \in Due : Cardinality({b \in Due : Before(b, a)}) < ClaimLimit}

\* Attempts whose ad was inactive in this snapshot are skipped by the loop.
Candidates == {a \in Window : ad[attempt[a].ad].isActive}

ClaimList(c) ==
  /\ MayStart
  /\ claim[c].pc = "idle"
  /\ Candidates # {}
  /\ claim' = [claim EXCEPT ![c] = [NoClaim EXCEPT !.pc = "check",
                                                   !.todo = Candidates]]
  /\ UNCHANGED db
  /\ ClaimUnchanged

\* Mutants of Busy: it looks for a queued sibling; it compares ads.
BusyIfQueued(a) ==
  \E b \in Attempts \ {a} : Queued(b) /\ IdentityOf(b) = IdentityOf(a)

BusyWithSameAd(a) ==
  \E b \in Attempts \ {a} : Submitting(b) /\ attempt[b].ad = attempt[a].ad

\* Another attempt of the same identity is `submitting`.
Busy(a) == \E b \in Attempts \ {a} : Submitting(b) /\ IdentityOf(b) = IdentityOf(a)

ClaimSkip(c, a) ==
  /\ claim[c].pc = "check"
  /\ IsFirst(a, claim[c].todo)
  /\ Busy(a)
  /\ LET rest == claim[c].todo \ {a} IN
     claim' = [claim EXCEPT ![c] = IF rest = {} THEN NoClaim
                                   ELSE [claim[c] EXCEPT !.todo = rest]]
  /\ UNCHANGED db
  /\ ClaimUnchanged

\* The loop returns with this attempt, the rest of the list is dropped.
ClaimPass(c, a) ==
  /\ claim[c].pc = "check"
  /\ IsFirst(a, claim[c].todo)
  /\ ~Busy(a)
  /\ claim' = [claim EXCEPT ![c] = [NoClaim EXCEPT !.pc = "read", !.current = a]]
  /\ UNCHANGED db
  /\ ClaimUnchanged

\* evaluate, first query: the identity row with its cadence for the category.
AdPassesIdentityGates(d) ==
  IdentityGates(identity[Owner[d]], lastPublishedAt[Owner[d]][CategoryOf[d]],
                clock)

ClaimedAd(c) == attempt[claim[c].current].ad

ClaimReadIdentity(c) ==
  /\ claim[c].pc = "read"
  /\ claim' = [claim EXCEPT ![c].pc = "gates",
                 ![c].allowed = AdPassesIdentityGates(ClaimedAd(c))]
  /\ UNCHANGED db
  /\ ClaimUnchanged

\* evaluate, the rest: gates 0 and 8 to 13 depend on consent, evidence and
\* other services, here any verdict.
ClaimReadGates(c) ==
  /\ claim[c].pc = "gates"
  /\ \E others \in BOOLEAN :
       claim' = [claim EXCEPT ![c].pc =
                   IF claim[c].allowed /\ others THEN "submit" ELSE "block"]
  /\ UNCHANGED db
  /\ ClaimUnchanged

\* Mutant: the blocked attempt's ad is left as it was.
ClaimBlockKeepsAd(c) ==
  /\ claim[c].pc = "block"
  /\ attempt' = [attempt EXCEPT ![claim[c].current].status = "policy_blocked"]
  /\ claim' = [claim EXCEPT ![c] = NoClaim]
  /\ UNCHANGED <<identity, lastPublishedAt, ad>>
  /\ ClaimUnchanged

ClaimBlock(c) ==
  /\ claim[c].pc = "block"
  /\ attempt' = [attempt EXCEPT ![claim[c].current].status = "policy_blocked"]
  /\ claim' = [claim EXCEPT ![c].pc = "blockAd"]
  /\ UNCHANGED <<identity, lastPublishedAt, ad>>
  /\ ClaimUnchanged

ClaimBlockAd(c) ==
  /\ claim[c].pc = "blockAd"
  /\ ad' = [ad EXCEPT ![ClaimedAd(c)].status = "blocked_policy"]
  /\ claim' = [claim EXCEPT ![c] = NoClaim]
  /\ UNCHANGED <<identity, lastPublishedAt, attempt>>
  /\ ClaimUnchanged

ClaimSubmit(c) ==
  /\ claim[c].pc = "submit"
  /\ attempt' = [attempt EXCEPT ![claim[c].current].status = "submitting",
                                ![claim[c].current].startedAt = clock,
                                ![claim[c].current].worker = c]
  /\ claim' = [claim EXCEPT ![c].pc = "submitAd"]
  /\ UNCHANGED <<identity, lastPublishedAt, ad>>
  /\ ClaimUnchanged

\* The edit password written next is read by no gate and is left out.
ClaimSubmitAd(c) ==
  /\ claim[c].pc = "submitAd"
  /\ ad' = [ad EXCEPT ![ClaimedAd(c)].status = "publishing"]
  /\ claim' = [claim EXCEPT ![c] = NoClaim]
  /\ UNCHANGED <<identity, lastPublishedAt, attempt>>
  /\ ClaimUnchanged

ClaimNext(c) ==
  \/ ClaimList(c)
  \/ \E a \in Attempts : ClaimSkip(c, a) \/ ClaimPass(c, a)
  \/ ClaimReadIdentity(c) \/ ClaimReadGates(c)
  \/ ClaimBlock(c) \/ ClaimBlockAd(c)
  \/ ClaimSubmit(c) \/ ClaimSubmitAd(c)

-----------------------------------------------------------------------------
(***************************************************************************)
(* enqueueDraft                                                            *)
(***************************************************************************)
EnqueueUnchanged == UNCHANGED <<clock, claim, record, expire, reconcile,
                                awaitingHuman>>

\* assertPublishableDraft
Publishable(d) ==
  /\ ad[d].status \notin {"published", "publishing"}
  /\ ad[d].listed => ad[d].status = "deleted"
  /\ ad[d].isActive

EnqueueRead(e, d) ==
  /\ MayStart
  /\ enqueue[e].pc = "idle"
  /\ RowsLeft
  /\ Publishable(d)
  /\ enqueue' = [enqueue EXCEPT ![e] =
                   [NoEnqueue EXCEPT !.pc = "existing", !.ad = d,
                                     !.wasDeleted = (ad[d].status = "deleted")]]
  /\ UNCHANGED db
  /\ EnqueueUnchanged

\* Mutant: only a queued attempt makes the call idempotent.
HasQueuedAttempt(d) == \E a \in Attempts : Queued(a) /\ attempt[a].ad = d

HasOpenAttempt(d) == \E a \in Attempts : Open(a) /\ attempt[a].ad = d

\* An open attempt of the ad makes the call idempotent.
EnqueueExisting(e) ==
  /\ enqueue[e].pc = "existing"
  /\ enqueue' = [enqueue EXCEPT ![e] =
                   IF HasOpenAttempt(enqueue[e].ad) THEN NoEnqueue
                   ELSE [@ EXCEPT !.pc = "read"]]
  /\ UNCHANGED db
  /\ EnqueueUnchanged

EnqueueReadIdentity(e) ==
  /\ enqueue[e].pc = "read"
  /\ enqueue' = [enqueue EXCEPT ![e].pc = "gates",
                   ![e].allowed = AdPassesIdentityGates(enqueue[e].ad),
                   ![e].slot = clock]
  /\ UNCHANGED db
  /\ EnqueueUnchanged

\* The verdict, and the pacing delay that buildResult draws with it.
EnqueueReadGates(e) ==
  /\ enqueue[e].pc = "gates"
  /\ \E others \in BOOLEAN, slot \in Slots(enqueue[e].slot) :
       enqueue' = [enqueue EXCEPT
         ![e].pc = IF enqueue[e].allowed /\ others THEN "reserve" ELSE "reject",
         ![e].slot = slot]
  /\ UNCHANGED db
  /\ EnqueueUnchanged

\* A refused draft leaves a policy_blocked row and keeps its ad status.
EnqueueReject(e, a) ==
  /\ enqueue[e].pc = "reject"
  /\ NextRow(a)
  /\ attempt' = [attempt EXCEPT ![a] =
                   [Absent EXCEPT !.status = "policy_blocked",
                                  !.ad = enqueue[e].ad]]
  /\ enqueue' = [enqueue EXCEPT ![e] = NoEnqueue]
  /\ UNCHANGED <<identity, lastPublishedAt, ad>>
  /\ EnqueueUnchanged

EnqueueReserve(e) ==
  /\ enqueue[e].pc = "reserve"
  /\ identity' = [identity EXCEPT ![Owner[enqueue[e].ad]].nextPublishNotBefore =
                                    enqueue[e].slot]
  /\ enqueue' = [enqueue EXCEPT ![e].pc = "create"]
  /\ UNCHANGED <<lastPublishedAt, ad, attempt>>
  /\ EnqueueUnchanged

EnqueueCreate(e, a) ==
  /\ enqueue[e].pc = "create"
  /\ NextRow(a)
  /\ attempt' = [attempt EXCEPT ![a] =
                   [Absent EXCEPT !.status = "queued", !.ad = enqueue[e].ad,
                                  !.notBefore = enqueue[e].slot]]
  /\ enqueue' = [enqueue EXCEPT ![e].pc = "mark"]
  /\ UNCHANGED <<identity, lastPublishedAt, ad>>
  /\ EnqueueUnchanged

EnqueueMark(e) ==
  /\ enqueue[e].pc = "mark"
  /\ ad' = [ad EXCEPT ![enqueue[e].ad].status = "queued",
                      ![enqueue[e].ad].listed = @ /\ ~enqueue[e].wasDeleted]
  /\ enqueue' = [enqueue EXCEPT ![e] = NoEnqueue]
  /\ UNCHANGED <<identity, lastPublishedAt, attempt>>
  /\ EnqueueUnchanged

EnqueueDraft(e) ==
  \/ \E d \in Ads : EnqueueRead(e, d)
  \/ EnqueueExisting(e) \/ EnqueueReadIdentity(e) \/ EnqueueReadGates(e)
  \/ \E a \in Attempts : EnqueueReject(e, a) \/ EnqueueCreate(e, a)
  \/ EnqueueReserve(e) \/ EnqueueMark(e)

-----------------------------------------------------------------------------
(***************************************************************************)
(* recordResult                                                            *)
(***************************************************************************)
RecordUnchanged == UNCHANGED <<clock, claim, enqueue, expire, reconcile>>

RecordAd(r) == attempt[record[r].attempt].ad
RecordIdentity(r) == Owner[RecordAd(r)]

\* The code refuses terminal attempts only.  Operators who follow the UI
\* report on attempts that claimNext handed to them (~UnclaimedResults).
RecordRead(r, a, outcome) ==
  /\ MayStart
  /\ record[r].pc = "idle"
  /\ Open(a)
  /\ UnclaimedResults \/ Submitting(a)
  /\ record' = [record EXCEPT ![r] = [pc |-> "attempt", attempt |-> a,
                                      outcome |-> outcome]]
  /\ UNCHANGED <<db, awaitingHuman>>
  /\ RecordUnchanged

RecordAttempt(r) ==
  /\ record[r].pc = "attempt"
  /\ attempt' = [attempt EXCEPT ![record[r].attempt].status =
                                  record[r].outcome]
  /\ awaitingHuman' =
       IF record[r].outcome = "challenge_required"
       THEN [awaitingHuman EXCEPT ![RecordIdentity(r)] = TRUE]
       ELSE awaitingHuman
  /\ record' = [record EXCEPT ![r].pc = "ad"]
  /\ UNCHANGED <<identity, lastPublishedAt, ad>>
  /\ RecordUnchanged

\* Mutant: the published ad is not counted.
RecordPublishedUncounted(r) ==
  /\ record[r].pc = "ad"
  /\ record[r].outcome = "submitted"
  /\ ad' = [ad EXCEPT ![RecordAd(r)].status = "published",
                      ![RecordAd(r)].listed = TRUE]
  /\ record' = [record EXCEPT ![r].pc = "cadence"]
  /\ UNCHANGED <<identity, lastPublishedAt, attempt, awaitingHuman>>
  /\ RecordUnchanged

RecordPublishedAd(r) ==
  /\ record[r].pc = "ad"
  /\ record[r].outcome = "submitted"
  /\ ad' = [ad EXCEPT ![RecordAd(r)].status = "published",
                      ![RecordAd(r)].listed = TRUE]
  /\ record' = [record EXCEPT ![r].pc = "count"]
  /\ UNCHANGED <<identity, lastPublishedAt, attempt, awaitingHuman>>
  /\ RecordUnchanged

\* Mutant: the wrong one of the two counter updates.
RecordUncount(r) ==
  /\ record[r].pc = "count"
  /\ identity' = [identity EXCEPT ![RecordIdentity(r)].activeAdCount = @ - 1]
  /\ record' = [record EXCEPT ![r].pc = "cadence"]
  /\ UNCHANGED <<lastPublishedAt, ad, attempt, awaitingHuman>>
  /\ RecordUnchanged

RecordCount(r) ==
  /\ record[r].pc = "count"
  /\ identity' = [identity EXCEPT ![RecordIdentity(r)].activeAdCount = @ + 1]
  /\ record' = [record EXCEPT ![r].pc = "cadence"]
  /\ UNCHANGED <<lastPublishedAt, ad, attempt, awaitingHuman>>
  /\ RecordUnchanged

RecordCadence(r) ==
  /\ record[r].pc = "cadence"
  /\ lastPublishedAt' = [lastPublishedAt EXCEPT
                           ![RecordIdentity(r)][CategoryOf[RecordAd(r)]] = clock]
  /\ record' = [record EXCEPT ![r] = NoRecord]
  /\ UNCHANGED <<identity, ad, attempt, awaitingHuman>>
  /\ RecordUnchanged

RecordFailedAd(r) ==
  /\ record[r].pc = "ad"
  /\ record[r].outcome = "failed"
  /\ ad' = [ad EXCEPT ![RecordAd(r)].status = "failed"]
  /\ record' = [record EXCEPT ![r] = NoRecord]
  /\ UNCHANGED <<identity, lastPublishedAt, attempt, awaitingHuman>>
  /\ RecordUnchanged

RecordChallengeAd(r) ==
  /\ record[r].pc = "ad"
  /\ record[r].outcome = "challenge_required"
  /\ ad' = [ad EXCEPT ![RecordAd(r)].status = "challenge"]
  /\ record' = [record EXCEPT ![r].pc = "identity"]
  /\ UNCHANGED <<identity, lastPublishedAt, attempt, awaitingHuman>>
  /\ RecordUnchanged

\* Mutant: the challenge never reaches the identity.
RecordChallengeDropped(r) ==
  /\ record[r].pc = "identity"
  /\ record' = [record EXCEPT ![r] = NoRecord]
  /\ UNCHANGED <<db, awaitingHuman>>
  /\ RecordUnchanged

RecordChallengeIdentity(r) ==
  /\ record[r].pc = "identity"
  /\ identity' = [identity EXCEPT ![RecordIdentity(r)].standing = "blocked"]
  /\ record' = [record EXCEPT ![r] = NoRecord]
  /\ UNCHANGED <<lastPublishedAt, ad, attempt, awaitingHuman>>
  /\ RecordUnchanged

RecordResult(r) ==
  \/ \E a \in Attempts, outcome \in Outcome : RecordRead(r, a, outcome)
  \/ RecordAttempt(r)
  \/ RecordPublishedAd(r) \/ RecordCount(r) \/ RecordCadence(r)
  \/ RecordFailedAd(r)
  \/ RecordChallengeAd(r) \/ RecordChallengeIdentity(r)

-----------------------------------------------------------------------------
(***************************************************************************)
(* expireStaleSubmissions                                                  *)
(***************************************************************************)
ExpireUnchanged == UNCHANGED <<clock, claim, enqueue, record, reconcile,
                               awaitingHuman>>

\* Mutant: the query filters on startedAt only.
StaleWhateverStatus ==
  {a \in Attempts : /\ attempt[a].startedAt # NoTime
                    /\ attempt[a].startedAt < clock - StaleAfter}

Stale == {a \in Attempts : Submitting(a) /\ attempt[a].startedAt < clock - StaleAfter}

ExpireList(x) ==
  /\ MayStart
  /\ expire[x].pc = "idle"
  /\ Stale # {}
  /\ expire' = [expire EXCEPT ![x] = [pc |-> "attempt", todo |-> Stale,
                                      current |-> 0]]
  /\ UNCHANGED db
  /\ ExpireUnchanged

\* Mutant: a stale submission goes back to the queue.
ExpireRequeues(x, a) ==
  /\ expire[x].pc = "attempt"
  /\ a \in expire[x].todo
  /\ attempt' = [attempt EXCEPT ![a].status = "queued"]
  /\ expire' = [expire EXCEPT ![x] = [pc |-> "ad", todo |-> @.todo \ {a},
                                      current |-> a]]
  /\ UNCHANGED <<identity, lastPublishedAt, ad>>
  /\ ExpireUnchanged

\* findMany has no ORDER BY: the loop takes the attempts in any order.
ExpireAttempt(x, a) ==
  /\ expire[x].pc = "attempt"
  /\ a \in expire[x].todo
  /\ attempt' = [attempt EXCEPT ![a].status = "failed"]
  /\ expire' = [expire EXCEPT ![x] = [pc |-> "ad", todo |-> @.todo \ {a},
                                      current |-> a]]
  /\ UNCHANGED <<identity, lastPublishedAt, ad>>
  /\ ExpireUnchanged

ExpireAd(x) ==
  /\ expire[x].pc = "ad"
  /\ ad' = [ad EXCEPT ![attempt[expire[x].current].ad].status = "failed"]
  /\ expire' = [expire EXCEPT ![x] =
                  IF @.todo = {} THEN NoExpire
                  ELSE [@ EXCEPT !.pc = "attempt", !.current = 0]]
  /\ UNCHANGED <<identity, lastPublishedAt, attempt>>
  /\ ExpireUnchanged

ExpireStaleSubmissions(x) ==
  \/ ExpireList(x)
  \/ \E a \in Attempts : ExpireAttempt(x, a)
  \/ ExpireAd(x)

-----------------------------------------------------------------------------
(***************************************************************************)
(* reconcileIdentityCounts of monitoring: the counts are all read first,   *)
(* then each identity is recounted and overwritten when its snapshot       *)
(* differs.  refreshDueExternalStatus of the ad service visits one listing *)
(* on Bazos, deletes the ad when it is gone, and always overwrites the     *)
(* count of its identity.                                                  *)
(***************************************************************************)
ReconcileUnchanged == UNCHANGED <<clock, claim, enqueue, record, expire,
                                  awaitingHuman>>

Tracked(i) ==
  Cardinality({d \in Ads : /\ Owner[d] = i
                           /\ ad[d].isActive
                           /\ ad[d].status = "published"})

ReconcileRead(n, scope) ==
  /\ MayStart
  /\ reconcile[n].pc = "idle"
  /\ reconcile' = [reconcile EXCEPT ![n] =
       [NoReconcile EXCEPT !.pc = "count", !.todo = scope,
          !.seen = [i \in Identities |-> identity[i].activeAdCount]]]
  /\ UNCHANGED db
  /\ ReconcileUnchanged

ReconcileCount(n, i) ==
  /\ reconcile[n].pc = "count"
  /\ i \in reconcile[n].todo
  /\ reconcile' = [reconcile EXCEPT ![n].pc = "write", ![n].current = i,
                     ![n].todo = @ \ {i}, ![n].tracked = Tracked(i)]
  /\ UNCHANGED db
  /\ ReconcileUnchanged

ReconcileWrite(n) ==
  /\ reconcile[n].pc = "write"
  /\ LET here == reconcile[n] IN
     /\ identity' =
          IF here.always \/ here.seen[here.current] # here.tracked
          THEN [identity EXCEPT ![here.current].activeAdCount = here.tracked]
          ELSE identity
     /\ reconcile' = [reconcile EXCEPT ![n] =
                        IF here.todo = {} THEN NoReconcile
                        ELSE [@ EXCEPT !.pc = "count"]]
  /\ UNCHANGED <<lastPublishedAt, ad, attempt>>
  /\ ReconcileUnchanged

RefreshRead(n, d) ==
  /\ MayStart
  /\ reconcile[n].pc = "idle"
  /\ ad[d].listed /\ ad[d].status = "published"
  /\ reconcile' = [reconcile EXCEPT ![n] =
       [NoReconcile EXCEPT !.pc = "visit", !.ad = d, !.todo = {Owner[d]},
                           !.always = TRUE]]
  /\ UNCHANGED db
  /\ ReconcileUnchanged

\* The page answers: the listing is gone, or it is there (or cannot be told).
RefreshVisit(n) ==
  /\ reconcile[n].pc = "visit"
  /\ \E gone \in BOOLEAN :
       ad' = IF gone
             THEN [ad EXCEPT ![reconcile[n].ad].isActive = FALSE,
                             ![reconcile[n].ad].status = "deleted"]
             ELSE ad
  /\ reconcile' = [reconcile EXCEPT ![n].pc = "count"]
  /\ UNCHANGED <<identity, lastPublishedAt, attempt>>
  /\ ReconcileUnchanged

ReconcileIdentityCounts(n) ==
  \/ \E scope \in SUBSET Identities \ {{}} : ReconcileRead(n, scope)
  \/ \E d \in Ads : RefreshRead(n, d)
  \/ RefreshVisit(n)
  \/ \E i \in Identities : ReconcileCount(n, i)
  \/ ReconcileWrite(n)

-----------------------------------------------------------------------------
(***************************************************************************)
(* The rest of the service, as far as it writes the rows above.  Each is   *)
(* one statement of a request of its own.                                  *)
(***************************************************************************)
\* markChallenge, expireVerificationSession, startVerificationSession or a
\* passed verificationExpiresAt: some gate of 1 to 4 fails from now on.
Pause(i) ==
  /\ MaySlipIn
  /\ identity[i].standing = "clear"
  /\ identity' = [identity EXCEPT ![i].standing = "blocked"]
  /\ awaitingHuman' = [awaitingHuman EXCEPT ![i] = TRUE]
  /\ UNCHANGED <<clock, lastPublishedAt, ad, attempt, handlers>>

\* A human completes verification: gates 1 to 4 pass again.
Reverify(i) ==
  /\ MaySlipIn
  /\ awaitingHuman[i] \/ identity[i].standing = "blocked"
  /\ identity' = [identity EXCEPT ![i].standing = "clear"]
  /\ awaitingHuman' = [awaitingHuman EXCEPT ![i] = FALSE]
  /\ UNCHANGED <<clock, lastPublishedAt, ad, attempt, handlers>>

AdOnly == UNCHANGED <<clock, identity, lastPublishedAt, attempt, handlers,
                      awaitingHuman>>

\* stock.out, a non-offerable product, or a pending edit whose listing turns
\* out to be gone: none of them recounts the identity.  The offers service
\* (delete, a catalog sync that finds no stock) leaves the status as it was.
WithdrawAd(d) ==
  /\ MaySlipIn
  /\ Withdrawals
  /\ \E status \in {ad[d].status, "deleted"} :
       ad' = [ad EXCEPT ![d].isActive = FALSE, ![d].status = status]
  /\ AdOnly

\* A positive stock.updated, a renewed offer or a catalog sync; only a positive
\* stock.updated, after a stock.out, makes a deleted ad a draft again.
RestoreAd(d) ==
  /\ MaySlipIn
  /\ ~ad[d].isActive
  /\ \E status \in {ad[d].status} \cup
                   (IF ad[d].status = "deleted" THEN {"draft"} ELSE {}) :
       ad' = [ad EXCEPT ![d].isActive = TRUE, ![d].status = status]
  /\ AdOnly

\* The sell action reuses an active draft that is not on its way to Bazos.
ReuseDraft(d) ==
  /\ MaySlipIn
  /\ ad[d].isActive
  /\ ad[d].status \in {"draft", "blocked_policy", "failed", "challenge"}
  /\ ad' = [ad EXCEPT ![d].status = "draft", ![d].listed = FALSE]
  /\ AdOnly

Tick ==
  /\ clock < MaxTime
  /\ clock' = clock + 1
  /\ UNCHANGED <<db, handlers, awaitingHuman>>

\* The process dies, or a statement throws, between two awaits.
CrashHandler ==
  /\ Crashes
  /\ \/ \E c \in Claimers : /\ claim[c].pc # "idle"
                            /\ claim' = [claim EXCEPT ![c] = NoClaim]
                            /\ UNCHANGED <<enqueue, record, expire, reconcile>>
     \/ \E e \in Enqueuers : /\ enqueue[e].pc # "idle"
                             /\ enqueue' = [enqueue EXCEPT ![e] = NoEnqueue]
                             /\ UNCHANGED <<claim, record, expire, reconcile>>
     \/ \E r \in Recorders : /\ record[r].pc # "idle"
                             /\ record' = [record EXCEPT ![r] = NoRecord]
                             /\ UNCHANGED <<claim, enqueue, expire, reconcile>>
     \/ \E x \in Expirers : /\ expire[x].pc # "idle"
                            /\ expire' = [expire EXCEPT ![x] = NoExpire]
                            /\ UNCHANGED <<claim, enqueue, record, reconcile>>
     \/ \E n \in Reconcilers : /\ reconcile[n].pc # "idle"
                               /\ reconcile' = [reconcile EXCEPT ![n] = NoReconcile]
                               /\ UNCHANGED <<claim, enqueue, record, expire>>
  /\ UNCHANGED <<clock, db, awaitingHuman>>

Next ==
  \/ \E c \in Claimers : ClaimNext(c)
  \/ \E e \in Enqueuers : EnqueueDraft(e)
  \/ \E r \in Recorders : RecordResult(r)
  \/ \E x \in Expirers : ExpireStaleSubmissions(x)
  \/ \E n \in Reconcilers : ReconcileIdentityCounts(n)
  \/ \E i \in Identities : Pause(i) \/ Reverify(i)
  \/ \E d \in Ads : WithdrawAd(d) \/ RestoreAd(d) \/ ReuseDraft(d)
  \/ Tick
  \/ CrashHandler

Spec == Init /\ [][Next]_vars

-----------------------------------------------------------------------------
(***************************************************************************)
(* Properties that hold although requests overlap and crash.               *)
(***************************************************************************)
SameIdentity(a, b) == Exists(a) /\ Exists(b) /\ IdentityOf(a) = IdentityOf(b)

\* Two submissions of one identity that run at the same time were started by
\* different, overlapping claimNext requests: the check-then-write of claimNext
\* protects a worker against itself, whatever results, expiries and crashes do.
SerializedPerWorker ==
  \A a, b \in Attempts :
    a # b /\ Submitting(a) /\ Submitting(b) /\ SameIdentity(a, b)
      => attempt[a].worker # attempt[b].worker

\* "Workers must serialize publish attempts per identity"
\* (docs/BAZOS_COMPLIANCE.md:51): at most one attempt of an identity is
\* `submitting`.
AtMostOneSubmitting ==
  \A a, b \in Attempts :
    Submitting(a) /\ Submitting(b) /\ SameIdentity(a, b) => a = b

\* A draft is on its way to Bazos at most once: the existing-attempt check of
\* enqueueDraft holds up against stale claims, late results and expiry.
OneOpenAttemptPerAd ==
  \A a, b \in Attempts :
    Open(a) /\ Open(b) /\ attempt[a].ad = attempt[b].ad => a = b

\* The row was created by the reserving branch of enqueueDraft.
Reserved(a) == attempt[a].notBefore # 0

\* The reserved slots of an identity are PacingMin apart, in creation order,
\* even when a request is lost after reserving its slot.
SlotsSpaced ==
  \A a, b \in Attempts :
    a < b /\ Reserved(a) /\ Reserved(b) /\ SameIdentity(a, b)
      => attempt[a].notBefore + PacingMin <= attempt[b].notBefore

\* No submission starts before the notBefore its draft reserved.
StartedInSlot ==
  \A a \in Attempts :
    attempt[a].startedAt # NoTime => attempt[a].notBefore <= attempt[a].startedAt

\* The attempt rows, alone, behave as AttemptLifecycle says.
Lifecycle == INSTANCE AttemptLifecycle WITH
  Drafts <- Ads, OwnerOf <- Owner, NoDraft <- NoAd,
  phase <- [a \in Attempts |-> attempt[a].status],
  draft <- [a \in Attempts |-> attempt[a].ad]

\* With one claimNext, one enqueueDraft and results only for claimed attempts,
\* the queue implements the life cycle SPEC.md:36 describes.
ImplementsLifecycle == Lifecycle!LifecycleSpec

(***************************************************************************)
(* Properties of every sequence of requests that do not overlap.           *)
(***************************************************************************)
\* An attempt that ended keeps its outcome ("Publish attempt is already
\* terminal", bazos-publisher-queue.service.ts:215).
TerminalIsFinal ==
  [][\A a \in Attempts : Terminal(a) =>
       attempt'[a].status = attempt[a].status]_attempt

Published(i) == {d \in Ads : Owner[d] = i /\ ad[d].status = "published"}

\* "Publisher queue never exceeds 50 active ads per identity" (SPEC.md:72):
\* counting the ads published on Bazos, whether or not stock still backs them.
PublishedWithinCap ==
  \A i \in Identities : Cardinality(Published(i)) <= MaxActiveAds

\* Between requests activeAdCount is the number of active published ads, so the
\* cap gate decides on the truth.
CountIsExact ==
  Quiet => \A i \in Identities : identity[i].activeAdCount = Tracked(i)

\* "Category gate prevents repeated same-category posting within 24 hours per
\* identity" (SPEC.md:73).
CooldownRespected ==
  \A a, b \in Attempts :
    /\ a # b
    /\ attempt[a].status = "submitted" /\ attempt[b].status = "submitted"
    /\ SameIdentity(a, b)
    /\ CategoryOf[attempt[a].ad] = CategoryOf[attempt[b].ad]
    /\ attempt[a].startedAt <= attempt[b].startedAt
    => attempt[a].startedAt + CategoryCooldown <= attempt[b].startedAt

CameTo(d, status) ==
  \E a \in Attempts : attempt[a].ad = d /\ attempt[a].status = status

\* The ad's status is that of an attempt of it, and while an attempt is open it
\* does not show the end of another.
ShowsAttempts(d) ==
  /\ ad[d].status = "queued" => CameTo(d, "queued")
  /\ ad[d].status = "publishing" => CameTo(d, "submitting")
  /\ ad[d].status = "published" => d \in AlreadyListed \/ CameTo(d, "submitted")
  /\ ad[d].status = "failed" => CameTo(d, "failed")
  /\ ad[d].status = "challenge" => CameTo(d, "challenge_required")
  /\ ad[d].status = "blocked_policy" => CameTo(d, "policy_blocked")
  /\ \A a \in Attempts : Open(a) /\ attempt[a].ad = d =>
       ad[d].status \in {"queued", "publishing", "draft", "deleted"}

\* Between requests the ads and their attempts agree, although two statements
\* write them: nothing strands an ad in a status from which enqueueDraft refuses
\* it, none shows an outcome no attempt of it had, and none shows an earlier
\* outcome while a new attempt is under way.
AdFollowsAttempt == Quiet => \A d \in Ads : ShowsAttempts(d)

\* "Challenge states stop automation and require human action" (SPEC.md:74):
\* once a challenge is on record for an identity, no attempt of it starts until
\* a human resolved the challenge.
ChallengeStops ==
  [][\A a \in Attempts : ~Submitting(a) /\ Submitting(a)' =>
       ~awaitingHuman[IdentityOf(a)]]_vars
=============================================================================

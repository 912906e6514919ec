------------------------- MODULE PublishQueueProofs -------------------------
(***************************************************************************)
(* Theorems about the publisher queue, for any number of request slots,    *)
(* ads, identities and attempts, every bound and all policy constants:     *)
(* first what holds although requests overlap, then what holds of whole    *)
(* requests, one after the other, whatever stock, verification and the     *)
(* clock do between two of them.                                           *)
(***************************************************************************)
EXTENDS PublishQueue, FiniteSetTheorems, TLAPS

USE QueueAssumption, PolicyAssumption

-----------------------------------------------------------------------------
(***************************************************************************)
(* Type correctness.                                                       *)
(***************************************************************************)
LEMMA CountType ==
  ASSUME NEW S \in SUBSET Ads
  PROVE  Cardinality(S) \in Nat
BY FS_Subset, FS_CardinalityType DEF QueueAssumption

LEMMA InitTypeOK == Init => TypeOK
<1> SUFFICES ASSUME Init PROVE TypeOK
  OBVIOUS
<1>1. identity \in [Identities -> IdentityRow]
  <2>1. ASSUME NEW i \in Identities
        PROVE  Cardinality({d \in AlreadyListed : Owner[d] = i}) \in Nat
    <3>1. {d \in AlreadyListed : Owner[d] = i} \in SUBSET Ads
      BY DEF QueueAssumption
    <3> QED
      BY <3>1, CountType
  <2> QED
    BY <2>1 DEF Init, IdentityRow, NewIdentity, Standing, Time
<1>2. lastPublishedAt \in [Identities -> [Categories -> Time \cup {NoTime}]]
  BY DEF Init
<1>3. ad \in [Ads -> AdRow]
  BY DEF Init, AdRow, AdStatus
<1>4. attempt \in [Attempts -> AttemptRow]
  BY DEF Init, AttemptRow, Absent, AttemptStatus, Time
<1>5. /\ claim \in [Claimers -> ClaimState]
      /\ enqueue \in [Enqueuers -> EnqueueState]
      /\ record \in [Recorders -> RecordState]
      /\ expire \in [Expirers -> ExpireState]
      /\ reconcile \in [Reconcilers -> ReconcileState]
  BY DEF Init, ClaimState, NoClaim, EnqueueState, NoEnqueue, RecordState,
         NoRecord, ExpireState, NoExpire, ReconcileState, NoReconcile, Time
<1>6. clock \in Time /\ awaitingHuman \in [Identities -> BOOLEAN]
  BY DEF Init, Time
<1> QED
  BY <1>1, <1>2, <1>3, <1>4, <1>5, <1>6 DEF TypeOK

\* The program counters, for the lemmas on handler states.
ClaimPc == {"idle", "check", "read", "gates", "block", "blockAd", "submit",
            "submitAd"}
EnqueuePc == {"idle", "existing", "read", "gates", "reject", "reserve",
              "create", "mark"}
RecordPc == {"attempt", "ad", "count", "cadence", "identity"}

\* Rows and handler states keep their type when fields are updated.
LEMMA ClaimStateUpdate ==
  ASSUME NEW s \in ClaimState, NEW p \in ClaimPc, NEW b \in BOOLEAN
  PROVE  /\ [s EXCEPT !.pc = p] \in ClaimState
         /\ [s EXCEPT !.pc = p, !.allowed = b] \in ClaimState
BY DEF ClaimState, ClaimPc

LEMMA EnqueueStateUpdate ==
  ASSUME NEW s \in EnqueueState, NEW p \in EnqueuePc
  PROVE  [s EXCEPT !.pc = p] \in EnqueueState
BY DEF EnqueueState, EnqueuePc

LEMMA RecordStateUpdate ==
  ASSUME NEW s \in RecordState, s # NoRecord, NEW p \in RecordPc
  PROVE  [s EXCEPT !.pc = p] \in RecordState
BY DEF RecordState, RecordPc

LEMMA StandingUpdate ==
  ASSUME NEW row \in IdentityRow, NEW standing \in Standing
  PROVE  [row EXCEPT !.standing = standing] \in IdentityRow
BY DEF IdentityRow

LEMMA AttemptStatusUpdate ==
  ASSUME NEW row \in AttemptRow, NEW status \in AttemptStatus
  PROVE  [row EXCEPT !.status = status] \in AttemptRow
BY DEF AttemptRow

LEMMA AdUpdate ==
  ASSUME NEW row \in AdRow, NEW status \in AdStatus, NEW b \in BOOLEAN
  PROVE  /\ [row EXCEPT !.status = status] \in AdRow
         /\ [row EXCEPT !.status = status, !.listed = b] \in AdRow
         /\ [row EXCEPT !.isActive = b, !.status = status] \in AdRow
BY DEF AdRow

LEMMA NoHandlerState ==
  /\ NoClaim \in ClaimState
  /\ NoEnqueue \in EnqueueState
  /\ NoRecord \in RecordState
  /\ NoExpire \in ExpireState
  /\ NoReconcile \in ReconcileState
BY DEF ClaimState, NoClaim, EnqueueState, NoEnqueue, RecordState, NoRecord,
       ExpireState, NoExpire, ReconcileState, NoReconcile, Time

LEMMA ClaimTypeOK ==
  ASSUME TypeOK, NEW c \in Claimers, ClaimNext(c)
  PROVE  TypeOK'
<1> USE DEF ClaimUnchanged, db
<1>0. /\ claim \in [Claimers -> ClaimState] /\ claim[c] \in ClaimState
      /\ attempt \in [Attempts -> AttemptRow]
      /\ ad \in [Ads -> AdRow]
      /\ clock \in Time
  BY DEF TypeOK
<1>1. CASE ClaimList(c)
  <2>1. Candidates \in SUBSET Attempts
    BY DEF Candidates, Window, Due
  <2>2. [NoClaim EXCEPT !.pc = "check", !.todo = Candidates] \in ClaimState
    BY <2>1 DEF NoClaim, ClaimState
  <2>3. claim' \in [Claimers -> ClaimState]
    BY <1>0, <1>1, <2>2 DEF ClaimList
  <2> QED
    BY <1>1, <2>3 DEF ClaimList, TypeOK
<1>2. ASSUME NEW a \in Attempts, ClaimSkip(c, a) PROVE TypeOK'
  <2> DEFINE rest == claim[c].todo \ {a}
  <2>1. [claim[c] EXCEPT !.todo = rest] \in ClaimState
    BY <1>0 DEF ClaimState
  <2>2. claim' \in [Claimers -> ClaimState]
    BY <1>0, <1>2, <2>1, NoHandlerState DEF ClaimSkip
  <2> QED
    BY <1>2, <2>2 DEF ClaimSkip, TypeOK
<1>3. ASSUME NEW a \in Attempts, ClaimPass(c, a) PROVE TypeOK'
  <2>1. [NoClaim EXCEPT !.pc = "read", !.current = a] \in ClaimState
    BY DEF NoClaim, ClaimState
  <2>2. claim' \in [Claimers -> ClaimState]
    BY <1>0, <1>3, <2>1 DEF ClaimPass
  <2> QED
    BY <1>3, <2>2 DEF ClaimPass, TypeOK
<1>4. CASE ClaimReadIdentity(c)
  <2>1. claim' \in [Claimers -> ClaimState]
    BY <1>0, <1>4, ClaimStateUpdate
       DEF ClaimReadIdentity, ClaimPc, AdPassesIdentityGates, IdentityGates
  <2> QED
    BY <1>4, <2>1 DEF ClaimReadIdentity, TypeOK
<1>5. CASE ClaimReadGates(c)
  <2>1. claim' \in [Claimers -> ClaimState]
    BY <1>0, <1>5, ClaimStateUpdate DEF ClaimReadGates, ClaimPc
  <2> QED
    BY <1>5, <2>1 DEF ClaimReadGates, TypeOK
<1>6. CASE ClaimBlock(c)
  <2>1. claim' \in [Claimers -> ClaimState]
    BY <1>0, <1>6, ClaimStateUpdate DEF ClaimBlock, ClaimPc
  <2>2. attempt' \in [Attempts -> AttemptRow]
    BY <1>0, <1>6, AttemptStatusUpdate
       DEF ClaimBlock, AttemptStatus, TerminalStatus
  <2> QED
    BY <1>6, <2>1, <2>2 DEF ClaimBlock, TypeOK
<1>7. CASE ClaimBlockAd(c)
  <2>1. claim' \in [Claimers -> ClaimState]
    BY <1>0, <1>7, NoHandlerState DEF ClaimBlockAd
  <2>2. ad' \in [Ads -> AdRow]
    BY <1>0, <1>7, AdUpdate DEF ClaimBlockAd, AdStatus
  <2> QED
    BY <1>7, <2>1, <2>2 DEF ClaimBlockAd, TypeOK
<1>8. CASE ClaimSubmit(c)
  <2>1. claim' \in [Claimers -> ClaimState]
    BY <1>0, <1>8, ClaimStateUpdate DEF ClaimSubmit, ClaimPc
  <2>2. ASSUME NEW row \in AttemptRow
        PROVE  [row EXCEPT !.status = "submitting", !.startedAt = clock,
                           !.worker = c] \in AttemptRow
    BY <1>0 DEF AttemptRow, AttemptStatus, OpenStatus
  <2>3. attempt' \in [Attempts -> AttemptRow]
    BY <1>0, <1>8, <2>2 DEF ClaimSubmit
  <2> QED
    BY <1>8, <2>1, <2>3 DEF ClaimSubmit, TypeOK
<1>9. CASE ClaimSubmitAd(c)
  <2>1. claim' \in [Claimers -> ClaimState]
    BY <1>0, <1>9, NoHandlerState DEF ClaimSubmitAd
  <2>2. ad' \in [Ads -> AdRow]
    BY <1>0, <1>9, AdUpdate DEF ClaimSubmitAd, AdStatus
  <2> QED
    BY <1>9, <2>1, <2>2 DEF ClaimSubmitAd, TypeOK
<1> QED
  BY <1>1, <1>2, <1>3, <1>4, <1>5, <1>6, <1>7, <1>8, <1>9 DEF ClaimNext

LEMMA EnqueueTypeOK ==
  ASSUME TypeOK, NEW e \in Enqueuers, EnqueueDraft(e)
  PROVE  TypeOK'
<1> USE DEF EnqueueUnchanged, db
<1>0. /\ enqueue \in [Enqueuers -> EnqueueState] /\ enqueue[e] \in EnqueueState
      /\ attempt \in [Attempts -> AttemptRow]
      /\ ad \in [Ads -> AdRow]
      /\ identity \in [Identities -> IdentityRow]
      /\ clock \in Time
      /\ enqueue[e].slot \in Nat
      /\ enqueue[e].ad \in Ads \cup {NoAd}
  BY DEF TypeOK, EnqueueState, Time
<1>1. ASSUME NEW d \in Ads, EnqueueRead(e, d) PROVE TypeOK'
  <2>1. ASSUME NEW b \in BOOLEAN
        PROVE  [NoEnqueue EXCEPT !.pc = "existing", !.ad = d, !.wasDeleted = b]
                 \in EnqueueState
    BY DEF NoEnqueue, EnqueueState, Time
  <2>2. enqueue' \in [Enqueuers -> EnqueueState]
    BY <1>0, <1>1, <2>1 DEF EnqueueRead
  <2> QED
    BY <1>1, <2>2 DEF EnqueueRead, TypeOK
<1>2. CASE EnqueueExisting(e)
  <2>1. enqueue' \in [Enqueuers -> EnqueueState]
    BY <1>0, <1>2, EnqueueStateUpdate, NoHandlerState
       DEF EnqueueExisting, EnqueuePc
  <2> QED
    BY <1>2, <2>1 DEF EnqueueExisting, TypeOK
<1>3. CASE EnqueueReadIdentity(e)
  <2>1. ASSUME NEW b \in BOOLEAN
        PROVE  [enqueue[e] EXCEPT !.pc = "gates", !.allowed = b, !.slot = clock]
                 \in EnqueueState
    BY <1>0 DEF EnqueueState
  <2>2. enqueue' \in [Enqueuers -> EnqueueState]
    BY <1>0, <1>3, <2>1
       DEF EnqueueReadIdentity, AdPassesIdentityGates, IdentityGates
  <2> QED
    BY <1>3, <2>2 DEF EnqueueReadIdentity, TypeOK
<1>4. CASE EnqueueReadGates(e)
  <2>1. Slots(enqueue[e].slot) \in SUBSET Nat
    BY <1>0 DEF Slots, PolicyAssumption
  <2>2. ASSUME NEW p \in EnqueuePc, NEW slot \in Nat
        PROVE  [enqueue[e] EXCEPT !.pc = p, !.slot = slot] \in EnqueueState
    BY <1>0 DEF EnqueueState, EnqueuePc, Time
  <2>3. PICK others \in BOOLEAN, slot \in Slots(enqueue[e].slot) :
          enqueue' = [enqueue EXCEPT
            ![e].pc = IF enqueue[e].allowed /\ others THEN "reserve" ELSE "reject",
            ![e].slot = slot]
    BY <1>4 DEF EnqueueReadGates
  <2>4. enqueue' \in [Enqueuers -> EnqueueState]
    <3> DEFINE p == IF enqueue[e].allowed /\ others THEN "reserve" ELSE "reject"
    <3>1. p \in EnqueuePc /\ slot \in Nat
      BY <2>1 DEF EnqueuePc
    <3>2. enqueue' = [enqueue EXCEPT ![e] =
                        [enqueue[e] EXCEPT !.pc = p, !.slot = slot]]
      BY <2>3
    <3> HIDE DEF p
    <3> QED
      BY <1>0, <2>2, <3>1, <3>2
  <2> QED
    BY <1>4, <2>4 DEF EnqueueReadGates, TypeOK
<1>5. ASSUME NEW a \in Attempts, EnqueueReject(e, a) PROVE TypeOK'
  <2>1. enqueue' \in [Enqueuers -> EnqueueState]
    BY <1>0, <1>5, NoHandlerState DEF EnqueueReject
  <2>2. [Absent EXCEPT !.status = "policy_blocked", !.ad = enqueue[e].ad]
          \in AttemptRow
    BY <1>0 DEF Absent, AttemptRow, AttemptStatus, TerminalStatus, Time
  <2>3. attempt' \in [Attempts -> AttemptRow]
    BY <1>0, <1>5, <2>2 DEF EnqueueReject
  <2> QED
    BY <1>5, <2>1, <2>3 DEF EnqueueReject, TypeOK
<1>6. ASSUME NEW a \in Attempts, EnqueueCreate(e, a) PROVE TypeOK'
  <2>1. enqueue' \in [Enqueuers -> EnqueueState]
    BY <1>0, <1>6, EnqueueStateUpdate DEF EnqueueCreate, EnqueuePc
  <2>2. [Absent EXCEPT !.status = "queued", !.ad = enqueue[e].ad,
                       !.notBefore = enqueue[e].slot] \in AttemptRow
    BY <1>0 DEF Absent, AttemptRow, AttemptStatus, OpenStatus, Time
  <2>3. attempt' \in [Attempts -> AttemptRow]
    BY <1>0, <1>6, <2>2 DEF EnqueueCreate
  <2> QED
    BY <1>6, <2>1, <2>3 DEF EnqueueCreate, TypeOK
<1>7. CASE EnqueueReserve(e)
  <2>1. enqueue' \in [Enqueuers -> EnqueueState]
    BY <1>0, <1>7, EnqueueStateUpdate DEF EnqueueReserve, EnqueuePc
  <2>2. ASSUME NEW row \in IdentityRow
        PROVE  [row EXCEPT !.nextPublishNotBefore = enqueue[e].slot]
                 \in IdentityRow
    BY <1>0 DEF IdentityRow, Time
  <2>3. identity' \in [Identities -> IdentityRow]
    BY <1>0, <1>7, <2>2 DEF EnqueueReserve
  <2> QED
    BY <1>7, <2>1, <2>3 DEF EnqueueReserve, TypeOK
<1>8. CASE EnqueueMark(e)
  <2>1. enqueue' \in [Enqueuers -> EnqueueState]
    BY <1>0, <1>8, NoHandlerState DEF EnqueueMark
  <2>2. PICK b \in BOOLEAN :
          ad' = [ad EXCEPT ![enqueue[e].ad] =
                   [ad[enqueue[e].ad] EXCEPT !.status = "queued", !.listed = b]]
    BY <1>8 DEF EnqueueMark
  <2>3. ad' \in [Ads -> AdRow]
    BY <1>0, <2>2, AdUpdate DEF AdStatus
  <2> QED
    BY <1>8, <2>1, <2>3 DEF EnqueueMark, TypeOK
<1> QED
  BY <1>1, <1>2, <1>3, <1>4, <1>5, <1>6, <1>7, <1>8 DEF EnqueueDraft

LEMMA RecordTypeOK ==
  ASSUME TypeOK, NEW r \in Recorders, RecordResult(r)
  PROVE  TypeOK'
<1> USE DEF RecordUnchanged, db
<1>0. /\ record \in [Recorders -> RecordState] /\ record[r] \in RecordState
      /\ attempt \in [Attempts -> AttemptRow]
      /\ ad \in [Ads -> AdRow]
      /\ identity \in [Identities -> IdentityRow]
      /\ clock \in Time
  BY DEF TypeOK
<1>n. record[r].pc # "idle" => record[r] # NoRecord
  BY DEF NoRecord
<1>1. ASSUME NEW a \in Attempts, NEW outcome \in Outcome,
             RecordRead(r, a, outcome)
      PROVE  TypeOK'
  <2>1. record' \in [Recorders -> RecordState]
    BY <1>0, <1>1 DEF RecordRead, RecordState
  <2> QED
    BY <1>1, <2>1 DEF RecordRead, TypeOK
<1>2. CASE RecordAttempt(r)
  <2>1. record' \in [Recorders -> RecordState]
    BY <1>0, <1>2, RecordStateUpdate, <1>n DEF RecordAttempt, RecordPc
  <2>2. record[r].outcome \in AttemptStatus
    BY <1>0, <1>2
       DEF RecordAttempt, RecordState, NoRecord, AttemptStatus, TerminalStatus
  <2>3. attempt' \in [Attempts -> AttemptRow]
    BY <1>0, <1>2, <2>2, AttemptStatusUpdate DEF RecordAttempt
  <2>4. awaitingHuman' \in [Identities -> BOOLEAN]
    BY <1>2 DEF RecordAttempt, TypeOK
  <2> QED
    BY <1>2, <2>1, <2>3, <2>4 DEF RecordAttempt, TypeOK
<1>3. CASE RecordPublishedAd(r)
  <2>1. record' \in [Recorders -> RecordState]
    BY <1>0, <1>3, RecordStateUpdate, <1>n DEF RecordPublishedAd, RecordPc
  <2>2. ad' \in [Ads -> AdRow]
    BY <1>0, <1>3, AdUpdate DEF RecordPublishedAd, AdStatus
  <2> QED
    BY <1>3, <2>1, <2>2 DEF RecordPublishedAd, TypeOK
<1>4. CASE RecordCount(r)
  <2>1. record' \in [Recorders -> RecordState]
    BY <1>0, <1>4, RecordStateUpdate, <1>n DEF RecordCount, RecordPc
  <2>2. ASSUME NEW row \in IdentityRow
        PROVE  [row EXCEPT !.activeAdCount = row.activeAdCount + 1]
                 \in IdentityRow
    BY DEF IdentityRow
  <2>3. identity' \in [Identities -> IdentityRow]
    BY <1>0, <1>4, <2>2 DEF RecordCount
  <2> QED
    BY <1>4, <2>1, <2>3 DEF RecordCount, TypeOK
<1>5. CASE RecordCadence(r)
  <2>1. record' \in [Recorders -> RecordState]
    BY <1>0, <1>5, NoHandlerState DEF RecordCadence
  <2>2. lastPublishedAt' \in [Identities -> [Categories -> Time \cup {NoTime}]]
    BY <1>0, <1>5 DEF RecordCadence, TypeOK
  <2> QED
    BY <1>5, <2>1, <2>2 DEF RecordCadence, TypeOK
<1>6. CASE RecordFailedAd(r)
  <2>1. record' \in [Recorders -> RecordState]
    BY <1>0, <1>6, NoHandlerState DEF RecordFailedAd
  <2>2. ad' \in [Ads -> AdRow]
    BY <1>0, <1>6, AdUpdate DEF RecordFailedAd, AdStatus
  <2> QED
    BY <1>6, <2>1, <2>2 DEF RecordFailedAd, TypeOK
<1>7. CASE RecordChallengeAd(r)
  <2>1. record' \in [Recorders -> RecordState]
    BY <1>0, <1>7, RecordStateUpdate, <1>n DEF RecordChallengeAd, RecordPc
  <2>2. ad' \in [Ads -> AdRow]
    BY <1>0, <1>7, AdUpdate DEF RecordChallengeAd, AdStatus
  <2> QED
    BY <1>7, <2>1, <2>2 DEF RecordChallengeAd, TypeOK
<1>8. CASE RecordChallengeIdentity(r)
  <2>1. record' \in [Recorders -> RecordState]
    BY <1>0, <1>8, NoHandlerState DEF RecordChallengeIdentity
  <2>2. identity' \in [Identities -> IdentityRow]
    BY <1>0, <1>8, StandingUpdate DEF RecordChallengeIdentity, Standing
  <2> QED
    BY <1>8, <2>1, <2>2 DEF RecordChallengeIdentity, TypeOK
<1> QED
  BY <1>1, <1>2, <1>3, <1>4, <1>5, <1>6, <1>7, <1>8 DEF RecordResult

LEMMA ExpireTypeOK ==
  ASSUME TypeOK, NEW x \in Expirers, ExpireStaleSubmissions(x)
  PROVE  TypeOK'
<1> USE DEF ExpireUnchanged, db
<1>0. /\ expire \in [Expirers -> ExpireState] /\ expire[x] \in ExpireState
      /\ attempt \in [Attempts -> AttemptRow]
      /\ ad \in [Ads -> AdRow]
  BY DEF TypeOK
<1>1. CASE ExpireList(x)
  <2>1. [pc |-> "attempt", todo |-> Stale, current |-> 0] \in ExpireState
    BY DEF ExpireState, Stale
  <2>2. expire' \in [Expirers -> ExpireState]
    BY <1>0, <1>1, <2>1 DEF ExpireList
  <2> QED
    BY <1>1, <2>2 DEF ExpireList, TypeOK
<1>2. ASSUME NEW a \in Attempts, ExpireAttempt(x, a) PROVE TypeOK'
  <2>1. [pc |-> "ad", todo |-> expire[x].todo \ {a}, current |-> a]
          \in ExpireState
    BY <1>0 DEF ExpireState
  <2>2. expire' \in [Expirers -> ExpireState]
    BY <1>0, <1>2, <2>1 DEF ExpireAttempt
  <2>3. attempt' \in [Attempts -> AttemptRow]
    BY <1>0, <1>2, AttemptStatusUpdate
       DEF ExpireAttempt, AttemptStatus, TerminalStatus, Outcome
  <2> QED
    BY <1>2, <2>2, <2>3 DEF ExpireAttempt, TypeOK
<1>3. CASE ExpireAd(x)
  <2>1. [expire[x] EXCEPT !.pc = "attempt", !.current = 0] \in ExpireState
    BY <1>0 DEF ExpireState
  <2>2. expire' \in [Expirers -> ExpireState]
    BY <1>0, <1>3, <2>1, NoHandlerState DEF ExpireAd
  <2>3. ad' \in [Ads -> AdRow]
    BY <1>0, <1>3, AdUpdate DEF ExpireAd, AdStatus
  <2> QED
    BY <1>3, <2>2, <2>3 DEF ExpireAd, TypeOK
<1> QED
  BY <1>1, <1>2, <1>3 DEF ExpireStaleSubmissions

LEMMA ReconcileTypeOK ==
  ASSUME TypeOK, NEW n \in Reconcilers, ReconcileIdentityCounts(n)
  PROVE  TypeOK'
<1> USE DEF ReconcileUnchanged, db
<1>0. /\ reconcile \in [Reconcilers -> ReconcileState]
      /\ reconcile[n] \in ReconcileState
      /\ ad \in [Ads -> AdRow]
      /\ identity \in [Identities -> IdentityRow]
  BY DEF TypeOK
<1>1. ASSUME NEW scope \in SUBSET Identities, ReconcileRead(n, scope)
      PROVE  TypeOK'
  <2>1. [i \in Identities |-> identity[i].activeAdCount] \in [Identities -> Nat]
    BY <1>0 DEF IdentityRow
  <2>2. ASSUME NEW seen \in [Identities -> Nat]
        PROVE  [NoReconcile EXCEPT !.pc = "count", !.todo = scope, !.seen = seen]
                 \in ReconcileState
    BY DEF NoReconcile, ReconcileState
  <2>3. reconcile' \in [Reconcilers -> ReconcileState]
    BY <1>0, <1>1, <2>1, <2>2 DEF ReconcileRead
  <2> QED
    BY <1>1, <2>3 DEF ReconcileRead, TypeOK
<1>2. ASSUME NEW d \in Ads, RefreshRead(n, d) PROVE TypeOK'
  <2>a. {Owner[d]} \in SUBSET Identities
    BY DEF QueueAssumption
  <2>b. ASSUME NEW scope \in SUBSET Identities
        PROVE  [NoReconcile EXCEPT !.pc = "visit", !.ad = d, !.todo = scope,
                                   !.always = TRUE] \in ReconcileState
    BY DEF NoReconcile, ReconcileState
  <2>1. [NoReconcile EXCEPT !.pc = "visit", !.ad = d, !.todo = {Owner[d]},
                             !.always = TRUE] \in ReconcileState
    BY <2>a, <2>b
  <2>2. reconcile' \in [Reconcilers -> ReconcileState]
    BY <1>0, <1>2, <2>1 DEF RefreshRead
  <2> QED
    BY <1>2, <2>2 DEF RefreshRead, TypeOK
<1>3. CASE RefreshVisit(n)
  <2> DEFINE deleted == [ad EXCEPT ![reconcile[n].ad].isActive = FALSE,
                                   ![reconcile[n].ad].status = "deleted"]
  <2>a. deleted \in [Ads -> AdRow]
    BY <1>0, AdUpdate DEF AdStatus
  <2>1. ad' \in [Ads -> AdRow]
    BY <1>0, <1>3, <2>a DEF RefreshVisit
  <2>2. [reconcile[n] EXCEPT !.pc = "count"] \in ReconcileState
    BY <1>0 DEF ReconcileState
  <2>3. reconcile' \in [Reconcilers -> ReconcileState]
    BY <1>0, <1>3, <2>2 DEF RefreshVisit
  <2> QED
    BY <1>3, <2>1, <2>3 DEF RefreshVisit, TypeOK
<1>4. ASSUME NEW i \in Identities, ReconcileCount(n, i) PROVE TypeOK'
  <2>1. Tracked(i) \in Nat
    BY CountType DEF Tracked
  <2>2. [reconcile[n] EXCEPT !.pc = "write", !.current = i,
                             !.todo = reconcile[n].todo \ {i},
                             !.tracked = Tracked(i)] \in ReconcileState
    BY <1>0, <2>1 DEF ReconcileState
  <2>3. reconcile' \in [Reconcilers -> ReconcileState]
    BY <1>0, <1>4, <2>2 DEF ReconcileCount
  <2> QED
    BY <1>4, <2>3 DEF ReconcileCount, TypeOK
<1>5. CASE ReconcileWrite(n)
  <2>1. [reconcile[n] EXCEPT !.pc = "count"] \in ReconcileState
    BY <1>0 DEF ReconcileState
  <2>2. reconcile' \in [Reconcilers -> ReconcileState]
    BY <1>0, <1>5, <2>1, NoHandlerState DEF ReconcileWrite
  <2>3. ASSUME NEW row \in IdentityRow
        PROVE  [row EXCEPT !.activeAdCount = reconcile[n].tracked]
                 \in IdentityRow
    BY <1>0 DEF IdentityRow, ReconcileState
  <2>4. identity' \in [Identities -> IdentityRow]
    BY <1>0, <1>5, <2>3 DEF ReconcileWrite
  <2> QED
    BY <1>5, <2>2, <2>4 DEF ReconcileWrite, TypeOK
<1> QED
  BY <1>1, <1>2, <1>3, <1>4, <1>5 DEF ReconcileIdentityCounts

\* The actions that are one statement of a request of their own, and the clock.
Single ==
  \/ \E i \in Identities : Pause(i) \/ Reverify(i)
  \/ \E d \in Ads : WithdrawAd(d) \/ RestoreAd(d) \/ ReuseDraft(d)
  \/ Tick

LEMMA SingleTypeOK ==
  ASSUME TypeOK, Single
  PROVE  TypeOK'
<1> USE DEF AdOnly, db, handlers
<1>0. /\ ad \in [Ads -> AdRow]
      /\ identity \in [Identities -> IdentityRow]
      /\ clock \in Time
      /\ awaitingHuman \in [Identities -> BOOLEAN]
  BY DEF TypeOK
<1>1. ASSUME NEW i \in Identities, Pause(i) PROVE TypeOK'
  <2>1. identity' \in [Identities -> IdentityRow]
    BY <1>0, <1>1, StandingUpdate DEF Pause, Standing
  <2> QED
    BY <1>1, <2>1 DEF Pause, TypeOK
<1>2. ASSUME NEW i \in Identities, Reverify(i) PROVE TypeOK'
  <2>1. identity' \in [Identities -> IdentityRow]
    BY <1>0, <1>2, StandingUpdate DEF Reverify, Standing
  <2> QED
    BY <1>2, <2>1 DEF Reverify, TypeOK
<1>3. ASSUME NEW d \in Ads, WithdrawAd(d) PROVE TypeOK'
  <2>1. ad[d].status \in AdStatus
    BY <1>0 DEF AdRow
  <2>2. PICK status \in AdStatus :
          ad' = [ad EXCEPT ![d].isActive = FALSE, ![d].status = status]
    BY <1>3, <2>1 DEF WithdrawAd, AdStatus
  <2>3. ad' \in [Ads -> AdRow]
    BY <1>0, <2>2, AdUpdate
  <2> QED
    BY <1>3, <2>3 DEF WithdrawAd, TypeOK
<1>4. ASSUME NEW d \in Ads, RestoreAd(d) PROVE TypeOK'
  <2>1. {ad[d].status} \cup (IF ad[d].status = "deleted" THEN {"draft"} ELSE {})
          \subseteq AdStatus
    BY <1>0 DEF AdRow, AdStatus
  <2>2. PICK status \in AdStatus :
          ad' = [ad EXCEPT ![d].isActive = TRUE, ![d].status = status]
    BY <1>4, <2>1 DEF RestoreAd
  <2>3. ad' \in [Ads -> AdRow]
    BY <1>0, <2>2, AdUpdate
  <2> QED
    BY <1>4, <2>3 DEF RestoreAd, TypeOK
<1>5. ASSUME NEW d \in Ads, ReuseDraft(d) PROVE TypeOK'
  <2>1. ad' \in [Ads -> AdRow]
    BY <1>0, <1>5, AdUpdate DEF ReuseDraft, AdStatus
  <2> QED
    BY <1>5, <2>1 DEF ReuseDraft, TypeOK
<1>6. CASE Tick
  BY <1>0, <1>6 DEF Tick, TypeOK, Time
<1> QED
  BY <1>1, <1>2, <1>3, <1>4, <1>5, <1>6 DEF Single

LEMMA CrashTypeOK ==
  ASSUME TypeOK, CrashHandler
  PROVE  TypeOK'
<1>1. /\ UNCHANGED <<clock, identity, lastPublishedAt, ad, attempt,
                     awaitingHuman>>
      /\ claim' \in [Claimers -> ClaimState]
      /\ enqueue' \in [Enqueuers -> EnqueueState]
      /\ record' \in [Recorders -> RecordState]
      /\ expire' \in [Expirers -> ExpireState]
      /\ reconcile' \in [Reconcilers -> ReconcileState]
  <2>1. /\ claim \in [Claimers -> ClaimState]
        /\ enqueue \in [Enqueuers -> EnqueueState]
        /\ record \in [Recorders -> RecordState]
        /\ expire \in [Expirers -> ExpireState]
        /\ reconcile \in [Reconcilers -> ReconcileState]
    BY DEF TypeOK
  <2> QED
    BY <2>1, NoHandlerState DEF CrashHandler, db
<1> QED
  BY <1>1 DEF TypeOK

LEMMA NextTypeOK == TypeOK /\ [Next]_vars => TypeOK'
<1> SUFFICES ASSUME TypeOK, [Next]_vars PROVE TypeOK'
  OBVIOUS
<1>1. CASE Next
  BY <1>1, ClaimTypeOK, EnqueueTypeOK, RecordTypeOK, ExpireTypeOK,
     ReconcileTypeOK, SingleTypeOK, CrashTypeOK DEF Next, Single
<1>2. CASE UNCHANGED vars
  BY <1>2 DEF vars, db, handlers, TypeOK
<1> QED
  BY <1>1, <1>2

\* Every row and every handler's local state keeps its type, whatever requests
\* overlap or are lost.
THEOREM TypeCorrect == Spec => []TypeOK
BY InitTypeOK, NextTypeOK, PTL DEF Spec

-----------------------------------------------------------------------------
(***************************************************************************)
(* What a step can do to one attempt row: nothing, create it, close it, or *)
(* start it.                                                               *)
(***************************************************************************)
Created(a) ==
  /\ ~Exists(a)
  /\ attempt'[a].status \in {"queued", "policy_blocked"}
  /\ attempt'[a].startedAt = NoTime

Closed(a) ==
  \E status \in TerminalStatus :
    attempt'[a] = [attempt[a] EXCEPT !.status = status]

StartedBy(a, c) ==
  /\ claim[c].pc = "submit"
  /\ claim[c].current = a
  /\ claim'[c].pc = "submitAd"
  /\ attempt'[a] = [attempt[a] EXCEPT !.status = "submitting",
                                      !.startedAt = clock, !.worker = c]

RowStep(a) ==
  \/ attempt'[a] = attempt[a]
  \/ Created(a)
  \/ Closed(a)
  \/ \E c \in Claimers : StartedBy(a, c)

LEMMA RowSteps ==
  ASSUME TypeOK, [Next]_vars, NEW a \in Attempts
  PROVE  RowStep(a)
<1> USE DEF db, handlers
<1>0. attempt \in [Attempts -> AttemptRow] /\ claim \in [Claimers -> ClaimState]
  BY DEF TypeOK
<1>1. ASSUME NEW c \in Claimers, ClaimNext(c) PROVE RowStep(a)
  <2>1. CASE ClaimBlock(c)
    BY <1>0, <2>1 DEF ClaimBlock, RowStep, Closed, TerminalStatus
  <2>2. CASE ClaimSubmit(c)
    BY <1>0, <2>2 DEF ClaimSubmit, RowStep, StartedBy, ClaimState
  <2>3. CASE attempt' = attempt
    BY <2>3 DEF RowStep
  <2> QED
    BY <1>1, <2>1, <2>2, <2>3
       DEF ClaimNext, ClaimList, ClaimSkip, ClaimPass, ClaimReadIdentity,
           ClaimReadGates, ClaimBlockAd, ClaimSubmitAd
<1>2. ASSUME NEW e \in Enqueuers, EnqueueDraft(e) PROVE RowStep(a)
  <2>1. ASSUME NEW b \in Attempts, EnqueueReject(e, b) PROVE RowStep(a)
    <3>1. CASE a = b
      BY <1>0, <2>1, <3>1
         DEF EnqueueReject, NextRow, RowStep, Created, Absent
    <3>2. CASE a # b
      BY <1>0, <2>1, <3>2 DEF EnqueueReject, RowStep
    <3> QED
      BY <3>1, <3>2
  <2>2. ASSUME NEW b \in Attempts, EnqueueCreate(e, b) PROVE RowStep(a)
    <3>1. CASE a = b
      BY <1>0, <2>2, <3>1
         DEF EnqueueCreate, NextRow, RowStep, Created, Absent
    <3>2. CASE a # b
      BY <1>0, <2>2, <3>2 DEF EnqueueCreate, RowStep
    <3> QED
      BY <3>1, <3>2
  <2>3. CASE attempt' = attempt
    BY <2>3 DEF RowStep
  <2> QED
    BY <1>2, <2>1, <2>2, <2>3
       DEF EnqueueDraft, EnqueueRead, EnqueueExisting, EnqueueReadIdentity,
           EnqueueReadGates, EnqueueReserve, EnqueueMark
<1>3. ASSUME NEW r \in Recorders, RecordResult(r) PROVE RowStep(a)
  <2>1. CASE RecordAttempt(r)
    <3>1. record[r].outcome \in TerminalStatus
      BY <2>1 DEF RecordAttempt, TypeOK, RecordState, NoRecord, TerminalStatus
    <3> QED
      BY <1>0, <2>1, <3>1 DEF RecordAttempt, RowStep, Closed
  <2>2. CASE attempt' = attempt
    BY <2>2 DEF RowStep
  <2> QED
    BY <1>3, <2>1, <2>2
       DEF RecordResult, RecordRead, RecordPublishedAd, RecordCount,
           RecordCadence, RecordFailedAd, RecordChallengeAd,
           RecordChallengeIdentity
<1>4. ASSUME NEW x \in Expirers, ExpireStaleSubmissions(x) PROVE RowStep(a)
  <2>1. ASSUME NEW b \in Attempts, ExpireAttempt(x, b) PROVE RowStep(a)
    BY <1>0, <2>1
       DEF ExpireAttempt, RowStep, Closed, TerminalStatus, Outcome
  <2>2. CASE attempt' = attempt
    BY <2>2 DEF RowStep
  <2> QED
    BY <1>4, <2>1, <2>2 DEF ExpireStaleSubmissions, ExpireList, ExpireAd
<1>5. ASSUME attempt' = attempt PROVE RowStep(a)
  BY <1>5 DEF RowStep
<1>6. ASSUME NEW n \in Reconcilers, ReconcileIdentityCounts(n)
      PROVE  attempt' = attempt
  BY <1>6 DEF ReconcileIdentityCounts, ReconcileRead, ReconcileCount,
              ReconcileWrite, RefreshRead, RefreshVisit
<1>7. ASSUME Single PROVE attempt' = attempt
  BY <1>7 DEF Single, Pause, Reverify, WithdrawAd, RestoreAd, ReuseDraft, Tick,
              AdOnly
<1>8. ASSUME CrashHandler PROVE attempt' = attempt
  BY <1>8 DEF CrashHandler
<1>9. ASSUME UNCHANGED vars PROVE attempt' = attempt
  BY <1>9 DEF vars
<1> QED
  BY <1>1, <1>2, <1>3, <1>4, <1>5, <1>6, <1>7, <1>8, <1>9 DEF Next, Single

\* A row that exists keeps its ad and its slot.
LEMMA RowsStay ==
  ASSUME TypeOK, NEW a \in Attempts, RowStep(a), Exists(a)
  PROVE  /\ Exists(a)'
         /\ attempt'[a].ad = attempt[a].ad
         /\ attempt'[a].notBefore = attempt[a].notBefore
<1>0. attempt[a] \in AttemptRow
  BY DEF TypeOK
<1>1. CASE attempt'[a] = attempt[a]
  BY <1>1 DEF Exists
<1>2. CASE Created(a)
  BY <1>2 DEF Created
<1>3. CASE Closed(a)
  BY <1>0, <1>3 DEF Closed, Exists, TerminalStatus, Outcome, AttemptRow
<1>4. ASSUME NEW c \in Claimers, StartedBy(a, c)
      PROVE  /\ Exists(a)'
             /\ attempt'[a].ad = attempt[a].ad
             /\ attempt'[a].notBefore = attempt[a].notBefore
  BY <1>0, <1>4 DEF StartedBy, Exists, AttemptRow
<1> QED
  BY <1>1, <1>2, <1>3, <1>4 DEF RowStep

\* A step is a step of at most one claim request, or loses some.
LEMMA ClaimSteps ==
  ASSUME TypeOK, [Next]_vars, NEW c \in Claimers
  PROVE  \/ claim'[c] = claim[c]
         \/ claim'[c] = NoClaim
         \/ ClaimNext(c)
<1> USE DEF db, handlers
<1>0. claim \in [Claimers -> ClaimState]
  BY DEF TypeOK
<1>1. ASSUME NEW b \in Claimers, ClaimNext(b), b # c PROVE claim'[c] = claim[c]
  BY <1>0, <1>1
     DEF ClaimNext, ClaimList, ClaimSkip, ClaimPass, ClaimReadIdentity,
         ClaimReadGates, ClaimBlock, ClaimBlockAd, ClaimSubmit, ClaimSubmitAd
<1>2. ASSUME NEW e \in Enqueuers, EnqueueDraft(e) PROVE claim' = claim
  BY <1>2 DEF EnqueueDraft, EnqueueRead, EnqueueExisting, EnqueueReadIdentity,
              EnqueueReadGates, EnqueueReserve, EnqueueMark, EnqueueReject,
              EnqueueCreate, EnqueueUnchanged
<1>3. ASSUME NEW r \in Recorders, RecordResult(r) PROVE claim' = claim
  BY <1>3 DEF RecordResult, RecordRead, RecordAttempt, RecordPublishedAd,
              RecordCount, RecordCadence, RecordFailedAd, RecordChallengeAd,
              RecordChallengeIdentity, RecordUnchanged
<1>4. ASSUME NEW x \in Expirers, ExpireStaleSubmissions(x) PROVE claim' = claim
  BY <1>4 DEF ExpireStaleSubmissions, ExpireList, ExpireAttempt, ExpireAd,
              ExpireUnchanged
<1>5. ASSUME NEW n \in Reconcilers, ReconcileIdentityCounts(n)
      PROVE  claim' = claim
  BY <1>5 DEF ReconcileIdentityCounts, ReconcileRead, ReconcileCount,
              ReconcileWrite, RefreshRead, RefreshVisit, ReconcileUnchanged
<1>6. ASSUME Single PROVE claim' = claim
  BY <1>6 DEF Single, Pause, Reverify, WithdrawAd, RestoreAd, ReuseDraft, Tick,
              AdOnly
<1>7. ASSUME CrashHandler PROVE claim'[c] = claim[c] \/ claim'[c] = NoClaim
  BY <1>0, <1>7 DEF CrashHandler
<1>8. ASSUME UNCHANGED vars PROVE claim' = claim
  BY <1>8 DEF vars
<1> QED
  BY <1>1, <1>2, <1>3, <1>4, <1>5, <1>6, <1>7, <1>8 DEF Next, Single

LEMMA ClockSteps ==
  ASSUME TypeOK, [Next]_vars
  PROVE  clock \in Nat /\ clock' \in Nat /\ clock <= clock'
<1> USE DEF db, handlers
<1>0. clock \in Nat
  BY DEF TypeOK, Time
<1>1. ASSUME NEW c \in Claimers, ClaimNext(c) PROVE clock' = clock
  BY <1>1
     DEF ClaimNext, ClaimList, ClaimSkip, ClaimPass, ClaimReadIdentity,
         ClaimReadGates, ClaimBlock, ClaimBlockAd, ClaimSubmit, ClaimSubmitAd,
         ClaimUnchanged
<1>2. ASSUME NEW e \in Enqueuers, EnqueueDraft(e) PROVE clock' = clock
  BY <1>2 DEF EnqueueDraft, EnqueueRead, EnqueueExisting, EnqueueReadIdentity,
              EnqueueReadGates, EnqueueReserve, EnqueueMark, EnqueueReject,
              EnqueueCreate, EnqueueUnchanged
<1>3. ASSUME NEW r \in Recorders, RecordResult(r) PROVE clock' = clock
  BY <1>3 DEF RecordResult, RecordRead, RecordAttempt, RecordPublishedAd,
              RecordCount, RecordCadence, RecordFailedAd, RecordChallengeAd,
              RecordChallengeIdentity, RecordUnchanged
<1>4. ASSUME NEW x \in Expirers, ExpireStaleSubmissions(x) PROVE clock' = clock
  BY <1>4 DEF ExpireStaleSubmissions, ExpireList, ExpireAttempt, ExpireAd,
              ExpireUnchanged
<1>5. ASSUME NEW n \in Reconcilers, ReconcileIdentityCounts(n)
      PROVE  clock' = clock
  BY <1>5 DEF ReconcileIdentityCounts, ReconcileRead, ReconcileCount,
              ReconcileWrite, RefreshRead, RefreshVisit, ReconcileUnchanged
<1>6. ASSUME Single PROVE clock' = clock \/ clock' = clock + 1
  BY <1>6 DEF Single, Pause, Reverify, WithdrawAd, RestoreAd, ReuseDraft, Tick,
              AdOnly
<1>7. ASSUME CrashHandler PROVE clock' = clock
  BY <1>7 DEF CrashHandler
<1>8. ASSUME UNCHANGED vars PROVE clock' = clock
  BY <1>8 DEF vars
<1> QED
  BY <1>0, <1>1, <1>2, <1>3, <1>4, <1>5, <1>6, <1>7, <1>8 DEF Next, Single

-----------------------------------------------------------------------------
(***************************************************************************)
(* What a claim request knows of the attempts it holds.  The rows it read  *)
(* are real and due; and from the moment it saw no other `submitting`      *)
(* attempt of the identity, none that it started itself can appear: only   *)
(* other requests can start one in between.                                *)
(***************************************************************************)
Held == {"read", "gates", "block", "blockAd", "submit", "submitAd"}

KnowsRows(c) ==
  /\ \A a \in claim[c].todo : Exists(a) /\ attempt[a].notBefore <= clock
  /\ claim[c].pc \in Held =>
       /\ claim[c].current \in Attempts
       /\ Exists(claim[c].current)
       /\ attempt[claim[c].current].notBefore <= clock

SawNoneOfItsOwn(c) ==
  claim[c].pc \in {"read", "gates", "submit"} =>
    \A b \in Attempts \ {claim[c].current} :
      Submitting(b) /\ IdentityOf(b) = IdentityOf(claim[c].current)
        => attempt[b].worker # c

ClaimInv ==
  /\ TypeOK
  /\ \A c \in Claimers : KnowsRows(c)
  /\ \A c \in Claimers : SawNoneOfItsOwn(c)
  /\ \A a \in Attempts : Submitting(a) => attempt[a].worker \in Claimers
  /\ SerializedPerWorker
  /\ StartedInSlot

LEMMA InitClaimInv == Init => ClaimInv
BY InitTypeOK
   DEF Init, ClaimInv, KnowsRows, SawNoneOfItsOwn, NoClaim, Held, Submitting,
       Absent, SerializedPerWorker, StartedInSlot, NoTime

LEMMA KnowsRowsStep ==
  ASSUME ClaimInv, [Next]_vars, NEW c \in Claimers
  PROVE  KnowsRows(c)'
<1>0. TypeOK /\ KnowsRows(c)
  BY DEF ClaimInv
<1>1. ASSUME NEW a \in Attempts, Exists(a), attempt[a].notBefore <= clock
      PROVE  Exists(a)' /\ attempt'[a].notBefore <= clock'
  <2>1. attempt[a].notBefore \in Nat
    BY <1>0 DEF TypeOK, AttemptRow, Time
  <2> QED
    BY <1>0, <1>1, <2>1, RowSteps, RowsStay, ClockSteps
<1>2. claim[c] \in ClaimState
  BY <1>0 DEF TypeOK
<1>3. CASE claim'[c] = claim[c]
  BY <1>0, <1>1, <1>2, <1>3 DEF KnowsRows, ClaimState
<1>4. CASE claim'[c] = NoClaim
  BY <1>4 DEF KnowsRows, NoClaim, Held
<1>5. CASE ClaimNext(c)
  <2>0. claim \in [Claimers -> ClaimState]
    BY <1>0 DEF TypeOK
  <2>1. CASE ClaimList(c)
    BY <1>0, <2>0, <2>1
       DEF ClaimList, KnowsRows, NoClaim, Held, Candidates, Window, Due, Queued,
           Exists, db, ClaimUnchanged
  <2>2. ASSUME NEW a \in Attempts, ClaimSkip(c, a) PROVE KnowsRows(c)'
    BY <1>0, <1>1, <1>2, <2>0, <2>2
       DEF ClaimSkip, KnowsRows, NoClaim, Held, ClaimState
  <2>3. ASSUME NEW a \in Attempts, ClaimPass(c, a) PROVE KnowsRows(c)'
    BY <1>0, <1>1, <1>2, <2>0, <2>3
       DEF ClaimPass, IsFirst, KnowsRows, NoClaim, Held, ClaimState
  <2>4. CASE \/ ClaimReadIdentity(c) \/ ClaimReadGates(c) \/ ClaimBlock(c)
             \/ ClaimSubmit(c)
    <3>1. /\ claim'[c].todo = claim[c].todo
          /\ claim'[c].current = claim[c].current
          /\ claim[c].pc \in Held
      BY <1>2, <2>0, <2>4
         DEF ClaimReadIdentity, ClaimReadGates, ClaimBlock, ClaimSubmit,
             ClaimState, Held
    <3> QED
      BY <1>0, <1>1, <1>2, <3>1 DEF KnowsRows, ClaimState
  <2>5. CASE ClaimBlockAd(c) \/ ClaimSubmitAd(c)
    BY <1>4, <2>0, <2>5 DEF ClaimBlockAd, ClaimSubmitAd
  <2> QED
    BY <1>5, <2>1, <2>2, <2>3, <2>4, <2>5 DEF ClaimNext
<1> QED
  BY <1>0, <1>3, <1>4, <1>5, ClaimSteps

LEMMA SawNoneStep ==
  ASSUME ClaimInv, [Next]_vars, NEW c \in Claimers
  PROVE  SawNoneOfItsOwn(c)'
<1>0. /\ TypeOK /\ KnowsRows(c) /\ SawNoneOfItsOwn(c)
      /\ claim \in [Claimers -> ClaimState] /\ claim[c] \in ClaimState
      /\ attempt \in [Attempts -> AttemptRow]
  BY DEF ClaimInv, TypeOK
<1> DEFINE Clear == {"read", "gates", "submit"}
           k == claim[c].current
\* The request stays in the region with the attempt it holds: what it saw lasts.
<1>1. ASSUME claim[c].pc \in Clear, claim'[c].pc \in Clear,
             claim'[c].current = k
      PROVE  SawNoneOfItsOwn(c)'
  <2>1. /\ k \in Attempts
        /\ Exists(k)
        /\ attempt'[k].ad = attempt[k].ad
    BY <1>0, <1>1, RowSteps, RowsStay DEF KnowsRows, Held
  <2>2. SUFFICES ASSUME NEW b \in Attempts \ {k}, Submitting(b)',
                        Owner[attempt'[b].ad] = Owner[attempt'[k].ad]
                 PROVE  attempt'[b].worker # c
    BY <1>1 DEF SawNoneOfItsOwn, IdentityOf
  <2>3. CASE attempt'[b] = attempt[b]
    BY <1>0, <1>1, <2>1, <2>2, <2>3 DEF SawNoneOfItsOwn, Submitting, IdentityOf
  <2>4. CASE Created(b) \/ Closed(b)
    BY <1>0, <2>2, <2>4
       DEF Created, Closed, Submitting, TerminalStatus, Outcome, AttemptRow
  <2>5. ASSUME NEW d \in Claimers, StartedBy(b, d) PROVE attempt'[b].worker # c
    BY <1>0, <1>1, <2>5 DEF StartedBy, AttemptRow
  <2> QED
    BY <1>0, <2>3, <2>4, <2>5, RowSteps DEF RowStep
<1>2. CASE claim'[c] = claim[c]
  BY <1>1, <1>2 DEF SawNoneOfItsOwn
<1>3. CASE claim'[c] = NoClaim
  BY <1>3 DEF SawNoneOfItsOwn, NoClaim
<1>4. CASE ClaimNext(c)
  <2>1. ASSUME NEW a \in Attempts, ClaimPass(c, a) PROVE SawNoneOfItsOwn(c)'
    <3>1. /\ ~Busy(a)
          /\ claim'[c].current = a
          /\ attempt' = attempt
      BY <1>0, <2>1 DEF ClaimPass, NoClaim, db
    <3> QED
      BY <3>1 DEF SawNoneOfItsOwn, Busy, Submitting, IdentityOf
  <2>2. ASSUME NEW a \in Attempts, ClaimSkip(c, a) PROVE SawNoneOfItsOwn(c)'
    <3> DEFINE s == [claim[c] EXCEPT !.todo = claim[c].todo \ {a}]
    <3>1. claim'[c] = NoClaim \/ claim'[c] = s
      BY <1>0, <2>2 DEF ClaimSkip
    <3>2. s.pc = "check" /\ NoClaim.pc = "idle"
      BY <1>0, <2>2 DEF ClaimSkip, ClaimState, NoClaim
    <3> HIDE DEF s
    <3> QED
      BY <3>1, <3>2 DEF SawNoneOfItsOwn
  <2>4. CASE ClaimList(c)
    <3>1. claim'[c].pc = "check"
      BY <1>0, <2>4 DEF ClaimList, NoClaim
    <3> QED
      BY <3>1 DEF SawNoneOfItsOwn
  <2>5. CASE ClaimBlock(c) \/ ClaimBlockAd(c) \/ ClaimSubmit(c) \/ ClaimSubmitAd(c)
    <3>1. claim'[c].pc \in {"blockAd", "submitAd", "idle"}
      BY <1>0, <2>5
         DEF ClaimBlock, ClaimBlockAd, ClaimSubmit, ClaimSubmitAd, NoClaim,
             ClaimState
    <3> QED
      BY <3>1 DEF SawNoneOfItsOwn
  <2>3. CASE ClaimReadIdentity(c) \/ ClaimReadGates(c)
    <3>1. claim'[c].current = k /\ claim[c].pc \in Clear
      BY <1>0, <2>3 DEF ClaimReadIdentity, ClaimReadGates, ClaimState
    <3> QED
      BY <1>1, <3>1 DEF SawNoneOfItsOwn
  <2> QED
    BY <1>4, <2>1, <2>2, <2>3, <2>4, <2>5 DEF ClaimNext
<1> QED
  BY <1>0, <1>2, <1>3, <1>4, ClaimSteps

LEMMA WorkerStep ==
  ASSUME ClaimInv, [Next]_vars, NEW a \in Attempts, Submitting(a)'
  PROVE  attempt'[a].worker \in Claimers
<1>0. /\ TypeOK /\ attempt[a] \in AttemptRow
      /\ Submitting(a) => attempt[a].worker \in Claimers
  BY DEF ClaimInv, TypeOK
<1>1. CASE attempt'[a] = attempt[a]
  BY <1>0, <1>1 DEF Submitting
<1>2. CASE Created(a) \/ Closed(a)
  BY <1>0, <1>2
     DEF Created, Closed, Submitting, TerminalStatus, Outcome, AttemptRow
<1>3. ASSUME NEW c \in Claimers, StartedBy(a, c)
      PROVE  attempt'[a].worker \in Claimers
  BY <1>0, <1>3 DEF StartedBy, AttemptRow
<1> QED
  BY <1>0, <1>1, <1>2, <1>3, RowSteps DEF RowStep

\* A row in `submitting` after a step was so before it, or the step started it.
LEMMA StartOrStay ==
  ASSUME TypeOK, [Next]_vars, NEW a \in Attempts, Submitting(a)'
  PROVE  \/ attempt'[a] = attempt[a]
         \/ \E c \in Claimers : StartedBy(a, c)
<1>0. attempt[a] \in AttemptRow
  BY DEF TypeOK
<1>1. ~(Created(a) \/ Closed(a))
  BY <1>0 DEF Created, Closed, Submitting, TerminalStatus, Outcome, AttemptRow
<1> QED
  BY <1>1, RowSteps DEF RowStep

LEMMA SerializedStep ==
  ASSUME ClaimInv, [Next]_vars
  PROVE  SerializedPerWorker'
<1>0. /\ TypeOK /\ SerializedPerWorker
      /\ attempt \in [Attempts -> AttemptRow]
  BY DEF ClaimInv, TypeOK
<1> SUFFICES ASSUME NEW a \in Attempts, NEW b \in Attempts, a # b,
                    Submitting(a)', Submitting(b)',
                    Owner[attempt'[a].ad] = Owner[attempt'[b].ad]
             PROVE  attempt'[a].worker # attempt'[b].worker
  BY DEF SerializedPerWorker, SameIdentity, IdentityOf
<1>1. CASE attempt'[a] = attempt[a] /\ attempt'[b] = attempt[b]
  BY <1>0, <1>1
     DEF SerializedPerWorker, SameIdentity, IdentityOf, Submitting, Exists
<1>2. ASSUME NEW m \in Attempts, NEW n \in Attempts, m # n, Submitting(n)',
             Owner[attempt'[m].ad] = Owner[attempt'[n].ad],
             NEW c \in Claimers, StartedBy(m, c), attempt'[n] = attempt[n]
      PROVE  attempt'[m].worker # attempt'[n].worker
  <2>1. attempt'[m].worker = c /\ attempt'[m].ad = attempt[m].ad
    BY <1>0, <1>2 DEF StartedBy, AttemptRow
  <2>2. SawNoneOfItsOwn(c) /\ claim[c].pc = "submit" /\ claim[c].current = m
    BY <1>2 DEF ClaimInv, StartedBy
  <2>3. Submitting(n) /\ IdentityOf(n) = IdentityOf(m)
    BY <1>2, <2>1 DEF Submitting, IdentityOf
  <2> QED
    BY <1>2, <2>1, <2>2, <2>3 DEF SawNoneOfItsOwn
<1>3. ASSUME NEW c \in Claimers, NEW d \in Claimers, StartedBy(a, c), StartedBy(b, d)
      PROVE  attempt'[a].worker # attempt'[b].worker
  BY <1>0, <1>3 DEF StartedBy, AttemptRow
<1> QED
  BY <1>0, <1>1, <1>2, <1>3, StartOrStay

LEMMA StartedInSlotStep ==
  ASSUME ClaimInv, [Next]_vars
  PROVE  StartedInSlot'
<1>0. /\ TypeOK /\ StartedInSlot
      /\ attempt \in [Attempts -> AttemptRow]
  BY DEF ClaimInv, TypeOK
<1> SUFFICES ASSUME NEW a \in Attempts, attempt'[a].startedAt # NoTime
             PROVE  attempt'[a].notBefore <= attempt'[a].startedAt
  BY DEF StartedInSlot
<1>1. CASE attempt'[a] = attempt[a]
  BY <1>0, <1>1 DEF StartedInSlot
<1>2. CASE Created(a)
  BY <1>2 DEF Created
<1>3. CASE Closed(a)
  BY <1>0, <1>3 DEF Closed, StartedInSlot, AttemptRow
<1>4. ASSUME NEW c \in Claimers, StartedBy(a, c)
      PROVE  attempt'[a].notBefore <= attempt'[a].startedAt
  <2>1. KnowsRows(c)
    BY DEF ClaimInv
  <2> QED
    BY <1>0, <1>4, <2>1 DEF StartedBy, KnowsRows, Held, AttemptRow
<1> QED
  BY <1>0, <1>1, <1>2, <1>3, <1>4, RowSteps DEF RowStep

LEMMA NextClaimInv == ClaimInv /\ [Next]_vars => ClaimInv'
<1> SUFFICES ASSUME ClaimInv, [Next]_vars PROVE ClaimInv'
  OBVIOUS
<1>1. TypeOK'
  BY NextTypeOK DEF ClaimInv
<1>2. \A c \in Claimers : KnowsRows(c)'
  BY KnowsRowsStep
<1>3. \A c \in Claimers : SawNoneOfItsOwn(c)'
  BY SawNoneStep
<1>4. \A a \in Attempts : Submitting(a)' => attempt'[a].worker \in Claimers
  BY WorkerStep
<1>5. SerializedPerWorker' /\ StartedInSlot'
  BY SerializedStep, StartedInSlotStep
<1> QED
  BY <1>1, <1>2, <1>3, <1>4, <1>5 DEF ClaimInv

LEMMA ClaimInvariant == Spec => []ClaimInv
BY InitClaimInv, NextClaimInv, PTL DEF Spec

\* However many requests overlap, are lost or report late, two attempts of one
\* identity are `submitting` together only if two different claimNext requests
\* started them: "isIdentityBusy" (bazos-publisher-queue.service.ts:132) fails
\* only through an overlap of claimNext with itself.
THEOREM Serialized == Spec => []SerializedPerWorker
<1>1. ClaimInv => SerializedPerWorker
  BY DEF ClaimInv
<1> QED
  BY <1>1, ClaimInvariant, PTL

\* A submission never starts before the notBefore that enqueueDraft reserved
\* for it, whatever happened between the claim's query and its write.
THEOREM InSlot == Spec => []StartedInSlot
<1>1. ClaimInv => StartedInSlot
  BY DEF ClaimInv
<1> QED
  BY <1>1, ClaimInvariant, PTL

\* With a single worker, "Workers must serialize publish attempts per identity"
\* (docs/BAZOS_COMPLIANCE.md:51) holds: at most one attempt of an identity is
\* `submitting`, although enqueues, results, expiries, recounts and withdrawals
\* overlap with the claims and with each other.
THEOREM OneWorkerSerializes ==
  ASSUME \A c, d \in Claimers : c = d
  PROVE  Spec => []AtMostOneSubmitting
<1>1. ClaimInv => AtMostOneSubmitting
  <2> SUFFICES ASSUME ClaimInv, NEW a \in Attempts, NEW b \in Attempts,
                      Submitting(a), Submitting(b), SameIdentity(a, b), a # b
               PROVE  FALSE
    BY DEF AtMostOneSubmitting
  <2>1. attempt[a].worker \in Claimers /\ attempt[b].worker \in Claimers
    BY DEF ClaimInv
  <2>2. attempt[a].worker # attempt[b].worker
    BY DEF ClaimInv, SerializedPerWorker
  <2> QED
    BY <2>1, <2>2
<1> QED
  BY <1>1, ClaimInvariant, PTL

-----------------------------------------------------------------------------
(***************************************************************************)
(* The life cycle of attempts, with one worker, one enqueue request at a   *)
(* time and results for claimed attempts only: a draft has at most one     *)
(* open attempt, and the queue implements AttemptLifecycle.                *)
(***************************************************************************)

\* The assumption: two claims or two enqueues never overlap.  Every other
\* request may overlap with them and with others of its kind.
OneOfEach ==
  /\ \A c, d \in Claimers : c = d
  /\ \A e, f \in Enqueuers : e = f
  /\ ~UnclaimedResults

\* The steps that write an attempt row.
LEMMA AttemptWrites ==
  ASSUME [Next]_vars
  PROVE  \/ attempt' = attempt
         \/ \E e \in Enqueuers, b \in Attempts :
              EnqueueReject(e, b) \/ EnqueueCreate(e, b)
         \/ \E c \in Claimers : ClaimBlock(c) \/ ClaimSubmit(c)
         \/ \E r \in Recorders : RecordAttempt(r)
         \/ \E x \in Expirers, b \in Attempts : ExpireAttempt(x, b)
<1> USE DEF db, handlers
<1>1. ASSUME NEW c \in Claimers, ClaimNext(c), ~ClaimBlock(c), ~ClaimSubmit(c)
      PROVE  attempt' = attempt
  BY <1>1 DEF ClaimNext, ClaimList, ClaimSkip, ClaimPass, ClaimReadIdentity,
              ClaimReadGates, ClaimBlockAd, ClaimSubmitAd
<1>2. ASSUME NEW e \in Enqueuers, EnqueueDraft(e),
             ~\E b \in Attempts : EnqueueReject(e, b) \/ EnqueueCreate(e, b)
      PROVE  attempt' = attempt
  BY <1>2 DEF EnqueueDraft, EnqueueRead, EnqueueExisting, EnqueueReadIdentity,
              EnqueueReadGates, EnqueueReserve, EnqueueMark
<1>3. ASSUME NEW r \in Recorders, RecordResult(r), ~RecordAttempt(r)
      PROVE  attempt' = attempt
  BY <1>3 DEF RecordResult, RecordRead, RecordPublishedAd, RecordCount,
              RecordCadence, RecordFailedAd, RecordChallengeAd,
              RecordChallengeIdentity
<1>4. ASSUME NEW x \in Expirers, ExpireStaleSubmissions(x),
             ~\E b \in Attempts : ExpireAttempt(x, b)
      PROVE  attempt' = attempt
  BY <1>4 DEF ExpireStaleSubmissions, ExpireList, ExpireAd
<1>5. ASSUME NEW n \in Reconcilers, ReconcileIdentityCounts(n)
      PROVE  attempt' = attempt
  BY <1>5 DEF ReconcileIdentityCounts, ReconcileRead, ReconcileCount,
              ReconcileWrite, RefreshRead, RefreshVisit
<1>6. ASSUME Single PROVE attempt' = attempt
  BY <1>6 DEF Single, Pause, Reverify, WithdrawAd, RestoreAd, ReuseDraft, Tick,
              AdOnly
<1>7. ASSUME CrashHandler PROVE attempt' = attempt
  BY <1>7 DEF CrashHandler
<1>8. ASSUME UNCHANGED vars PROVE attempt' = attempt
  BY <1>8 DEF vars
<1> QED
  BY <1>1, <1>2, <1>3, <1>4, <1>5, <1>6, <1>7, <1>8 DEF Next, Single

\* What the other requests can do to the local state of an enqueue, a result
\* and an expiry request: nothing, or lose it.
LEMMA EnqueueSteps ==
  ASSUME TypeOK, [Next]_vars, NEW e \in Enqueuers
  PROVE  \/ enqueue'[e] = enqueue[e]
         \/ enqueue'[e] = NoEnqueue
         \/ EnqueueDraft(e)
<1> USE DEF db, handlers
<1>0. enqueue \in [Enqueuers -> EnqueueState]
  BY DEF TypeOK
<1>1. ASSUME NEW f \in Enqueuers, EnqueueDraft(f), f # e
      PROVE  enqueue'[e] = enqueue[e]
  BY <1>0, <1>1
     DEF EnqueueDraft, EnqueueRead, EnqueueExisting, EnqueueReadIdentity,
         EnqueueReadGates, EnqueueReserve, EnqueueMark, EnqueueReject,
         EnqueueCreate
<1>2. ASSUME NEW c \in Claimers, ClaimNext(c) PROVE enqueue' = enqueue
  BY <1>2 DEF ClaimNext, ClaimList, ClaimSkip, ClaimPass, ClaimReadIdentity,
              ClaimReadGates, ClaimBlock, ClaimBlockAd, ClaimSubmit,
              ClaimSubmitAd, ClaimUnchanged
<1>3. ASSUME NEW r \in Recorders, RecordResult(r) PROVE enqueue' = enqueue
  BY <1>3 DEF RecordResult, RecordRead, RecordAttempt, RecordPublishedAd,
              RecordCount, RecordCadence, RecordFailedAd, RecordChallengeAd,
              RecordChallengeIdentity, RecordUnchanged
<1>4. ASSUME NEW x \in Expirers, ExpireStaleSubmissions(x)
      PROVE  enqueue' = enqueue
  BY <1>4 DEF ExpireStaleSubmissions, ExpireList, ExpireAttempt, ExpireAd,
              ExpireUnchanged
<1>5. ASSUME NEW n \in Reconcilers, ReconcileIdentityCounts(n)
      PROVE  enqueue' = enqueue
  BY <1>5 DEF ReconcileIdentityCounts, ReconcileRead, ReconcileCount,
              ReconcileWrite, RefreshRead, RefreshVisit, ReconcileUnchanged
<1>6. ASSUME Single PROVE enqueue' = enqueue
  BY <1>6 DEF Single, Pause, Reverify, WithdrawAd, RestoreAd, ReuseDraft, Tick,
              AdOnly
<1>7. ASSUME CrashHandler
      PROVE  enqueue'[e] = enqueue[e] \/ enqueue'[e] = NoEnqueue
  BY <1>0, <1>7 DEF CrashHandler
<1>8. ASSUME UNCHANGED vars PROVE enqueue' = enqueue
  BY <1>8 DEF vars
<1> QED
  BY <1>1, <1>2, <1>3, <1>4, <1>5, <1>6, <1>7, <1>8 DEF Next, Single

LEMMA RecordSteps ==
  ASSUME TypeOK, [Next]_vars, NEW r \in Recorders
  PROVE  \/ record'[r] = record[r]
         \/ record'[r] = NoRecord
         \/ RecordResult(r)
<1> USE DEF db, handlers
<1>0. record \in [Recorders -> RecordState]
  BY DEF TypeOK
<1>1. ASSUME NEW q \in Recorders, RecordResult(q), q # r
      PROVE  record'[r] = record[r]
  BY <1>0, <1>1
     DEF RecordResult, RecordRead, RecordAttempt, RecordPublishedAd,
         RecordCount, RecordCadence, RecordFailedAd, RecordChallengeAd,
         RecordChallengeIdentity
<1>2. ASSUME NEW c \in Claimers, ClaimNext(c) PROVE record' = record
  BY <1>2 DEF ClaimNext, ClaimList, ClaimSkip, ClaimPass, ClaimReadIdentity,
              ClaimReadGates, ClaimBlock, ClaimBlockAd, ClaimSubmit,
              ClaimSubmitAd, ClaimUnchanged
<1>3. ASSUME NEW e \in Enqueuers, EnqueueDraft(e) PROVE record' = record
  BY <1>3 DEF EnqueueDraft, EnqueueRead, EnqueueExisting, EnqueueReadIdentity,
              EnqueueReadGates, EnqueueReserve, EnqueueMark, EnqueueReject,
              EnqueueCreate, EnqueueUnchanged
<1>4. ASSUME NEW x \in Expirers, ExpireStaleSubmissions(x)
      PROVE  record' = record
  BY <1>4 DEF ExpireStaleSubmissions, ExpireList, ExpireAttempt, ExpireAd,
              ExpireUnchanged
<1>5. ASSUME NEW n \in Reconcilers, ReconcileIdentityCounts(n)
      PROVE  record' = record
  BY <1>5 DEF ReconcileIdentityCounts, ReconcileRead, ReconcileCount,
              ReconcileWrite, RefreshRead, RefreshVisit, ReconcileUnchanged
<1>6. ASSUME Single PROVE record' = record
  BY <1>6 DEF Single, Pause, Reverify, WithdrawAd, RestoreAd, ReuseDraft, Tick,
              AdOnly
<1>7. ASSUME CrashHandler
      PROVE  record'[r] = record[r] \/ record'[r] = NoRecord
  BY <1>0, <1>7 DEF CrashHandler
<1>8. ASSUME UNCHANGED vars PROVE record' = record
  BY <1>8 DEF vars
<1> QED
  BY <1>1, <1>2, <1>3, <1>4, <1>5, <1>6, <1>7, <1>8 DEF Next, Single

LEMMA ExpireSteps ==
  ASSUME TypeOK, [Next]_vars, NEW x \in Expirers
  PROVE  \/ expire'[x] = expire[x]
         \/ expire'[x] = NoExpire
         \/ ExpireStaleSubmissions(x)
<1> USE DEF db, handlers
<1>0. expire \in [Expirers -> ExpireState]
  BY DEF TypeOK
<1>1. ASSUME NEW y \in Expirers, ExpireStaleSubmissions(y), y # x
      PROVE  expire'[x] = expire[x]
  BY <1>0, <1>1
     DEF ExpireStaleSubmissions, ExpireList, ExpireAttempt, ExpireAd
<1>2. ASSUME NEW c \in Claimers, ClaimNext(c) PROVE expire' = expire
  BY <1>2 DEF ClaimNext, ClaimList, ClaimSkip, ClaimPass, ClaimReadIdentity,
              ClaimReadGates, ClaimBlock, ClaimBlockAd, ClaimSubmit,
              ClaimSubmitAd, ClaimUnchanged
<1>3. ASSUME NEW e \in Enqueuers, EnqueueDraft(e) PROVE expire' = expire
  BY <1>3 DEF EnqueueDraft, EnqueueRead, EnqueueExisting, EnqueueReadIdentity,
              EnqueueReadGates, EnqueueReserve, EnqueueMark, EnqueueReject,
              EnqueueCreate, EnqueueUnchanged
<1>4. ASSUME NEW r \in Recorders, RecordResult(r) PROVE expire' = expire
  BY <1>4 DEF RecordResult, RecordRead, RecordAttempt, RecordPublishedAd,
              RecordCount, RecordCadence, RecordFailedAd, RecordChallengeAd,
              RecordChallengeIdentity, RecordUnchanged
<1>5. ASSUME NEW n \in Reconcilers, ReconcileIdentityCounts(n)
      PROVE  expire' = expire
  BY <1>5 DEF ReconcileIdentityCounts, ReconcileRead, ReconcileCount,
              ReconcileWrite, RefreshRead, RefreshVisit, ReconcileUnchanged
<1>6. ASSUME Single PROVE expire' = expire
  BY <1>6 DEF Single, Pause, Reverify, WithdrawAd, RestoreAd, ReuseDraft, Tick,
              AdOnly
<1>7. ASSUME CrashHandler
      PROVE  expire'[x] = expire[x] \/ expire'[x] = NoExpire
  BY <1>0, <1>7 DEF CrashHandler
<1>8. ASSUME UNCHANGED vars PROVE expire' = expire
  BY <1>8 DEF vars
<1> QED
  BY <1>1, <1>2, <1>3, <1>4, <1>5, <1>6, <1>7, <1>8 DEF Next, Single

-----------------------------------------------------------------------------
(***************************************************************************)
(* The invariant.  A claim holds attempts that are still queued: nobody    *)
(* else takes an attempt out of the queue.  Results and expiries hold      *)
(* attempts that were started, and those never return to the queue.  An    *)
(* enqueue past its check knows that its draft has no open attempt: only   *)
(* an enqueue opens one.                                                   *)
(***************************************************************************)
WasStarted(a) == attempt[a].status \in {"submitting"} \cup Outcome

HoldsQueued(c) ==
  /\ claim[c].pc = "check" => \A a \in claim[c].todo : Queued(a)
  /\ claim[c].pc \in {"read", "gates", "block", "submit"} =>
       claim[c].current \in Attempts /\ Queued(claim[c].current)

HoldStarted ==
  /\ \A r \in Recorders :
       record[r].pc = "attempt" => WasStarted(record[r].attempt)
  /\ \A x \in Expirers : \A a \in expire[x].todo : WasStarted(a)

Checked == {"read", "gates", "reject", "reserve", "create"}

KnowsDraft(e) ==
  /\ enqueue[e].pc # "idle" => enqueue[e].ad \in Ads
  /\ enqueue[e].pc \in Checked => ~HasOpenAttempt(enqueue[e].ad)

LifecycleInv ==
  /\ ClaimInv
  /\ \A c \in Claimers : HoldsQueued(c)
  /\ HoldStarted
  /\ \A e \in Enqueuers : KnowsDraft(e)
  /\ OneOpenAttemptPerAd

LEMMA InitLifecycleInv == Init => LifecycleInv
BY InitClaimInv
   DEF LifecycleInv, Init, HoldsQueued, HoldStarted, KnowsDraft, NoClaim,
       NoEnqueue, NoRecord, NoExpire, OneOpenAttemptPerAd, Open, OpenStatus,
       Absent, Checked

\* An attempt leaves the queue only by the claim that holds it.
LEMMA QueuedStays ==
  ASSUME LifecycleInv, [Next]_vars, NEW a \in Attempts, Queued(a)
  PROVE  \/ attempt'[a] = attempt[a]
         \/ \E c \in Claimers : /\ claim[c].current = a
                                /\ ClaimBlock(c) \/ ClaimSubmit(c)
<1>0. /\ TypeOK /\ HoldStarted
      /\ attempt \in [Attempts -> AttemptRow]
  BY DEF LifecycleInv, ClaimInv, TypeOK
<1>1. ASSUME NEW b \in Attempts, NEW e \in Enqueuers,
             EnqueueReject(e, b) \/ EnqueueCreate(e, b)
      PROVE  attempt'[a] = attempt[a]
  BY <1>0, <1>1 DEF EnqueueReject, EnqueueCreate, NextRow, Exists, Queued
<1>2. ASSUME NEW c \in Claimers, ClaimBlock(c) \/ ClaimSubmit(c),
             claim[c].current # a
      PROVE  attempt'[a] = attempt[a]
  BY <1>0, <1>2 DEF ClaimBlock, ClaimSubmit
<1>3. ASSUME NEW r \in Recorders, RecordAttempt(r)
      PROVE  attempt'[a] = attempt[a]
  BY <1>0, <1>3
     DEF RecordAttempt, HoldStarted, WasStarted, Queued, Outcome
<1>4. ASSUME NEW x \in Expirers, NEW b \in Attempts, ExpireAttempt(x, b)
      PROVE  attempt'[a] = attempt[a]
  BY <1>0, <1>4
     DEF ExpireAttempt, HoldStarted, WasStarted, Queued, Outcome
<1> QED
  BY <1>1, <1>2, <1>3, <1>4, AttemptWrites

\* A started attempt is running or has an outcome, for ever.
LEMMA StartedStays ==
  ASSUME LifecycleInv, [Next]_vars, NEW a \in Attempts, WasStarted(a)
  PROVE  WasStarted(a)'
<1>0. /\ TypeOK /\ HoldStarted
      /\ attempt \in [Attempts -> AttemptRow] /\ attempt[a] \in AttemptRow
      /\ \A c \in Claimers : HoldsQueued(c)
  BY DEF LifecycleInv, ClaimInv, TypeOK
<1>1. ASSUME NEW b \in Attempts, NEW e \in Enqueuers,
             EnqueueReject(e, b) \/ EnqueueCreate(e, b)
      PROVE  attempt'[a] = attempt[a]
  BY <1>0, <1>1
     DEF EnqueueReject, EnqueueCreate, NextRow, Exists, WasStarted, Outcome
<1>2. ASSUME NEW c \in Claimers, ClaimBlock(c) \/ ClaimSubmit(c)
      PROVE  attempt'[a] = attempt[a]
  <2>1. Queued(claim[c].current)
    BY <1>0, <1>2 DEF HoldsQueued, ClaimBlock, ClaimSubmit
  <2>2. claim[c].current # a
    BY <2>1 DEF WasStarted, Queued, Outcome
  <2> QED
    BY <1>0, <1>2, <2>2 DEF ClaimBlock, ClaimSubmit
<1>3. ASSUME NEW r \in Recorders, RecordAttempt(r) PROVE WasStarted(a)'
  <2>1. record[r].outcome \in Outcome
    BY <1>0, <1>3 DEF RecordAttempt, TypeOK, RecordState, NoRecord
  <2> QED
    BY <1>0, <1>3, <2>1 DEF RecordAttempt, WasStarted, AttemptRow
<1>4. ASSUME NEW x \in Expirers, NEW b \in Attempts, ExpireAttempt(x, b)
      PROVE  WasStarted(a)'
  BY <1>0, <1>4 DEF ExpireAttempt, WasStarted, Outcome, AttemptRow
<1> QED
  BY <1>1, <1>2, <1>3, <1>4, AttemptWrites DEF WasStarted

\* Only a finished enqueue opens an attempt.
LEMMA OpenedBy ==
  ASSUME LifecycleInv, [Next]_vars, NEW a \in Attempts, Open(a)'
  PROVE  \/ Open(a) /\ attempt'[a].ad = attempt[a].ad
         \/ \E e \in Enqueuers : EnqueueCreate(e, a)
<1>0. /\ TypeOK /\ HoldStarted
      /\ attempt \in [Attempts -> AttemptRow] /\ attempt[a] \in AttemptRow
      /\ \A c \in Claimers : HoldsQueued(c)
  BY DEF LifecycleInv, ClaimInv, TypeOK
<1>1. ASSUME NEW b \in Attempts, NEW e \in Enqueuers, EnqueueReject(e, b)
      PROVE  Open(a) /\ attempt'[a].ad = attempt[a].ad
  BY <1>0, <1>1 DEF EnqueueReject, Open, OpenStatus, Absent
<1>2. ASSUME NEW b \in Attempts, NEW e \in Enqueuers, EnqueueCreate(e, b), b # a
      PROVE  Open(a) /\ attempt'[a].ad = attempt[a].ad
  BY <1>0, <1>2 DEF EnqueueCreate, Open
<1>3. ASSUME NEW c \in Claimers, ClaimBlock(c) \/ ClaimSubmit(c)
      PROVE  Open(a) /\ attempt'[a].ad = attempt[a].ad
  <2>1. Queued(claim[c].current)
    BY <1>0, <1>3 DEF HoldsQueued, ClaimBlock, ClaimSubmit
  <2> QED
    BY <1>0, <1>3, <2>1
       DEF ClaimBlock, ClaimSubmit, Open, OpenStatus, Queued, AttemptRow
<1>4. ASSUME NEW r \in Recorders, RecordAttempt(r)
      PROVE  Open(a) /\ attempt'[a].ad = attempt[a].ad
  <2>1. record[r].outcome \in Outcome
    BY <1>0, <1>4 DEF RecordAttempt, TypeOK, RecordState, NoRecord
  <2> QED
    BY <1>0, <1>4, <2>1
       DEF RecordAttempt, Open, OpenStatus, Outcome, AttemptRow
<1>5. ASSUME NEW x \in Expirers, NEW b \in Attempts, ExpireAttempt(x, b)
      PROVE  Open(a) /\ attempt'[a].ad = attempt[a].ad
  BY <1>0, <1>5 DEF ExpireAttempt, Open, OpenStatus, AttemptRow
<1> QED
  BY <1>1, <1>2, <1>3, <1>4, <1>5, AttemptWrites DEF Open

LEMMA HoldsQueuedStep ==
  ASSUME OneOfEach, LifecycleInv, [Next]_vars, NEW c \in Claimers
  PROVE  HoldsQueued(c)'
<1>0. /\ TypeOK /\ HoldsQueued(c)
      /\ claim \in [Claimers -> ClaimState] /\ claim[c] \in ClaimState
  BY DEF LifecycleInv, ClaimInv, TypeOK
\* While this claim writes no attempt, what it holds stays queued.
<1>1. ASSUME NEW a \in Attempts, Queued(a), ~ClaimBlock(c), ~ClaimSubmit(c)
      PROVE  Queued(a)'
  <2>1. attempt'[a] = attempt[a]
    BY <1>1, QueuedStays DEF OneOfEach
  <2> QED
    BY <1>1, <2>1 DEF Queued
<1>2. CASE claim'[c] = claim[c]
  <2>1. ~ClaimBlock(c) /\ ~ClaimSubmit(c)
    BY <1>0, <1>2 DEF ClaimBlock, ClaimSubmit, ClaimState
  <2> QED
    BY <1>0, <1>1, <1>2, <2>1 DEF HoldsQueued, ClaimState
<1>3. CASE claim'[c] = NoClaim
  BY <1>3 DEF HoldsQueued, NoClaim
<1>4. CASE ClaimList(c)
  BY <1>0, <1>4
     DEF ClaimList, HoldsQueued, NoClaim, Candidates, Window, Due, Queued, db
<1>5. ASSUME NEW a \in Attempts, ClaimSkip(c, a), claim'[c] # NoClaim
      PROVE  HoldsQueued(c)'
  <2> DEFINE rest == claim[c].todo \ {a}
             s == [claim[c] EXCEPT !.todo = rest]
  <2>1. claim'[c] = s /\ attempt' = attempt
    BY <1>0, <1>5 DEF ClaimSkip, db
  <2>2. s.pc = "check" /\ s.todo \subseteq claim[c].todo
    BY <1>0, <1>5 DEF ClaimSkip, ClaimState
  <2>3. claim[c].pc = "check"
    BY <1>5 DEF ClaimSkip
  <2> HIDE DEF s
  <2> QED
    BY <1>0, <2>1, <2>2, <2>3 DEF HoldsQueued, Queued
<1>6. ASSUME NEW a \in Attempts, ClaimPass(c, a) PROVE HoldsQueued(c)'
  BY <1>0, <1>6 DEF ClaimPass, IsFirst, HoldsQueued, NoClaim, Queued, db
<1>7. CASE ClaimReadIdentity(c) \/ ClaimReadGates(c)
  <2>1. /\ claim'[c].pc \in {"gates", "block", "submit"}
        /\ claim'[c].current = claim[c].current
        /\ claim[c].pc \in {"read", "gates"}
        /\ attempt' = attempt
    BY <1>0, <1>7 DEF ClaimReadIdentity, ClaimReadGates, ClaimState, db
  <2> QED
    BY <1>0, <2>1 DEF HoldsQueued, Queued
<1>8. CASE ClaimBlock(c) \/ ClaimSubmit(c)
  <2>1. claim'[c].pc \in {"blockAd", "submitAd"}
    BY <1>0, <1>8 DEF ClaimBlock, ClaimSubmit, ClaimState
  <2> QED
    BY <2>1 DEF HoldsQueued
<1>9. CASE ClaimBlockAd(c) \/ ClaimSubmitAd(c)
  BY <1>0, <1>3, <1>9 DEF ClaimBlockAd, ClaimSubmitAd
<1> QED
  BY <1>0, <1>2, <1>3, <1>4, <1>5, <1>6, <1>7, <1>8, <1>9, ClaimSteps
     DEF ClaimNext

LEMMA HoldStartedStep ==
  ASSUME OneOfEach, LifecycleInv, [Next]_vars
  PROVE  HoldStarted'
<1>0. /\ TypeOK /\ HoldStarted
      /\ record \in [Recorders -> RecordState]
      /\ expire \in [Expirers -> ExpireState]
  BY DEF LifecycleInv, ClaimInv, TypeOK
<1> USE DEF db
<1>1. ASSUME NEW r \in Recorders, record'[r].pc = "attempt"
      PROVE  WasStarted(record[r].attempt)'
  <2>0. record[r] \in RecordState
    BY <1>0
  <2>1. CASE record'[r] = record[r]
    <3>1. record[r].attempt \in Attempts
      BY <1>1, <2>0, <2>1 DEF RecordState, NoRecord
    <3> QED
      BY <1>0, <1>1, <2>1, <3>1, StartedStays DEF HoldStarted, WasStarted
  <2>2. CASE record'[r] = NoRecord
    BY <1>1, <2>2 DEF NoRecord
  <2>3. ASSUME NEW a \in Attempts, NEW outcome \in Outcome,
               RecordRead(r, a, outcome)
        PROVE  WasStarted(record[r].attempt)'
    BY <1>0, <2>3 DEF RecordRead, OneOfEach, Submitting, WasStarted
  <2>4. CASE \/ RecordAttempt(r) \/ RecordPublishedAd(r) \/ RecordCount(r)
             \/ RecordCadence(r) \/ RecordFailedAd(r) \/ RecordChallengeAd(r)
             \/ RecordChallengeIdentity(r)
    <3>1. record[r] # NoRecord
      BY <2>4 DEF NoRecord, RecordAttempt, RecordPublishedAd, RecordCount,
                  RecordCadence, RecordFailedAd, RecordChallengeAd,
                  RecordChallengeIdentity
    <3>2. record'[r].pc # "attempt"
      BY <1>0, <2>0, <2>4, <3>1
         DEF RecordAttempt, RecordPublishedAd, RecordCount, RecordCadence,
             RecordFailedAd, RecordChallengeAd, RecordChallengeIdentity,
             RecordState, NoRecord
    <3> QED
      BY <1>1, <3>2
  <2> QED
    BY <1>0, <2>1, <2>2, <2>3, <2>4, RecordSteps DEF RecordResult
<1>2. ASSUME NEW x \in Expirers, NEW a \in expire'[x].todo
      PROVE  WasStarted(a)'
  <2>0. expire[x] \in ExpireState
    BY <1>0
  <2>1. CASE expire'[x] = NoExpire
    BY <1>2, <2>1 DEF NoExpire
  <2>2. CASE expire'[x].todo \subseteq expire[x].todo
    <3>1. a \in Attempts /\ WasStarted(a)
      BY <1>0, <1>2, <2>0, <2>2 DEF ExpireState, HoldStarted
    <3> QED
      BY <3>1, StartedStays
  <2>3. CASE ExpireList(x)
    BY <1>0, <1>2, <2>3 DEF ExpireList, Stale, Submitting, WasStarted
  <2>4. ASSUME NEW b \in Attempts, ExpireAttempt(x, b)
        PROVE  expire'[x].todo \subseteq expire[x].todo
    BY <1>0, <2>4 DEF ExpireAttempt
  <2>5. ASSUME ExpireAd(x), expire'[x] # NoExpire
        PROVE  expire'[x].todo \subseteq expire[x].todo
    BY <1>0, <2>0, <2>5 DEF ExpireAd, ExpireState
  <2> QED
    BY <1>0, <2>1, <2>2, <2>3, <2>4, <2>5, ExpireSteps
       DEF ExpireStaleSubmissions
<1> QED
  BY <1>1, <1>2 DEF HoldStarted

\* No new open attempt of a draft appears while its enqueue checks the gates.
LEMMA NoneOpened ==
  ASSUME LifecycleInv, [Next]_vars, NEW d, ~HasOpenAttempt(d),
         ~\E e \in Enqueuers, a \in Attempts : EnqueueCreate(e, a)
  PROVE  ~\E a \in Attempts : Open(a)' /\ attempt'[a].ad = d
BY OpenedBy DEF HasOpenAttempt

LEMMA KnowsDraftStep ==
  ASSUME OneOfEach, LifecycleInv, [Next]_vars, NEW e \in Enqueuers
  PROVE  KnowsDraft(e)'
<1>0. /\ TypeOK /\ KnowsDraft(e)
      /\ enqueue \in [Enqueuers -> EnqueueState] /\ enqueue[e] \in EnqueueState
  BY DEF LifecycleInv, ClaimInv, TypeOK
\* While this enqueue creates no attempt, its draft gets none.
<1>1. ASSUME NEW d, ~HasOpenAttempt(d), ~\E a \in Attempts : EnqueueCreate(e, a)
      PROVE  ~\E a \in Attempts : Open(a)' /\ attempt'[a].ad = d
  BY <1>1, NoneOpened DEF OneOfEach
\* A step that keeps the draft and leaves it checked keeps what is known.
<1>2. ASSUME enqueue'[e].ad = enqueue[e].ad, enqueue[e].pc # "idle",
             enqueue'[e].pc \in Checked => ~HasOpenAttempt(enqueue[e].ad),
             ~\E a \in Attempts : EnqueueCreate(e, a)
      PROVE  KnowsDraft(e)'
  BY <1>0, <1>1, <1>2 DEF KnowsDraft, HasOpenAttempt
<1>3. CASE enqueue'[e] = enqueue[e]
  <2>1. ASSUME NEW a \in Attempts PROVE ~EnqueueCreate(e, a)
    BY <1>0, <1>3 DEF EnqueueCreate, EnqueueState
  <2>2. CASE enqueue[e].pc = "idle"
    BY <1>3, <2>2 DEF KnowsDraft, Checked
  <2> QED
    BY <1>0, <1>2, <1>3, <2>1, <2>2 DEF KnowsDraft
<1>4. CASE enqueue'[e] = NoEnqueue
  BY <1>4 DEF KnowsDraft, NoEnqueue, Checked
<1>5. ASSUME NEW d \in Ads, EnqueueRead(e, d) PROVE KnowsDraft(e)'
  <2>1. enqueue'[e].pc = "existing" /\ enqueue'[e].ad = d
    BY <1>0, <1>5 DEF EnqueueRead, NoEnqueue
  <2> QED
    BY <2>1 DEF KnowsDraft, Checked
<1>6. ASSUME EnqueueExisting(e), enqueue'[e] # NoEnqueue PROVE KnowsDraft(e)'
  <2>1. /\ ~HasOpenAttempt(enqueue[e].ad)
        /\ enqueue'[e].ad = enqueue[e].ad
        /\ enqueue[e].pc = "existing"
    BY <1>0, <1>6 DEF EnqueueExisting, EnqueueState
  <2> QED
    BY <1>2, <2>1 DEF EnqueueCreate
<1>7. CASE EnqueueReadIdentity(e) \/ EnqueueReadGates(e) \/ EnqueueReserve(e)
  <2>1. enqueue[e].pc \in {"read", "gates", "reserve"}
    BY <1>7 DEF EnqueueReadIdentity, EnqueueReadGates, EnqueueReserve
  <2>2. CASE EnqueueReadIdentity(e)
    BY <1>0, <1>2, <2>1, <2>2
       DEF EnqueueReadIdentity, EnqueueState, EnqueueCreate, KnowsDraft, Checked
  <2>3. CASE EnqueueReadGates(e)
    <3>1. PICK others \in BOOLEAN, slot \in Slots(enqueue[e].slot) :
            enqueue' = [enqueue EXCEPT
              ![e].pc = IF enqueue[e].allowed /\ others THEN "reserve"
                        ELSE "reject",
              ![e].slot = slot]
      BY <2>3 DEF EnqueueReadGates
    <3>2. enqueue'[e].ad = enqueue[e].ad
      BY <1>0, <3>1 DEF EnqueueState
    <3> QED
      BY <1>0, <1>2, <2>1, <3>2 DEF EnqueueCreate, KnowsDraft, Checked
  <2>4. CASE EnqueueReserve(e)
    BY <1>0, <1>2, <2>1, <2>4
       DEF EnqueueReserve, EnqueueState, EnqueueCreate, KnowsDraft, Checked
  <2> QED
    BY <1>7, <2>2, <2>3, <2>4
<1>8. ASSUME NEW a \in Attempts, EnqueueReject(e, a) PROVE KnowsDraft(e)'
  BY <1>0, <1>4, <1>8 DEF EnqueueReject
<1>9. ASSUME NEW a \in Attempts, EnqueueCreate(e, a) PROVE KnowsDraft(e)'
  <2>1. /\ enqueue'[e].pc = "mark" /\ enqueue'[e].ad = enqueue[e].ad
        /\ enqueue[e].pc = "create"
    BY <1>0, <1>9 DEF EnqueueCreate, EnqueueState
  <2> QED
    BY <1>0, <2>1 DEF KnowsDraft, Checked
<1>10. CASE EnqueueMark(e)
  BY <1>0, <1>4, <1>10 DEF EnqueueMark
<1> QED
  BY <1>0, <1>3, <1>4, <1>5, <1>6, <1>7, <1>8, <1>9, <1>10, EnqueueSteps
     DEF EnqueueDraft

LEMMA OneOpenStep ==
  ASSUME OneOfEach, LifecycleInv, [Next]_vars
  PROVE  OneOpenAttemptPerAd'
<1>0. /\ TypeOK /\ OneOpenAttemptPerAd
      /\ attempt \in [Attempts -> AttemptRow]
      /\ \A e \in Enqueuers : KnowsDraft(e)
  BY DEF LifecycleInv, ClaimInv, TypeOK
\* The draft of a new attempt had no open attempt.
<1>1. ASSUME NEW a \in Attempts, NEW b \in Attempts, NEW e \in Enqueuers,
             EnqueueCreate(e, a), Open(b)', attempt'[a].ad = attempt'[b].ad
      PROVE  a = b
  <2>1. /\ attempt'[a].ad = enqueue[e].ad
        /\ \A f \in Enqueuers, x \in Attempts : EnqueueCreate(f, x) => x = a
        /\ b # a => attempt'[b] = attempt[b]
    <3>1. attempt' = [attempt EXCEPT ![a] =
                        [Absent EXCEPT !.status = "queued",
                                       !.ad = enqueue[e].ad,
                                       !.notBefore = enqueue[e].slot]]
      BY <1>1 DEF EnqueueCreate
    <3>2. attempt'[a].ad = enqueue[e].ad
      BY <1>0, <3>1 DEF Absent
    <3>3. ASSUME NEW f \in Enqueuers, NEW x \in Attempts, EnqueueCreate(f, x)
          PROVE  x = a
      <4>1. ~Exists(x) /\ attempt'[x].status = "queued"
        BY <1>0, <3>3 DEF EnqueueCreate, NextRow, Absent
      <4> QED
        BY <1>0, <3>1, <4>1 DEF Exists
    <3> QED
      BY <1>0, <3>1, <3>2, <3>3
  <2>2. ~HasOpenAttempt(enqueue[e].ad)
    BY <1>0, <1>1 DEF KnowsDraft, EnqueueCreate, Checked
  <2> QED
    BY <1>1, <2>1, <2>2 DEF HasOpenAttempt, Open
<1> SUFFICES ASSUME NEW a \in Attempts, NEW b \in Attempts, Open(a)', Open(b)',
                    attempt'[a].ad = attempt'[b].ad
             PROVE  a = b
  BY DEF OneOpenAttemptPerAd
<1>2. \/ Open(a) /\ attempt'[a].ad = attempt[a].ad
      \/ \E e \in Enqueuers : EnqueueCreate(e, a)
  BY OpenedBy
<1>3. \/ Open(b) /\ attempt'[b].ad = attempt[b].ad
      \/ \E e \in Enqueuers : EnqueueCreate(e, b)
  BY OpenedBy
<1> QED
  BY <1>0, <1>1, <1>2, <1>3 DEF OneOpenAttemptPerAd

LEMMA NextLifecycleInv ==
  ASSUME OneOfEach
  PROVE  LifecycleInv /\ [Next]_vars => LifecycleInv'
<1> SUFFICES ASSUME LifecycleInv, [Next]_vars PROVE LifecycleInv'
  OBVIOUS
<1>1. ClaimInv'
  BY NextClaimInv DEF LifecycleInv
<1>2. /\ \A c \in Claimers : HoldsQueued(c)'
      /\ HoldStarted'
      /\ \A e \in Enqueuers : KnowsDraft(e)'
      /\ OneOpenAttemptPerAd'
  BY HoldsQueuedStep, HoldStartedStep, KnowsDraftStep, OneOpenStep
<1> QED
  BY <1>1, <1>2 DEF LifecycleInv

LEMMA LifecycleInvariant ==
  ASSUME OneOfEach
  PROVE  Spec => []LifecycleInv
BY InitLifecycleInv, NextLifecycleInv, PTL DEF Spec

\* With one claim and one enqueue at a time and results for claimed attempts
\* only, a draft has at most one open attempt: the findFirst of enqueueDraft
\* (bazos-publisher-queue.service.ts:32) needs no unique index behind it as long
\* as enqueues do not overlap.
THEOREM OneOpenAttempt ==
  ASSUME OneOfEach
  PROVE  Spec => []OneOpenAttemptPerAd
<1>1. LifecycleInv => OneOpenAttemptPerAd
  BY DEF LifecycleInv
<1> QED
  BY <1>1, LifecycleInvariant, PTL

-----------------------------------------------------------------------------
(***************************************************************************)
(* The queue implements AttemptLifecycle.                                  *)
(***************************************************************************)
LEMMA InitImplements == Init => Lifecycle!LifecycleInit
BY DEF Init, Lifecycle!LifecycleInit, Absent

\* A write to one row that leaves its ad alone maps to a write of one phase.
LEMMA OneRowWritten ==
  ASSUME TypeOK, NEW a \in Attempts, NEW row,
         attempt' = [attempt EXCEPT ![a] = row]
  PROVE  /\ [x \in Attempts |-> attempt'[x].status]
              = [[x \in Attempts |-> attempt[x].status] EXCEPT ![a] = row.status]
         /\ [x \in Attempts |-> attempt'[x].ad]
              = [[x \in Attempts |-> attempt[x].ad] EXCEPT ![a] = row.ad]
         /\ row.ad = attempt[a].ad =>
              [x \in Attempts |-> attempt'[x].ad]
                = [x \in Attempts |-> attempt[x].ad]
BY DEF TypeOK

LEMMA StepImplements ==
  ASSUME OneOfEach, LifecycleInv, [Next]_vars
  PROVE  [Lifecycle!LifecycleNext]_(Lifecycle!lifecycleVars)
<1>0. /\ TypeOK /\ HoldStarted
      /\ attempt \in [Attempts -> AttemptRow]
      /\ \A c \in Claimers : HoldsQueued(c) /\ SawNoneOfItsOwn(c)
      /\ \A e \in Enqueuers : KnowsDraft(e)
  BY DEF LifecycleInv, ClaimInv, TypeOK
<1>1. CASE attempt' = attempt
  BY <1>1 DEF Lifecycle!lifecycleVars
\* The draft is refused.
<1>2. ASSUME NEW e \in Enqueuers, NEW a \in Attempts, EnqueueReject(e, a)
      PROVE  Lifecycle!LifecycleNext
  <2> DEFINE row == [Absent EXCEPT !.status = "policy_blocked",
                                   !.ad = enqueue[e].ad]
  <2>1. /\ attempt' = [attempt EXCEPT ![a] = row]
        /\ attempt[a].status = "absent"
        /\ enqueue[e].ad \in Ads
    BY <1>0, <1>2 DEF EnqueueReject, NextRow, Exists, KnowsDraft
  <2>2. PICK d \in Ads : d = enqueue[e].ad
    BY <2>1
  <2>3. row.status = "policy_blocked" /\ row.ad = d
    BY <2>2 DEF Absent
  <2> HIDE DEF row
  <2>4. Lifecycle!Refuse(a, d)
    BY <1>0, <2>1, <2>3, OneRowWritten DEF Lifecycle!Refuse
  <2> QED
    BY <2>4 DEF Lifecycle!LifecycleNext
\* The draft is queued: it had no open attempt.
<1>3. ASSUME NEW e \in Enqueuers, NEW a \in Attempts, EnqueueCreate(e, a)
      PROVE  Lifecycle!LifecycleNext
  <2> DEFINE row == [Absent EXCEPT !.status = "queued", !.ad = enqueue[e].ad,
                                   !.notBefore = enqueue[e].slot]
  <2>1. /\ attempt' = [attempt EXCEPT ![a] = row]
        /\ attempt[a].status = "absent"
        /\ enqueue[e].ad \in Ads
        /\ ~HasOpenAttempt(enqueue[e].ad)
    BY <1>0, <1>3 DEF EnqueueCreate, NextRow, Exists, KnowsDraft, Checked
  <2>2. PICK d \in Ads : d = enqueue[e].ad
    BY <2>1
  <2>3. row.status = "queued" /\ row.ad = d
    BY <2>2 DEF Absent
  <2> HIDE DEF row
  <2>4. \A b \in Attempts :
          attempt[b].ad = d => attempt[b].status \notin {"queued", "submitting"}
    BY <2>1, <2>2 DEF HasOpenAttempt, Open, OpenStatus
  <2>5. Lifecycle!Queue(a, d)
    BY <1>0, <2>1, <2>3, <2>4, OneRowWritten
       DEF Lifecycle!Queue, Lifecycle!IsOpen, Lifecycle!OpenPhase
  <2> QED
    BY <2>5 DEF Lifecycle!LifecycleNext
\* The claim drops the attempt it holds, which is still queued.
<1>4. ASSUME NEW c \in Claimers, ClaimBlock(c) PROVE Lifecycle!LifecycleNext
  <2>1. PICK a \in Attempts : a = claim[c].current /\ Queued(a)
    BY <1>0, <1>4 DEF HoldsQueued, ClaimBlock
  <2> DEFINE row == [attempt[a] EXCEPT !.status = "policy_blocked"]
  <2>2. attempt' = [attempt EXCEPT ![a] = row]
    BY <1>4, <2>1 DEF ClaimBlock
  <2>3. row.status = "policy_blocked" /\ row.ad = attempt[a].ad
    BY <1>0, <2>1 DEF AttemptRow
  <2> HIDE DEF row
  <2>4. Lifecycle!Drop(a)
    BY <1>0, <2>1, <2>2, <2>3, OneRowWritten DEF Lifecycle!Drop, Queued
  <2> QED
    BY <2>4 DEF Lifecycle!LifecycleNext
\* The claim starts it: the only worker saw no submission of its identity.
<1>5. ASSUME NEW c \in Claimers, ClaimSubmit(c) PROVE Lifecycle!LifecycleNext
  <2>1. PICK a \in Attempts : a = claim[c].current /\ Queued(a)
    BY <1>0, <1>5 DEF HoldsQueued, ClaimSubmit
  <2> DEFINE row == [attempt[a] EXCEPT !.status = "submitting",
                                       !.startedAt = clock, !.worker = c]
  <2>2. attempt' = [attempt EXCEPT ![a] = row]
    BY <1>5, <2>1 DEF ClaimSubmit
  <2>3. row.status = "submitting" /\ row.ad = attempt[a].ad
    BY <1>0, <2>1 DEF AttemptRow
  <2>4. \A b \in Attempts :
          attempt[b].status = "submitting" => IdentityOf(b) # IdentityOf(a)
    <3> SUFFICES ASSUME NEW b \in Attempts, Submitting(b),
                        IdentityOf(b) = IdentityOf(a)
                 PROVE  FALSE
      BY DEF Submitting
    <3>1. attempt[b].worker = c
      BY DEF LifecycleInv, ClaimInv, OneOfEach
    <3>2. a # b
      BY <2>1 DEF Queued, Submitting
    <3> QED
      BY <1>0, <1>5, <2>1, <3>1, <3>2
         DEF SawNoneOfItsOwn, ClaimSubmit, Held
  <2> HIDE DEF row
  <2>5. Lifecycle!Start(a)
    BY <1>0, <2>1, <2>2, <2>3, <2>4, OneRowWritten
       DEF Lifecycle!Start, Queued, IdentityOf
  <2> QED
    BY <2>5 DEF Lifecycle!LifecycleNext
\* A result or an expiry ends an attempt that was started.
<1>6. ASSUME NEW a \in Attempts, NEW outcome \in Outcome, WasStarted(a),
             attempt' = [attempt EXCEPT ![a].status = outcome]
      PROVE  Lifecycle!LifecycleNext
  <2> DEFINE row == [attempt[a] EXCEPT !.status = outcome]
  <2>1. attempt' = [attempt EXCEPT ![a] = row]
    BY <1>6
  <2>2. row.status = outcome /\ row.ad = attempt[a].ad
    BY <1>0 DEF AttemptRow
  <2> HIDE DEF row
  <2>3. Lifecycle!End(a, outcome)
    BY <1>0, <1>6, <2>1, <2>2, OneRowWritten
       DEF Lifecycle!End, Lifecycle!Ended, WasStarted, Outcome
  <2> QED
    BY <2>3 DEF Lifecycle!LifecycleNext, Lifecycle!Ended, Outcome
<1>7. ASSUME NEW r \in Recorders, RecordAttempt(r)
      PROVE  Lifecycle!LifecycleNext
  <2>1. /\ record[r].attempt \in Attempts /\ record[r].outcome \in Outcome
        /\ WasStarted(record[r].attempt)
    BY <1>0, <1>7
       DEF RecordAttempt, TypeOK, RecordState, NoRecord, HoldStarted
  <2> QED
    BY <1>6, <1>7, <2>1 DEF RecordAttempt
<1>8. ASSUME NEW x \in Expirers, NEW a \in Attempts, ExpireAttempt(x, a)
      PROVE  Lifecycle!LifecycleNext
  BY <1>0, <1>6, <1>8 DEF ExpireAttempt, HoldStarted, Outcome
<1> QED
  BY <1>1, <1>2, <1>3, <1>4, <1>5, <1>7, <1>8, AttemptWrites

\* With one claim and one enqueue at a time and results for claimed attempts
\* only, the handlers of the queue, with every crash, late result and expiry,
\* implement AttemptLifecycle: each of their statements is one step of the life
\* cycle "One queued attempt to submit a draft to Bazos" (SPEC.md:36) or none.
THEOREM QueueImplementsLifecycle ==
  ASSUME OneOfEach
  PROVE  Spec => ImplementsLifecycle
<1>1. LifecycleInv /\ [Next]_vars
        => [Lifecycle!LifecycleNext]_(Lifecycle!lifecycleVars)
  BY StepImplements
<1> QED
  BY <1>1, InitImplements, LifecycleInvariant, PTL
     DEF Spec, ImplementsLifecycle, Lifecycle!LifecycleSpec

-----------------------------------------------------------------------------
(***************************************************************************)
(* With one enqueue request at a time the reserved slots of an identity    *)
(* are PacingMin apart, however many claims, results, expiries and         *)
(* recounts overlap with it and whatever is lost.                          *)
(***************************************************************************)
(***************************************************************************)
(* The invariant.  Rows are filled in order; results and expiries hold     *)
(* existing rows, so that only an enqueue fills one; nextPublishNotBefore  *)
(* is the last slot reserved, taken or lost; and an enqueue past its gates *)
(* knows its own slot to be PacingMin later than that.                     *)
(***************************************************************************)
RowsInOrder ==
  \A a, b \in Attempts : b < a /\ Exists(a) => Exists(b)

RowsHaveAds == \A a \in Attempts : Exists(a) => attempt[a].ad \in Ads

HoldRows ==
  /\ \A r \in Recorders :
       record[r].pc = "attempt" => Exists(record[r].attempt)
  /\ \A x \in Expirers : \A a \in expire[x].todo : Exists(a)

Pace(i) == identity[i].nextPublishNotBefore

\* The slots the identity's rows hold.
Taken(a, i) == Exists(a) /\ Reserved(a) /\ IdentityOf(a) = i

SlotsTaken ==
  \A a \in Attempts : Exists(a) /\ Reserved(a) =>
    attempt[a].notBefore <= Pace(IdentityOf(a))

PublisherOf(e) == Owner[enqueue[e].ad]

KnowsPace(e) ==
  /\ enqueue[e].pc # "idle" => enqueue[e].ad \in Ads
  /\ enqueue[e].pc = "gates" /\ enqueue[e].allowed =>
       Pace(PublisherOf(e)) <= enqueue[e].slot
  /\ enqueue[e].pc = "reserve" =>
       Pace(PublisherOf(e)) + PacingMin <= enqueue[e].slot
  /\ enqueue[e].pc = "create" =>
       /\ Pace(PublisherOf(e)) = enqueue[e].slot
       /\ \A a \in Attempts : Taken(a, PublisherOf(e)) =>
            attempt[a].notBefore + PacingMin <= enqueue[e].slot

PacingInv ==
  /\ ClaimInv
  /\ RowsInOrder /\ RowsHaveAds /\ HoldRows
  /\ SlotsTaken
  /\ \A e \in Enqueuers : KnowsPace(e)
  /\ SlotsSpaced

LEMMA InitPacingInv == Init => PacingInv
BY InitClaimInv
   DEF PacingInv, Init, RowsInOrder, RowsHaveAds, HoldRows, SlotsTaken,
       KnowsPace, SlotsSpaced, SameIdentity, Exists, Absent, NoEnqueue,
       NoRecord, NoExpire

\* Only an enqueue fills a row, and a filled row keeps its ad and slot.
LEMMA RowFilledBy ==
  ASSUME PacingInv, [Next]_vars, NEW a \in Attempts, Exists(a)'
  PROVE  \/ /\ Exists(a)
            /\ attempt'[a].ad = attempt[a].ad
            /\ attempt'[a].notBefore = attempt[a].notBefore
         \/ \E e \in Enqueuers : EnqueueReject(e, a) \/ EnqueueCreate(e, a)
<1>0. /\ TypeOK /\ HoldRows
      /\ attempt \in [Attempts -> AttemptRow]
      /\ \A c \in Claimers : KnowsRows(c)
  BY DEF PacingInv, ClaimInv, TypeOK
<1>1. CASE Exists(a)
  BY <1>0, <1>1, RowSteps, RowsStay
<1>2. ASSUME ~Exists(a) PROVE attempt'[a] # attempt[a]
  BY <1>2 DEF Exists
<1>3. ASSUME ~Exists(a), NEW b \in Attempts, NEW e \in Enqueuers,
             EnqueueReject(e, b) \/ EnqueueCreate(e, b)
      PROVE  EnqueueReject(e, a) \/ EnqueueCreate(e, a)
  BY <1>0, <1>2, <1>3 DEF EnqueueReject, EnqueueCreate
<1>4. ASSUME ~Exists(a), NEW c \in Claimers, ClaimBlock(c) \/ ClaimSubmit(c)
      PROVE  FALSE
  BY <1>0, <1>2, <1>4 DEF ClaimBlock, ClaimSubmit, KnowsRows, Held
<1>5. ASSUME ~Exists(a), NEW r \in Recorders, RecordAttempt(r) PROVE FALSE
  BY <1>0, <1>2, <1>5 DEF RecordAttempt, HoldRows
<1>6. ASSUME ~Exists(a), NEW x \in Expirers, NEW b \in Attempts,
             ExpireAttempt(x, b)
      PROVE  FALSE
  BY <1>0, <1>2, <1>6 DEF ExpireAttempt, HoldRows
<1> QED
  BY <1>1, <1>2, <1>3, <1>4, <1>5, <1>6, AttemptWrites

\* Only an enqueue moves nextPublishNotBefore.
LEMMA PaceMovedBy ==
  ASSUME TypeOK, [Next]_vars, NEW i \in Identities
  PROVE  Pace(i)' = Pace(i) \/ \E e \in Enqueuers : EnqueueReserve(e)
<1> USE DEF db, handlers
<1>0. identity \in [Identities -> IdentityRow] /\ identity[i] \in IdentityRow
  BY DEF TypeOK
<1>1. ASSUME NEW c \in Claimers, ClaimNext(c) PROVE identity' = identity
  BY <1>1 DEF ClaimNext, ClaimList, ClaimSkip, ClaimPass, ClaimReadIdentity,
              ClaimReadGates, ClaimBlock, ClaimBlockAd, ClaimSubmit,
              ClaimSubmitAd
<1>2. ASSUME NEW e \in Enqueuers, EnqueueDraft(e), ~EnqueueReserve(e)
      PROVE  identity' = identity
  BY <1>2 DEF EnqueueDraft, EnqueueRead, EnqueueExisting, EnqueueReadIdentity,
              EnqueueReadGates, EnqueueMark, EnqueueReject, EnqueueCreate
<1>3. ASSUME NEW r \in Recorders, RecordResult(r) PROVE Pace(i)' = Pace(i)
  <2>1. CASE RecordCount(r) \/ RecordChallengeIdentity(r)
    BY <1>0, <2>1
       DEF RecordCount, RecordChallengeIdentity, Pace, IdentityRow
  <2>2. CASE ~(RecordCount(r) \/ RecordChallengeIdentity(r))
    BY <1>3, <2>2
       DEF RecordResult, RecordRead, RecordAttempt, RecordPublishedAd,
           RecordCadence, RecordFailedAd, RecordChallengeAd, Pace
  <2> QED
    BY <2>1, <2>2
<1>4. ASSUME NEW x \in Expirers, ExpireStaleSubmissions(x)
      PROVE  identity' = identity
  BY <1>4 DEF ExpireStaleSubmissions, ExpireList, ExpireAttempt, ExpireAd
<1>5. ASSUME NEW n \in Reconcilers, ReconcileIdentityCounts(n)
      PROVE  Pace(i)' = Pace(i)
  <2>1. CASE ReconcileWrite(n)
    <3> DEFINE here == reconcile[n]
    <3>1. \/ identity' = identity
          \/ identity' = [identity EXCEPT
                            ![here.current].activeAdCount = here.tracked]
      BY <2>1 DEF ReconcileWrite
    <3> QED
      BY <1>0, <3>1 DEF Pace, IdentityRow
  <2>2. CASE ~ReconcileWrite(n)
    BY <1>5, <2>2
       DEF ReconcileIdentityCounts, ReconcileRead, ReconcileCount, RefreshRead,
           RefreshVisit, Pace
  <2> QED
    BY <2>1, <2>2
<1>6. ASSUME Single PROVE Pace(i)' = Pace(i)
  <2>1. ASSUME NEW j \in Identities, Pause(j) \/ Reverify(j)
        PROVE  Pace(i)' = Pace(i)
    <3>1. PICK standing \in Standing :
            identity' = [identity EXCEPT ![j].standing = standing]
      BY <2>1 DEF Pause, Reverify, Standing
    <3> QED
      BY <1>0, <3>1 DEF Pace, IdentityRow
  <2>2. CASE ~\E j \in Identities : Pause(j) \/ Reverify(j)
    BY <1>6, <2>2
       DEF Single, WithdrawAd, RestoreAd, ReuseDraft, Tick, AdOnly, Pace
  <2> QED
    BY <2>1, <2>2
<1>7. ASSUME CrashHandler PROVE identity' = identity
  BY <1>7 DEF CrashHandler
<1>8. ASSUME UNCHANGED vars PROVE identity' = identity
  BY <1>8 DEF vars
<1> QED
  BY <1>1, <1>2, <1>3, <1>4, <1>5, <1>6, <1>7, <1>8 DEF Next, Single, Pace

-----------------------------------------------------------------------------
LEMMA RowsStep ==
  ASSUME PacingInv, [Next]_vars
  PROVE  RowsInOrder' /\ RowsHaveAds'
<1>0. /\ TypeOK /\ RowsInOrder /\ RowsHaveAds
      /\ attempt \in [Attempts -> AttemptRow]
      /\ \A e \in Enqueuers : KnowsPace(e)
  BY DEF PacingInv, ClaimInv, TypeOK
<1>1. ASSUME NEW b \in Attempts, Exists(b) PROVE Exists(b)'
  BY <1>0, <1>1, RowSteps, RowsStay
<1>2. ASSUME NEW a \in Attempts, Exists(a)'
      PROVE  /\ \A b \in Attempts : b < a => Exists(b)
             /\ attempt'[a].ad \in Ads
  <2>1. CASE Exists(a) /\ attempt'[a].ad = attempt[a].ad
    BY <1>0, <2>1 DEF RowsInOrder, RowsHaveAds
  <2>2. ASSUME NEW e \in Enqueuers, EnqueueReject(e, a) \/ EnqueueCreate(e, a)
        PROVE  /\ \A b \in Attempts : b < a => Exists(b)
               /\ attempt'[a].ad \in Ads
    BY <1>0, <2>2 DEF EnqueueReject, EnqueueCreate, NextRow, KnowsPace, Absent
  <2> QED
    BY <1>2, <2>1, <2>2, RowFilledBy
<1> QED
  BY <1>1, <1>2 DEF RowsInOrder, RowsHaveAds

LEMMA HoldRowsStep ==
  ASSUME PacingInv, [Next]_vars
  PROVE  HoldRows'
<1>0. /\ TypeOK /\ HoldRows
      /\ record \in [Recorders -> RecordState]
      /\ expire \in [Expirers -> ExpireState]
  BY DEF PacingInv, ClaimInv, TypeOK
<1> USE DEF db
<1>s. ASSUME NEW b \in Attempts, Exists(b) PROVE Exists(b)'
  BY <1>0, <1>s, RowSteps, RowsStay
<1>1. ASSUME NEW r \in Recorders, record'[r].pc = "attempt"
      PROVE  Exists(record[r].attempt)'
  <2>0. record[r] \in RecordState
    BY <1>0
  <2>1. CASE record'[r] = record[r]
    <3>1. record[r].attempt \in Attempts
      BY <1>1, <2>0, <2>1 DEF RecordState, NoRecord
    <3> QED
      BY <1>0, <1>1, <1>s, <2>1, <3>1 DEF HoldRows, Exists
  <2>2. CASE record'[r] = NoRecord
    BY <1>1, <2>2 DEF NoRecord
  <2>3. ASSUME NEW a \in Attempts, NEW outcome \in Outcome,
               RecordRead(r, a, outcome)
        PROVE  Exists(record[r].attempt)'
    BY <1>0, <2>3 DEF RecordRead, Open, OpenStatus, Exists
  <2>4. CASE \/ RecordAttempt(r) \/ RecordPublishedAd(r) \/ RecordCount(r)
             \/ RecordCadence(r) \/ RecordFailedAd(r) \/ RecordChallengeAd(r)
             \/ RecordChallengeIdentity(r)
    <3>1. record[r] # NoRecord
      BY <2>4 DEF NoRecord, RecordAttempt, RecordPublishedAd, RecordCount,
                  RecordCadence, RecordFailedAd, RecordChallengeAd,
                  RecordChallengeIdentity
    <3>2. record'[r].pc # "attempt"
      BY <1>0, <2>0, <2>4, <3>1
         DEF RecordAttempt, RecordPublishedAd, RecordCount, RecordCadence,
             RecordFailedAd, RecordChallengeAd, RecordChallengeIdentity,
             RecordState, NoRecord
    <3> QED
      BY <1>1, <3>2
  <2> QED
    BY <1>0, <2>1, <2>2, <2>3, <2>4, RecordSteps DEF RecordResult
<1>2. ASSUME NEW x \in Expirers, NEW a \in expire'[x].todo
      PROVE  Exists(a)'
  <2>0. expire[x] \in ExpireState
    BY <1>0
  <2>1. CASE expire'[x] = NoExpire
    BY <1>2, <2>1 DEF NoExpire
  <2>2. CASE expire'[x].todo \subseteq expire[x].todo
    BY <1>0, <1>2, <1>s, <2>0, <2>2 DEF ExpireState, HoldRows
  <2>3. CASE ExpireList(x)
    BY <1>0, <1>2, <2>3 DEF ExpireList, Stale, Submitting, Exists
  <2>4. ASSUME NEW b \in Attempts, ExpireAttempt(x, b)
        PROVE  expire'[x].todo \subseteq expire[x].todo
    BY <1>0, <2>4 DEF ExpireAttempt
  <2>5. ASSUME ExpireAd(x), expire'[x] # NoExpire
        PROVE  expire'[x].todo \subseteq expire[x].todo
    BY <1>0, <2>0, <2>5 DEF ExpireAd, ExpireState
  <2> QED
    BY <1>0, <2>1, <2>2, <2>3, <2>4, <2>5, ExpireSteps
       DEF ExpireStaleSubmissions
<1> QED
  BY <1>1, <1>2 DEF HoldRows

-----------------------------------------------------------------------------
\* The assumption: enqueueDraft never overlaps with itself.
OneEnqueue == \A e, f \in Enqueuers : e = f

\* A reserved row was there before, or the enqueue creates it now.
LEMMA TakenBy ==
  ASSUME PacingInv, [Next]_vars, NEW a \in Attempts, Exists(a)', Reserved(a)'
  PROVE  \/ /\ Exists(a) /\ Reserved(a)
            /\ attempt'[a].ad = attempt[a].ad
            /\ attempt'[a].notBefore = attempt[a].notBefore
         \/ \E e \in Enqueuers :
              /\ EnqueueCreate(e, a)
              /\ attempt'[a].ad = enqueue[e].ad
              /\ attempt'[a].notBefore = enqueue[e].slot
<1>0. attempt \in [Attempts -> AttemptRow]
  BY DEF PacingInv, ClaimInv, TypeOK
<1>1. ASSUME NEW e \in Enqueuers, EnqueueReject(e, a) PROVE FALSE
  BY <1>0, <1>1 DEF EnqueueReject, Reserved, Absent
<1>2. ASSUME NEW e \in Enqueuers, EnqueueCreate(e, a)
      PROVE  /\ attempt'[a].ad = enqueue[e].ad
             /\ attempt'[a].notBefore = enqueue[e].slot
  BY <1>0, <1>2 DEF EnqueueCreate, Absent
<1> QED
  BY <1>1, <1>2, RowFilledBy DEF Reserved

\* A reservation moves the pace of its identity forward, the others stay.
LEMMA PaceMoves ==
  ASSUME PacingInv, [Next]_vars, NEW i \in Identities
  PROVE  /\ Pace(i) \in Nat /\ Pace(i)' \in Nat
         /\ Pace(i) <= Pace(i)'
         /\ \A e \in Enqueuers :
              EnqueueReserve(e) /\ i = PublisherOf(e) =>
                Pace(i)' = enqueue[e].slot
<1>0. /\ TypeOK
      /\ identity \in [Identities -> IdentityRow] /\ identity[i] \in IdentityRow
      /\ \A e \in Enqueuers : KnowsPace(e) /\ enqueue[e] \in EnqueueState
  BY DEF PacingInv, ClaimInv, TypeOK
<1>1. Pace(i) \in Nat
  BY <1>0 DEF Pace, IdentityRow, Time
<1>2. ASSUME NEW e \in Enqueuers, EnqueueReserve(e)
      PROVE  /\ i = PublisherOf(e) => Pace(i)' = enqueue[e].slot
             /\ i # PublisherOf(e) => Pace(i)' = Pace(i)
             /\ i = PublisherOf(e) => Pace(i) + PacingMin <= enqueue[e].slot
             /\ enqueue[e].slot \in Nat
  BY <1>0, <1>2
     DEF EnqueueReserve, PublisherOf, Pace, IdentityRow, KnowsPace,
         EnqueueState, Time
<1>3. Pace(i)' \in Nat /\ Pace(i) <= Pace(i)'
  <2>1. CASE Pace(i)' = Pace(i)
    BY <1>1, <2>1
  <2>2. CASE \E e \in Enqueuers : EnqueueReserve(e)
    BY <1>1, <1>2, <2>2
  <2> QED
    BY <1>0, <2>1, <2>2, PaceMovedBy
<1> QED
  BY <1>1, <1>2, <1>3

LEMMA SlotsTakenStep ==
  ASSUME PacingInv, [Next]_vars
  PROVE  SlotsTaken'
<1>0. /\ TypeOK /\ SlotsTaken /\ RowsHaveAds
      /\ attempt \in [Attempts -> AttemptRow]
      /\ \A e \in Enqueuers : KnowsPace(e)
  BY DEF PacingInv, ClaimInv, TypeOK
<1> SUFFICES ASSUME NEW a \in Attempts, Exists(a)', Reserved(a)'
             PROVE  attempt'[a].notBefore
                      <= identity'[Owner[attempt'[a].ad]].nextPublishNotBefore
  BY DEF SlotsTaken, Pace, IdentityOf
<1>1. CASE /\ Exists(a) /\ Reserved(a)
           /\ attempt'[a].ad = attempt[a].ad
           /\ attempt'[a].notBefore = attempt[a].notBefore
  <2>1. IdentityOf(a) \in Identities /\ attempt[a].notBefore \in Nat
    <3>1. attempt[a] \in AttemptRow /\ attempt[a].ad \in Ads
      BY <1>0, <1>1 DEF RowsHaveAds
    <3> QED
      BY <3>1 DEF IdentityOf, AttemptRow, Time
  <2>2. attempt[a].notBefore <= Pace(IdentityOf(a))
    BY <1>0, <1>1 DEF SlotsTaken
  <2>3. PICK i \in Identities : i = IdentityOf(a)
    BY <2>1
  <2>4. Pace(i) \in Nat /\ Pace(i)' \in Nat /\ Pace(i) <= Pace(i)'
    BY PaceMoves
  <2> QED
    BY <1>1, <2>1, <2>2, <2>3, <2>4 DEF Pace, IdentityOf
<1>2. ASSUME NEW e \in Enqueuers, EnqueueCreate(e, a),
             attempt'[a].ad = enqueue[e].ad,
             attempt'[a].notBefore = enqueue[e].slot
      PROVE  attempt'[a].notBefore
               <= identity'[Owner[attempt'[a].ad]].nextPublishNotBefore
  <2>1. /\ identity' = identity
        /\ Pace(PublisherOf(e)) = enqueue[e].slot
        /\ enqueue[e].slot \in Nat
    BY <1>0, <1>2 DEF EnqueueCreate, KnowsPace, TypeOK, EnqueueState, Time
  <2> QED
    BY <1>2, <2>1 DEF Pace, PublisherOf
<1> QED
  BY <1>1, <1>2, TakenBy

LEMMA SlotsSpacedStep ==
  ASSUME OneEnqueue, PacingInv, [Next]_vars
  PROVE  SlotsSpaced'
<1>0. /\ TypeOK /\ SlotsSpaced /\ RowsInOrder
      /\ \A e \in Enqueuers : KnowsPace(e)
  BY DEF PacingInv, ClaimInv
<1> SUFFICES ASSUME NEW a \in Attempts, NEW b \in Attempts, a < b,
                    Exists(a)', Exists(b)', Reserved(a)', Reserved(b)',
                    Owner[attempt'[a].ad] = Owner[attempt'[b].ad]
             PROVE  attempt'[a].notBefore + PacingMin <= attempt'[b].notBefore
  BY DEF SlotsSpaced, SameIdentity, IdentityOf, Reserved
<1> DEFINE Kept(x) == /\ Exists(x) /\ Reserved(x)
                      /\ attempt'[x].ad = attempt[x].ad
                      /\ attempt'[x].notBefore = attempt[x].notBefore
\* The later row is an old one, and so is the earlier.
<1>1. CASE Kept(b)
  <2>1. Exists(a)
    BY <1>0, <1>1 DEF RowsInOrder
  <2>2. Kept(a)
    BY <2>1, TakenBy DEF EnqueueCreate, NextRow
  <2> QED
    BY <1>0, <1>1, <2>2 DEF SlotsSpaced, SameIdentity, IdentityOf
\* The later row is created with a slot PacingMin after those taken.
<1>2. ASSUME NEW e \in Enqueuers, EnqueueCreate(e, b),
             attempt'[b].ad = enqueue[e].ad,
             attempt'[b].notBefore = enqueue[e].slot
      PROVE  attempt'[a].notBefore + PacingMin <= attempt'[b].notBefore
  <2>1. Exists(a)
    BY <1>2 DEF EnqueueCreate, NextRow
  <2>2. Kept(a)
    BY <2>1, TakenBy DEF EnqueueCreate, NextRow
  <2>3. Taken(a, PublisherOf(e))
    BY <1>2, <2>2 DEF Taken, IdentityOf, PublisherOf
  <2> QED
    BY <1>0, <1>2, <2>2, <2>3 DEF KnowsPace, EnqueueCreate
<1> QED
  BY <1>1, <1>2, TakenBy

LEMMA KnowsPaceStep ==
  ASSUME OneEnqueue, PacingInv, [Next]_vars, NEW e \in Enqueuers
  PROVE  KnowsPace(e)'
<1>0. /\ TypeOK /\ KnowsPace(e) /\ SlotsTaken
      /\ enqueue \in [Enqueuers -> EnqueueState] /\ enqueue[e] \in EnqueueState
      /\ enqueue[e].slot \in Nat
      /\ identity \in [Identities -> IdentityRow]
      /\ attempt \in [Attempts -> AttemptRow]
      /\ clock \in Nat
  BY DEF PacingInv, ClaimInv, TypeOK, EnqueueState, Time
\* While this enqueue neither reserves nor creates, nothing it knows changes.
<1>1. ASSUME enqueue'[e].ad = enqueue[e].ad, enqueue[e].pc # "idle",
             ~EnqueueReserve(e), ~\E a \in Attempts : EnqueueCreate(e, a)
      PROVE  /\ identity'[Owner[enqueue[e].ad]].nextPublishNotBefore
                  = Pace(PublisherOf(e))
             /\ \A a \in Attempts : Taken(a, PublisherOf(e))' =>
                  /\ Taken(a, PublisherOf(e))
                  /\ attempt'[a].notBefore = attempt[a].notBefore
  <2>1. PublisherOf(e) \in Identities
    BY <1>0, <1>1 DEF KnowsPace, PublisherOf
  <2>2. PICK i \in Identities : i = PublisherOf(e)
    BY <2>1
  <2>3. Pace(i)' = Pace(i)
    BY <1>0, <1>1, PaceMovedBy DEF OneEnqueue
  <2>4. ASSUME NEW a \in Attempts, Taken(a, PublisherOf(e))'
        PROVE  /\ Taken(a, PublisherOf(e))
               /\ attempt'[a].notBefore = attempt[a].notBefore
    <3>1. Exists(a)' /\ Reserved(a)'
      BY <2>4 DEF Taken
    <3> QED
      BY <1>1, <2>4, <3>1, TakenBy
         DEF OneEnqueue, Taken, IdentityOf, PublisherOf
  <2> QED
    BY <2>2, <2>3, <2>4 DEF Pace, PublisherOf
<1>2. CASE enqueue'[e] = enqueue[e]
  <2>1. CASE enqueue[e].pc = "idle"
    BY <1>2, <2>1 DEF KnowsPace
  <2>2. CASE enqueue[e].pc # "idle"
    <3>1. ~EnqueueReserve(e) /\ ~\E a \in Attempts : EnqueueCreate(e, a)
      BY <1>0, <1>2 DEF EnqueueReserve, EnqueueCreate, EnqueueState
    <3> QED
      BY <1>0, <1>1, <1>2, <2>2, <3>1 DEF KnowsPace, Pace, PublisherOf
  <2> QED
    BY <2>1, <2>2
<1>3. CASE enqueue'[e] = NoEnqueue
  BY <1>3 DEF KnowsPace, NoEnqueue
<1>4. ASSUME NEW d \in Ads, EnqueueRead(e, d) PROVE KnowsPace(e)'
  <2>1. enqueue'[e].pc = "existing" /\ enqueue'[e].ad = d
    BY <1>0, <1>4 DEF EnqueueRead, NoEnqueue
  <2> QED
    BY <2>1 DEF KnowsPace
<1>5. ASSUME EnqueueExisting(e), enqueue'[e] # NoEnqueue PROVE KnowsPace(e)'
  <2>1. /\ enqueue'[e].pc = "read" /\ enqueue'[e].ad = enqueue[e].ad
        /\ enqueue[e].pc = "existing"
    BY <1>0, <1>5 DEF EnqueueExisting, EnqueueState
  <2> QED
    BY <1>0, <2>1 DEF KnowsPace
\* The gates pass only when the last slot is not in the future.
<1>6. CASE EnqueueReadIdentity(e)
  <2>1. /\ enqueue'[e].pc = "gates" /\ enqueue'[e].ad = enqueue[e].ad
        /\ enqueue'[e].slot = clock
        /\ enqueue'[e].allowed = AdPassesIdentityGates(enqueue[e].ad)
        /\ enqueue[e].pc = "read"
        /\ identity' = identity
    BY <1>0, <1>6 DEF EnqueueReadIdentity, EnqueueState, db
  <2>2. AdPassesIdentityGates(enqueue[e].ad) =>
          identity[Owner[enqueue[e].ad]].nextPublishNotBefore <= clock
    BY DEF AdPassesIdentityGates, IdentityGates
  <2> QED
    BY <1>0, <2>1, <2>2 DEF KnowsPace, Pace, PublisherOf
\* The delay drawn is at least PacingMin.
<1>7. CASE EnqueueReadGates(e)
  <2>1. PICK others \in BOOLEAN, slot \in Slots(enqueue[e].slot) :
          enqueue' = [enqueue EXCEPT
            ![e].pc = IF enqueue[e].allowed /\ others THEN "reserve"
                      ELSE "reject",
            ![e].slot = slot]
    BY <1>7 DEF EnqueueReadGates
  <2>2. /\ enqueue'[e].pc \in {"reserve", "reject"}
        /\ enqueue'[e].pc = "reserve" => enqueue[e].allowed
        /\ enqueue'[e].ad = enqueue[e].ad
        /\ enqueue'[e].slot = slot
        /\ enqueue[e].pc = "gates"
        /\ identity' = identity
    BY <1>0, <1>7, <2>1 DEF EnqueueReadGates, EnqueueState, db
  <2>3. slot \in Nat /\ enqueue[e].slot + PacingMin <= slot
    BY <1>0 DEF Slots
  <2>4. enqueue[e].ad \in Ads /\ Pace(PublisherOf(e)) \in Nat
    BY <1>0, <2>2
       DEF KnowsPace, Pace, PublisherOf, IdentityRow, Time
  <2> QED
    BY <1>0, <2>2, <2>3, <2>4 DEF KnowsPace, Pace, PublisherOf
<1>8. ASSUME NEW a \in Attempts, EnqueueReject(e, a) PROVE KnowsPace(e)'
  BY <1>0, <1>3, <1>8 DEF EnqueueReject
\* Every slot taken is at most the pace, and that PacingMin before this slot.
<1>9. CASE EnqueueReserve(e)
  <2>1. /\ enqueue'[e].pc = "create" /\ enqueue'[e].ad = enqueue[e].ad
        /\ enqueue'[e].slot = enqueue[e].slot
        /\ enqueue[e].ad \in Ads
        /\ Pace(PublisherOf(e)) + PacingMin <= enqueue[e].slot
        /\ attempt' = attempt
    BY <1>0, <1>9 DEF EnqueueReserve, EnqueueState, KnowsPace
  <2>2. identity'[PublisherOf(e)].nextPublishNotBefore = enqueue[e].slot
    BY <1>0, <1>9, <2>1
       DEF EnqueueReserve, PublisherOf, IdentityRow
  <2>3. ASSUME NEW a \in Attempts, Taken(a, PublisherOf(e))
        PROVE  attempt[a].notBefore + PacingMin <= enqueue[e].slot
    <3>1. attempt[a].notBefore <= Pace(PublisherOf(e))
      BY <1>0, <2>3 DEF SlotsTaken, Taken
    <3>2. attempt[a].notBefore \in Nat /\ Pace(PublisherOf(e)) \in Nat
      BY <1>0, <2>1
         DEF AttemptRow, Time, Pace, PublisherOf, IdentityRow
    <3> QED
      BY <1>0, <2>1, <3>1, <3>2
  <2> QED
    BY <2>1, <2>2, <2>3
       DEF KnowsPace, Pace, PublisherOf, Taken, Exists, Reserved, IdentityOf
<1>10. ASSUME NEW a \in Attempts, EnqueueCreate(e, a) PROVE KnowsPace(e)'
  <2>1. /\ enqueue'[e].pc = "mark" /\ enqueue'[e].ad = enqueue[e].ad
        /\ enqueue[e].pc = "create"
    BY <1>0, <1>10 DEF EnqueueCreate, EnqueueState
  <2> QED
    BY <1>0, <2>1 DEF KnowsPace
<1>11. CASE EnqueueMark(e)
  BY <1>0, <1>3, <1>11 DEF EnqueueMark
<1> QED
  BY <1>2, <1>3, <1>4, <1>5, <1>6, <1>7, <1>8, <1>9, <1>10, <1>11,
     <1>0, EnqueueSteps
     DEF EnqueueDraft

LEMMA NextPacingInv ==
  ASSUME OneEnqueue
  PROVE  PacingInv /\ [Next]_vars => PacingInv'
<1> SUFFICES ASSUME PacingInv, [Next]_vars PROVE PacingInv'
  OBVIOUS
<1>1. ClaimInv'
  BY NextClaimInv DEF PacingInv
<1>2. /\ RowsInOrder' /\ RowsHaveAds' /\ HoldRows'
      /\ SlotsTaken'
      /\ \A e \in Enqueuers : KnowsPace(e)'
      /\ SlotsSpaced'
  BY RowsStep, HoldRowsStep, SlotsTakenStep, KnowsPaceStep, SlotsSpacedStep
<1> QED
  BY <1>1, <1>2 DEF PacingInv

\* With one enqueueDraft at a time, the notBefore slots of an identity are at
\* least the pacing minimum apart in creation order, although an enqueue may be
\* lost between writing nextPublishNotBefore and creating its attempt
\* (bazos-publisher-queue.service.ts:71, 73), and although claims, results and
\* recounts write the same identity row in between.
THEOREM Spaced ==
  ASSUME OneEnqueue
  PROVE  Spec => []SlotsSpaced
<1>1. PacingInv => SlotsSpaced
  BY DEF PacingInv
<1> QED
  BY <1>1, InitPacingInv, NextPacingInv, PTL DEF Spec

-----------------------------------------------------------------------------
(***************************************************************************)
(* Requests that do not overlap.                                           *)
(***************************************************************************)
\* The assumption: a request starts only when no other one runs.
OneAtATime == MaxRunning = 1

-----------------------------------------------------------------------------
(***************************************************************************)
(* A running request has the queue to itself.                              *)
(***************************************************************************)
IdleClaims == \A c \in Claimers : claim[c].pc = "idle"
IdleEnqueues == \A e \in Enqueuers : enqueue[e].pc = "idle"
IdleRecords == \A r \in Recorders : record[r].pc = "idle"
IdleExpires == \A x \in Expirers : expire[x].pc = "idle"
IdleReconciles == \A n \in Reconcilers : reconcile[n].pc = "idle"

AllIdle ==
  IdleClaims /\ IdleEnqueues /\ IdleRecords /\ IdleExpires /\ IdleReconciles

OnlyClaim(c) ==
  /\ \A d \in Claimers \ {c} : claim[d].pc = "idle"
  /\ IdleEnqueues /\ IdleRecords /\ IdleExpires /\ IdleReconciles

OnlyEnqueue(e) ==
  /\ \A f \in Enqueuers \ {e} : enqueue[f].pc = "idle"
  /\ IdleClaims /\ IdleRecords /\ IdleExpires /\ IdleReconciles

OnlyRecord(r) ==
  /\ \A q \in Recorders \ {r} : record[q].pc = "idle"
  /\ IdleClaims /\ IdleEnqueues /\ IdleExpires /\ IdleReconciles

OnlyExpire(x) ==
  /\ \A y \in Expirers \ {x} : expire[y].pc = "idle"
  /\ IdleClaims /\ IdleEnqueues /\ IdleRecords /\ IdleReconciles

OnlyReconcile(n) ==
  /\ \A m \in Reconcilers \ {n} : reconcile[m].pc = "idle"
  /\ IdleClaims /\ IdleEnqueues /\ IdleRecords /\ IdleExpires

OneRuns ==
  /\ \A c \in Claimers : claim[c].pc # "idle" => OnlyClaim(c)
  /\ \A e \in Enqueuers : enqueue[e].pc # "idle" => OnlyEnqueue(e)
  /\ \A r \in Recorders : record[r].pc # "idle" => OnlyRecord(r)
  /\ \A x \in Expirers : expire[x].pc # "idle" => OnlyExpire(x)
  /\ \A n \in Reconcilers : reconcile[n].pc # "idle" => OnlyReconcile(n)


\* Nobody runs, or one request does and Running says so.
LEMMA RunningCounts ==
  ASSUME OneRuns
  PROVE  /\ Running < 1 => AllIdle
         /\ AllIdle => Quiet
<1> DEFINE C == {c \in Claimers : claim[c].pc # "idle"}
           E == {e \in Enqueuers : enqueue[e].pc # "idle"}
           R == {r \in Recorders : record[r].pc # "idle"}
           X == {x \in Expirers : expire[x].pc # "idle"}
           N == {n \in Reconcilers : reconcile[n].pc # "idle"}
<1>0. Running = Cardinality(C) + Cardinality(E) + Cardinality(R)
                  + Cardinality(X) + Cardinality(N)
  BY DEF Running
<1>i. /\ IdleClaims <=> C = {}
      /\ IdleEnqueues <=> E = {}
      /\ IdleRecords <=> R = {}
      /\ IdleExpires <=> X = {}
      /\ IdleReconciles <=> N = {}
  BY DEF IdleClaims, IdleEnqueues, IdleRecords, IdleExpires, IdleReconciles
<1>c. ASSUME NEW c \in Claimers, claim[c].pc # "idle"
      PROVE  C = {c} /\ E = {} /\ R = {} /\ X = {} /\ N = {}
  BY <1>c, <1>i DEF OneRuns, OnlyClaim
<1>e. ASSUME NEW e \in Enqueuers, enqueue[e].pc # "idle"
      PROVE  C = {} /\ E = {e} /\ R = {} /\ X = {} /\ N = {}
  BY <1>e, <1>i DEF OneRuns, OnlyEnqueue
<1>r. ASSUME NEW r \in Recorders, record[r].pc # "idle"
      PROVE  C = {} /\ E = {} /\ R = {r} /\ X = {} /\ N = {}
  BY <1>r, <1>i DEF OneRuns, OnlyRecord
<1>x. ASSUME NEW x \in Expirers, expire[x].pc # "idle"
      PROVE  C = {} /\ E = {} /\ R = {} /\ X = {x} /\ N = {}
  BY <1>x, <1>i DEF OneRuns, OnlyExpire
<1>n. ASSUME NEW n \in Reconcilers, reconcile[n].pc # "idle"
      PROVE  C = {} /\ E = {} /\ R = {} /\ X = {} /\ N = {n}
  BY <1>n, <1>i DEF OneRuns, OnlyReconcile
<1>s. ~AllIdle => \/ \E c \in Claimers : claim[c].pc # "idle"
                  \/ \E e \in Enqueuers : enqueue[e].pc # "idle"
                  \/ \E r \in Recorders : record[r].pc # "idle"
                  \/ \E x \in Expirers : expire[x].pc # "idle"
                  \/ \E n \in Reconcilers : reconcile[n].pc # "idle"
  BY DEF AllIdle, IdleClaims, IdleEnqueues, IdleRecords, IdleExpires,
         IdleReconciles
<1> HIDE DEF C, E, R, X, N
<1>1. Cardinality({}) = 0 /\ \A z : Cardinality({z}) = 1
  BY FS_EmptySet, FS_Singleton
<1>2. ASSUME ~AllIdle PROVE Running = 1
  <2>1. ASSUME NEW c \in Claimers, claim[c].pc # "idle" PROVE Running = 1
    <3>1. /\ Cardinality(C) = 1
          /\ Cardinality(E) = 0
          /\ Cardinality(R) = 0
          /\ Cardinality(X) = 0
          /\ Cardinality(N) = 0
      BY <1>c, <1>1, <2>1, Zenon
    <3> QED
      BY <1>0, <3>1
  <2>2. ASSUME NEW e \in Enqueuers, enqueue[e].pc # "idle" PROVE Running = 1
    <3>1. /\ Cardinality(C) = 0
          /\ Cardinality(E) = 1
          /\ Cardinality(R) = 0
          /\ Cardinality(X) = 0
          /\ Cardinality(N) = 0
      BY <1>e, <1>1, <2>2, Zenon
    <3> QED
      BY <1>0, <3>1
  <2>3. ASSUME NEW r \in Recorders, record[r].pc # "idle" PROVE Running = 1
    <3>1. /\ Cardinality(C) = 0
          /\ Cardinality(E) = 0
          /\ Cardinality(R) = 1
          /\ Cardinality(X) = 0
          /\ Cardinality(N) = 0
      BY <1>r, <1>1, <2>3, Zenon
    <3> QED
      BY <1>0, <3>1
  <2>4. ASSUME NEW x \in Expirers, expire[x].pc # "idle" PROVE Running = 1
    <3>1. /\ Cardinality(C) = 0
          /\ Cardinality(E) = 0
          /\ Cardinality(R) = 0
          /\ Cardinality(X) = 1
          /\ Cardinality(N) = 0
      BY <1>x, <1>1, <2>4, Zenon
    <3> QED
      BY <1>0, <3>1
  <2>5. ASSUME NEW n \in Reconcilers, reconcile[n].pc # "idle" PROVE Running = 1
    <3>1. /\ Cardinality(C) = 0
          /\ Cardinality(E) = 0
          /\ Cardinality(R) = 0
          /\ Cardinality(X) = 0
          /\ Cardinality(N) = 1
      BY <1>n, <1>1, <2>5, Zenon
    <3> QED
      BY <1>0, <3>1
  <2> QED
    BY <1>2, <1>s, <2>1, <2>2, <2>3, <2>4, <2>5
<1>3. AllIdle => Running = 0
  BY <1>0, <1>i, <1>1 DEF AllIdle
<1> QED
  BY <1>2, <1>3 DEF Quiet

\* Who starts finds the queue idle, who goes on has it to itself: the steps of
\* a request leave every other request idle, before and after.
LEMMA ClaimAlone ==
  ASSUME OneAtATime, TypeOK, OneRuns, NEW c \in Claimers, ClaimNext(c)
  PROVE  OnlyClaim(c) /\ OnlyClaim(c)'
<1>1. OnlyClaim(c)
  <2>1. CASE claim[c].pc = "idle"
    <3>1. MayStart
      BY <2>1 DEF ClaimNext, ClaimList, ClaimSkip, ClaimPass,
                  ClaimReadIdentity, ClaimReadGates, ClaimBlock, ClaimBlockAd,
                  ClaimSubmit, ClaimSubmitAd
    <3> QED
      BY <3>1, RunningCounts
         DEF MayStart, OneAtATime, AllIdle, OnlyClaim, IdleClaims
  <2> QED
    BY <2>1 DEF OneRuns
<1>2. /\ UNCHANGED <<enqueue, record, expire, reconcile>>
      /\ \A d \in Claimers \ {c} : claim'[d] = claim[d]
  BY DEF ClaimNext, ClaimList, ClaimSkip, ClaimPass, ClaimReadIdentity,
         ClaimReadGates, ClaimBlock, ClaimBlockAd, ClaimSubmit, ClaimSubmitAd,
         ClaimUnchanged, TypeOK
<1> QED
  BY <1>1, <1>2
     DEF OnlyClaim, IdleEnqueues, IdleRecords, IdleExpires, IdleReconciles

LEMMA EnqueueAlone ==
  ASSUME OneAtATime, TypeOK, OneRuns, NEW e \in Enqueuers, EnqueueDraft(e)
  PROVE  OnlyEnqueue(e) /\ OnlyEnqueue(e)'
<1>1. OnlyEnqueue(e)
  <2>1. CASE enqueue[e].pc = "idle"
    <3>1. MayStart
      BY <2>1 DEF EnqueueDraft, EnqueueRead, EnqueueExisting,
                  EnqueueReadIdentity, EnqueueReadGates, EnqueueReserve,
                  EnqueueMark, EnqueueReject, EnqueueCreate
    <3> QED
      BY <3>1, RunningCounts
         DEF MayStart, OneAtATime, AllIdle, OnlyEnqueue, IdleEnqueues
  <2> QED
    BY <2>1 DEF OneRuns
<1>2. /\ UNCHANGED <<claim, record, expire, reconcile>>
      /\ \A f \in Enqueuers \ {e} : enqueue'[f] = enqueue[f]
  BY DEF EnqueueDraft, EnqueueRead, EnqueueExisting, EnqueueReadIdentity,
         EnqueueReadGates, EnqueueReserve, EnqueueMark, EnqueueReject,
         EnqueueCreate, EnqueueUnchanged, TypeOK
<1> QED
  BY <1>1, <1>2
     DEF OnlyEnqueue, IdleClaims, IdleRecords, IdleExpires, IdleReconciles

LEMMA RecordAlone ==
  ASSUME OneAtATime, TypeOK, OneRuns, NEW r \in Recorders, RecordResult(r)
  PROVE  OnlyRecord(r) /\ OnlyRecord(r)'
<1>1. OnlyRecord(r)
  <2>1. CASE record[r].pc = "idle"
    <3>1. MayStart
      BY <2>1 DEF RecordResult, RecordRead, RecordAttempt, RecordPublishedAd,
                  RecordCount, RecordCadence, RecordFailedAd,
                  RecordChallengeAd, RecordChallengeIdentity
    <3> QED
      BY <3>1, RunningCounts
         DEF MayStart, OneAtATime, AllIdle, OnlyRecord, IdleRecords
  <2> QED
    BY <2>1 DEF OneRuns
<1>2. /\ UNCHANGED <<claim, enqueue, expire, reconcile>>
      /\ \A q \in Recorders \ {r} : record'[q] = record[q]
  BY DEF RecordResult, RecordRead, RecordAttempt, RecordPublishedAd,
         RecordCount, RecordCadence, RecordFailedAd, RecordChallengeAd,
         RecordChallengeIdentity, RecordUnchanged, TypeOK
<1> QED
  BY <1>1, <1>2
     DEF OnlyRecord, IdleClaims, IdleEnqueues, IdleExpires, IdleReconciles

LEMMA ExpireAlone ==
  ASSUME OneAtATime, TypeOK, OneRuns, NEW x \in Expirers,
         ExpireStaleSubmissions(x)
  PROVE  OnlyExpire(x) /\ OnlyExpire(x)'
<1>1. OnlyExpire(x)
  <2>1. CASE expire[x].pc = "idle"
    <3>1. MayStart
      BY <2>1 DEF ExpireStaleSubmissions, ExpireList, ExpireAttempt, ExpireAd
    <3> QED
      BY <3>1, RunningCounts
         DEF MayStart, OneAtATime, AllIdle, OnlyExpire, IdleExpires
  <2> QED
    BY <2>1 DEF OneRuns
<1>2. /\ UNCHANGED <<claim, enqueue, record, reconcile>>
      /\ \A y \in Expirers \ {x} : expire'[y] = expire[y]
  BY DEF ExpireStaleSubmissions, ExpireList, ExpireAttempt, ExpireAd,
         ExpireUnchanged, TypeOK
<1> QED
  BY <1>1, <1>2
     DEF OnlyExpire, IdleClaims, IdleEnqueues, IdleRecords, IdleReconciles

LEMMA ReconcileAlone ==
  ASSUME OneAtATime, TypeOK, OneRuns, NEW n \in Reconcilers,
         ReconcileIdentityCounts(n)
  PROVE  OnlyReconcile(n) /\ OnlyReconcile(n)'
<1>1. OnlyReconcile(n)
  <2>1. CASE reconcile[n].pc = "idle"
    <3>1. MayStart
      BY <2>1 DEF ReconcileIdentityCounts, ReconcileRead, ReconcileCount,
                  ReconcileWrite, RefreshRead, RefreshVisit
    <3> QED
      BY <3>1, RunningCounts
         DEF MayStart, OneAtATime, AllIdle, OnlyReconcile, IdleReconciles
  <2> QED
    BY <2>1 DEF OneRuns
<1>2. /\ UNCHANGED <<claim, enqueue, record, expire>>
      /\ \A m \in Reconcilers \ {n} : reconcile'[m] = reconcile[m]
  BY DEF ReconcileIdentityCounts, ReconcileRead, ReconcileCount,
         ReconcileWrite, RefreshRead, RefreshVisit, ReconcileUnchanged, TypeOK
<1> QED
  BY <1>1, <1>2
     DEF OnlyReconcile, IdleClaims, IdleEnqueues, IdleRecords, IdleExpires

\* The requests of one statement come while nobody runs.
Between ==
  \/ \E i \in Identities : Pause(i) \/ Reverify(i)
  \/ \E d \in Ads : WithdrawAd(d) \/ RestoreAd(d) \/ ReuseDraft(d)

LEMMA BetweenRequests ==
  ASSUME OneAtATime, OneRuns, Between
  PROVE  AllIdle /\ AllIdle' /\ UNCHANGED <<clock, lastPublishedAt, attempt, handlers>>
<1>1. MaySlipIn /\ UNCHANGED <<clock, lastPublishedAt, attempt, handlers>>
  BY DEF Between, Pause, Reverify, WithdrawAd, RestoreAd, ReuseDraft, AdOnly
<1>2. AllIdle
  BY <1>1, RunningCounts DEF MaySlipIn, OneAtATime, Quiet
<1> QED
  BY <1>1, <1>2
     DEF AllIdle, IdleClaims, IdleEnqueues, IdleRecords, IdleExpires,
         IdleReconciles, handlers

LEMMA OneRunsStep ==
  ASSUME OneAtATime, TypeOK, OneRuns, [Next]_vars
  PROVE  OneRuns'
<1> USE DEF IdleClaims, IdleEnqueues, IdleRecords, IdleExpires, IdleReconciles
<1>1. ASSUME NEW c \in Claimers, OnlyClaim(c)' PROVE OneRuns'
  BY <1>1 DEF OneRuns, OnlyClaim, OnlyEnqueue, OnlyRecord, OnlyExpire,
              OnlyReconcile
<1>2. ASSUME NEW e \in Enqueuers, OnlyEnqueue(e)' PROVE OneRuns'
  BY <1>2 DEF OneRuns, OnlyClaim, OnlyEnqueue, OnlyRecord, OnlyExpire,
              OnlyReconcile
<1>3. ASSUME NEW r \in Recorders, OnlyRecord(r)' PROVE OneRuns'
  BY <1>3 DEF OneRuns, OnlyClaim, OnlyEnqueue, OnlyRecord, OnlyExpire,
              OnlyReconcile
<1>4. ASSUME NEW x \in Expirers, OnlyExpire(x)' PROVE OneRuns'
  BY <1>4 DEF OneRuns, OnlyClaim, OnlyEnqueue, OnlyRecord, OnlyExpire,
              OnlyReconcile
<1>5. ASSUME NEW n \in Reconcilers, OnlyReconcile(n)' PROVE OneRuns'
  BY <1>5 DEF OneRuns, OnlyClaim, OnlyEnqueue, OnlyRecord, OnlyExpire,
              OnlyReconcile
<1>6. ASSUME UNCHANGED handlers PROVE OneRuns'
  BY <1>6 DEF OneRuns, OnlyClaim, OnlyEnqueue, OnlyRecord, OnlyExpire,
              OnlyReconcile, handlers
\* A lost request is idle, the others are what they were.
<1>7. ASSUME CrashHandler PROVE OneRuns'
  <2>1. /\ \A c \in Claimers : claim'[c].pc # "idle" => claim[c].pc # "idle"
        /\ \A e \in Enqueuers :
             enqueue'[e].pc # "idle" => enqueue[e].pc # "idle"
        /\ \A r \in Recorders : record'[r].pc # "idle" => record[r].pc # "idle"
        /\ \A x \in Expirers : expire'[x].pc # "idle" => expire[x].pc # "idle"
        /\ \A n \in Reconcilers :
             reconcile'[n].pc # "idle" => reconcile[n].pc # "idle"
    BY <1>7 DEF CrashHandler, TypeOK, NoClaim, NoEnqueue, NoRecord, NoExpire,
                NoReconcile
  <2> QED
    BY <2>1 DEF OneRuns, OnlyClaim, OnlyEnqueue, OnlyRecord, OnlyExpire,
                OnlyReconcile
<1>8. ASSUME Between PROVE UNCHANGED handlers
  BY <1>8, BetweenRequests
<1>9. ASSUME Tick \/ UNCHANGED vars PROVE UNCHANGED handlers
  BY <1>9 DEF Tick, vars, handlers
<1> QED
  BY <1>1, <1>2, <1>3, <1>4, <1>5, <1>6, <1>7, <1>8, <1>9, ClaimAlone,
     EnqueueAlone, RecordAlone, ExpireAlone, ReconcileAlone
     DEF Next, Between

-----------------------------------------------------------------------------
(***************************************************************************)
(* What the one running request knows of the attempt rows.                 *)
(***************************************************************************)
SawNoneRunning(c) ==
  claim[c].pc \in {"read", "gates", "submit"} =>
    \A b \in Attempts :
      Submitting(b) => IdentityOf(b) # IdentityOf(claim[c].current)

MarksQueued(e) ==
  enqueue[e].pc = "mark" =>
    \E a \in Attempts : Queued(a) /\ attempt[a].ad = enqueue[e].ad

ReportsOpen(r) ==
  record[r].pc = "attempt" =>
    /\ Open(record[r].attempt)
    /\ UnclaimedResults \/ Submitting(record[r].attempt)

ExpiresRunning(x) ==
  expire[x].pc # "idle" => \A a \in expire[x].todo : Submitting(a)

SerialInv ==
  /\ ClaimInv
  /\ OneRuns
  /\ RowsHaveAds
  /\ \A c \in Claimers : HoldsQueued(c) /\ SawNoneRunning(c)
  /\ \A e \in Enqueuers : KnowsDraft(e) /\ MarksQueued(e)
  /\ \A r \in Recorders : ReportsOpen(r)
  /\ \A x \in Expirers : ExpiresRunning(x)
  /\ OneOpenAttemptPerAd
  /\ AtMostOneSubmitting

LEMMA InitSerialInv == Init => SerialInv
BY InitClaimInv
   DEF SerialInv, Init, OneRuns, RowsHaveAds, HoldsQueued, SawNoneRunning,
       KnowsDraft, MarksQueued, ReportsOpen, ExpiresRunning, NoClaim,
       NoEnqueue, NoRecord, NoExpire, NoReconcile, OneOpenAttemptPerAd,
       AtMostOneSubmitting, Submitting, Exists, Open, OpenStatus, Absent,
       Checked

\* While a request runs, nobody else writes the database.
LEMMA WhileClaimRuns ==
  ASSUME OneAtATime, TypeOK, OneRuns, [Next]_vars, NEW c \in Claimers,
         claim[c].pc # "idle"
  PROVE  ClaimNext(c) \/ UNCHANGED <<db, awaitingHuman>>
<1>1. ASSUME NEW b \in Claimers, ClaimNext(b) PROVE b = c
  BY <1>1, ClaimAlone DEF OnlyClaim
<1>2. ASSUME NEW e \in Enqueuers, EnqueueDraft(e) PROVE FALSE
  BY <1>2, EnqueueAlone DEF OnlyEnqueue, IdleClaims
<1>3. ASSUME NEW r \in Recorders, RecordResult(r) PROVE FALSE
  BY <1>3, RecordAlone DEF OnlyRecord, IdleClaims
<1>4. ASSUME NEW x \in Expirers, ExpireStaleSubmissions(x) PROVE FALSE
  BY <1>4, ExpireAlone DEF OnlyExpire, IdleClaims
<1>5. ASSUME NEW n \in Reconcilers, ReconcileIdentityCounts(n) PROVE FALSE
  BY <1>5, ReconcileAlone DEF OnlyReconcile, IdleClaims
<1>6. ASSUME Between PROVE FALSE
  BY <1>6, BetweenRequests DEF AllIdle, IdleClaims
<1>7. ASSUME Tick \/ CrashHandler \/ UNCHANGED vars
      PROVE  UNCHANGED <<db, awaitingHuman>>
  BY <1>7 DEF Tick, CrashHandler, vars
<1> QED
  BY <1>1, <1>2, <1>3, <1>4, <1>5, <1>6, <1>7 DEF Next, Between

LEMMA WhileEnqueueRuns ==
  ASSUME OneAtATime, TypeOK, OneRuns, [Next]_vars, NEW e \in Enqueuers,
         enqueue[e].pc # "idle"
  PROVE  EnqueueDraft(e) \/ UNCHANGED <<db, awaitingHuman>>
<1>1. ASSUME NEW f \in Enqueuers, EnqueueDraft(f) PROVE f = e
  BY <1>1, EnqueueAlone DEF OnlyEnqueue
<1>2. ASSUME NEW c \in Claimers, ClaimNext(c) PROVE FALSE
  BY <1>2, ClaimAlone DEF OnlyClaim, IdleEnqueues
<1>3. ASSUME NEW r \in Recorders, RecordResult(r) PROVE FALSE
  BY <1>3, RecordAlone DEF OnlyRecord, IdleEnqueues
<1>4. ASSUME NEW x \in Expirers, ExpireStaleSubmissions(x) PROVE FALSE
  BY <1>4, ExpireAlone DEF OnlyExpire, IdleEnqueues
<1>5. ASSUME NEW n \in Reconcilers, ReconcileIdentityCounts(n) PROVE FALSE
  BY <1>5, ReconcileAlone DEF OnlyReconcile, IdleEnqueues
<1>6. ASSUME Between PROVE FALSE
  BY <1>6, BetweenRequests DEF AllIdle, IdleEnqueues
<1>7. ASSUME Tick \/ CrashHandler \/ UNCHANGED vars
      PROVE  UNCHANGED <<db, awaitingHuman>>
  BY <1>7 DEF Tick, CrashHandler, vars
<1> QED
  BY <1>1, <1>2, <1>3, <1>4, <1>5, <1>6, <1>7 DEF Next, Between

LEMMA WhileRecordRuns ==
  ASSUME OneAtATime, TypeOK, OneRuns, [Next]_vars, NEW r \in Recorders,
         record[r].pc # "idle"
  PROVE  RecordResult(r) \/ UNCHANGED <<db, awaitingHuman>>
<1>1. ASSUME NEW q \in Recorders, RecordResult(q) PROVE q = r
  BY <1>1, RecordAlone DEF OnlyRecord
<1>2. ASSUME NEW c \in Claimers, ClaimNext(c) PROVE FALSE
  BY <1>2, ClaimAlone DEF OnlyClaim, IdleRecords
<1>3. ASSUME NEW e \in Enqueuers, EnqueueDraft(e) PROVE FALSE
  BY <1>3, EnqueueAlone DEF OnlyEnqueue, IdleRecords
<1>4. ASSUME NEW x \in Expirers, ExpireStaleSubmissions(x) PROVE FALSE
  BY <1>4, ExpireAlone DEF OnlyExpire, IdleRecords
<1>5. ASSUME NEW n \in Reconcilers, ReconcileIdentityCounts(n) PROVE FALSE
  BY <1>5, ReconcileAlone DEF OnlyReconcile, IdleRecords
<1>6. ASSUME Between PROVE FALSE
  BY <1>6, BetweenRequests DEF AllIdle, IdleRecords
<1>7. ASSUME Tick \/ CrashHandler \/ UNCHANGED vars
      PROVE  UNCHANGED <<db, awaitingHuman>>
  BY <1>7 DEF Tick, CrashHandler, vars
<1> QED
  BY <1>1, <1>2, <1>3, <1>4, <1>5, <1>6, <1>7 DEF Next, Between

LEMMA WhileExpireRuns ==
  ASSUME OneAtATime, TypeOK, OneRuns, [Next]_vars, NEW x \in Expirers,
         expire[x].pc # "idle"
  PROVE  ExpireStaleSubmissions(x) \/ UNCHANGED <<db, awaitingHuman>>
<1>1. ASSUME NEW y \in Expirers, ExpireStaleSubmissions(y) PROVE y = x
  BY <1>1, ExpireAlone DEF OnlyExpire
<1>2. ASSUME NEW c \in Claimers, ClaimNext(c) PROVE FALSE
  BY <1>2, ClaimAlone DEF OnlyClaim, IdleExpires
<1>3. ASSUME NEW e \in Enqueuers, EnqueueDraft(e) PROVE FALSE
  BY <1>3, EnqueueAlone DEF OnlyEnqueue, IdleExpires
<1>4. ASSUME NEW r \in Recorders, RecordResult(r) PROVE FALSE
  BY <1>4, RecordAlone DEF OnlyRecord, IdleExpires
<1>5. ASSUME NEW n \in Reconcilers, ReconcileIdentityCounts(n) PROVE FALSE
  BY <1>5, ReconcileAlone DEF OnlyReconcile, IdleExpires
<1>6. ASSUME Between PROVE FALSE
  BY <1>6, BetweenRequests DEF AllIdle, IdleExpires
<1>7. ASSUME Tick \/ CrashHandler \/ UNCHANGED vars
      PROVE  UNCHANGED <<db, awaitingHuman>>
  BY <1>7 DEF Tick, CrashHandler, vars
<1> QED
  BY <1>1, <1>2, <1>3, <1>4, <1>5, <1>6, <1>7 DEF Next, Between

\* Why a row changes: whoever writes it found it as it is now.
LEMMA RowChanges ==
  ASSUME OneAtATime, SerialInv, [Next]_vars, NEW a \in Attempts
  PROVE  \/ attempt'[a] = attempt[a]
         \/ /\ ~Exists(a)
            /\ \E e \in Enqueuers : EnqueueReject(e, a) \/ EnqueueCreate(e, a)
         \/ /\ Queued(a)
            /\ \E c \in Claimers : /\ claim[c].current = a
                                   /\ ClaimBlock(c) \/ ClaimSubmit(c)
         \/ /\ Open(a)
            /\ \E r \in Recorders : record[r].attempt = a /\ RecordAttempt(r)
         \/ /\ Submitting(a)
            /\ \E x \in Expirers : ExpireAttempt(x, a)
<1>0. /\ attempt \in [Attempts -> AttemptRow]
      /\ \A c \in Claimers : HoldsQueued(c)
      /\ \A r \in Recorders : ReportsOpen(r)
      /\ \A x \in Expirers : ExpiresRunning(x)
  BY DEF SerialInv, ClaimInv, TypeOK
<1>1. ASSUME NEW e \in Enqueuers, NEW b \in Attempts,
             EnqueueReject(e, b) \/ EnqueueCreate(e, b)
      PROVE  /\ ~Exists(b)
             /\ a # b => attempt'[a] = attempt[a]
  BY <1>0, <1>1 DEF EnqueueReject, EnqueueCreate, NextRow
<1>2. ASSUME NEW c \in Claimers, ClaimBlock(c) \/ ClaimSubmit(c)
      PROVE  /\ Queued(claim[c].current)
             /\ a # claim[c].current => attempt'[a] = attempt[a]
  BY <1>0, <1>2 DEF ClaimBlock, ClaimSubmit, HoldsQueued
<1>3. ASSUME NEW r \in Recorders, RecordAttempt(r)
      PROVE  /\ Open(record[r].attempt)
             /\ a # record[r].attempt => attempt'[a] = attempt[a]
  BY <1>0, <1>3 DEF RecordAttempt, ReportsOpen
<1>4. ASSUME NEW x \in Expirers, NEW b \in Attempts, ExpireAttempt(x, b)
      PROVE  /\ Submitting(b)
             /\ a # b => attempt'[a] = attempt[a]
  BY <1>0, <1>4 DEF ExpireAttempt, ExpiresRunning
<1> QED
  BY <1>1, <1>2, <1>3, <1>4, AttemptWrites

LEMMA ClaimKnowsStep ==
  ASSUME OneAtATime, SerialInv, [Next]_vars, NEW c \in Claimers
  PROVE  HoldsQueued(c)' /\ SawNoneRunning(c)'
<1>0. /\ TypeOK /\ OneRuns /\ HoldsQueued(c) /\ SawNoneRunning(c)
      /\ claim \in [Claimers -> ClaimState] /\ claim[c] \in ClaimState
      /\ attempt \in [Attempts -> AttemptRow]
  BY DEF SerialInv, ClaimInv, TypeOK
<1>1. CASE claim'[c].pc \in {"idle", "blockAd", "submitAd"}
  BY <1>1 DEF HoldsQueued, SawNoneRunning
<1>2. CASE claim'[c] = NoClaim
  BY <1>1, <1>2 DEF NoClaim
<1>3. CASE claim'[c] = claim[c] /\ UNCHANGED db
  BY <1>0, <1>3
     DEF db, HoldsQueued, SawNoneRunning, Queued, Submitting, IdentityOf
<1>4. CASE ClaimNext(c)
  <2>1. CASE ClaimList(c)
    <3>1. /\ claim'[c].pc = "check" /\ claim'[c].todo = Candidates
          /\ attempt' = attempt
      BY <1>0, <2>1 DEF ClaimList, NoClaim, db
    <3> QED
      BY <3>1 DEF Candidates, Window, Due, HoldsQueued, SawNoneRunning, Queued
  <2>2. ASSUME NEW a \in Attempts, ClaimSkip(c, a), claim'[c] # NoClaim
        PROVE  HoldsQueued(c)' /\ SawNoneRunning(c)'
    <3>1. /\ claim'[c].pc = "check" /\ claim'[c].todo = claim[c].todo \ {a}
          /\ claim[c].pc = "check"
          /\ attempt' = attempt
      BY <1>0, <2>2 DEF ClaimSkip, ClaimState, db
    <3> QED
      BY <1>0, <3>1 DEF HoldsQueued, SawNoneRunning, Queued
  <2>3. ASSUME NEW a \in Attempts, ClaimPass(c, a)
        PROVE  HoldsQueued(c)' /\ SawNoneRunning(c)'
    <3>1. /\ claim'[c].pc = "read" /\ claim'[c].current = a
          /\ claim[c].pc = "check" /\ a \in claim[c].todo
          /\ ~Busy(a)
          /\ attempt' = attempt
      BY <1>0, <2>3 DEF ClaimPass, NoClaim, IsFirst, db
    <3>2. Queued(a)
      BY <1>0, <3>1 DEF HoldsQueued
    <3>3. ASSUME NEW b \in Attempts, Submitting(b)
          PROVE  IdentityOf(b) # IdentityOf(a)
      BY <3>1, <3>2, <3>3 DEF Busy, Submitting, Queued
    <3> QED
      BY <3>1, <3>2, <3>3
         DEF HoldsQueued, SawNoneRunning, Queued, Submitting, IdentityOf
  <2>4. CASE ClaimReadIdentity(c) \/ ClaimReadGates(c)
    <3>1. /\ claim'[c].current = claim[c].current
          /\ claim[c].pc \in {"read", "gates"}
          /\ claim'[c].pc # "check"
          /\ attempt' = attempt
      BY <1>0, <2>4 DEF ClaimReadIdentity, ClaimReadGates, ClaimState, db
    <3> QED
      BY <1>0, <3>1
         DEF HoldsQueued, SawNoneRunning, Queued, Submitting, IdentityOf
  <2>5. CASE ClaimBlock(c) \/ ClaimSubmit(c)
    BY <1>0, <1>1, <2>5 DEF ClaimBlock, ClaimSubmit, ClaimState
  <2>6. CASE ClaimBlockAd(c) \/ ClaimSubmitAd(c)
    BY <1>0, <1>2, <2>6 DEF ClaimBlockAd, ClaimSubmitAd
  <2> QED
    BY <1>2, <1>4, <2>1, <2>2, <2>3, <2>4, <2>5, <2>6 DEF ClaimNext
<1> QED
  BY <1>0, <1>1, <1>2, <1>3, <1>4, ClaimSteps, WhileClaimRuns

LEMMA EnqueueKnowsStep ==
  ASSUME OneAtATime, SerialInv, [Next]_vars, NEW e \in Enqueuers
  PROVE  KnowsDraft(e)' /\ MarksQueued(e)'
<1>0. /\ TypeOK /\ OneRuns /\ KnowsDraft(e) /\ MarksQueued(e)
      /\ enqueue \in [Enqueuers -> EnqueueState] /\ enqueue[e] \in EnqueueState
      /\ attempt \in [Attempts -> AttemptRow]
  BY DEF SerialInv, ClaimInv, TypeOK
<1>1. CASE enqueue'[e].pc = "idle"
  BY <1>1 DEF KnowsDraft, MarksQueued, Checked
<1>2. CASE enqueue'[e] = NoEnqueue
  BY <1>1, <1>2 DEF NoEnqueue
<1>3. CASE enqueue'[e] = enqueue[e] /\ UNCHANGED db
  BY <1>0, <1>3 DEF db, KnowsDraft, MarksQueued, HasOpenAttempt, Open, Queued
\* A step within the checks.
<1>4. ASSUME enqueue'[e].ad = enqueue[e].ad, enqueue[e].pc # "idle",
             enqueue'[e].pc # "mark", attempt' = attempt,
             enqueue'[e].pc \in Checked => ~HasOpenAttempt(enqueue[e].ad)
      PROVE  KnowsDraft(e)' /\ MarksQueued(e)'
  BY <1>0, <1>4 DEF KnowsDraft, MarksQueued, HasOpenAttempt, Open
<1>5. CASE EnqueueDraft(e)
  <2>1. ASSUME NEW d \in Ads, EnqueueRead(e, d)
        PROVE  KnowsDraft(e)' /\ MarksQueued(e)'
    <3>1. enqueue'[e].pc = "existing" /\ enqueue'[e].ad = d
      BY <1>0, <2>1 DEF EnqueueRead, NoEnqueue
    <3> QED
      BY <3>1 DEF KnowsDraft, MarksQueued, Checked
  <2>2. ASSUME EnqueueExisting(e), enqueue'[e] # NoEnqueue
        PROVE  KnowsDraft(e)' /\ MarksQueued(e)'
    <3>1. /\ ~HasOpenAttempt(enqueue[e].ad)
          /\ enqueue'[e].ad = enqueue[e].ad
          /\ enqueue[e].pc = "existing" /\ enqueue'[e].pc = "read"
          /\ attempt' = attempt
      BY <1>0, <2>2 DEF EnqueueExisting, EnqueueState, db
    <3> QED
      BY <1>4, <3>1
  <2>3. CASE EnqueueReadIdentity(e) \/ EnqueueReserve(e)
    <3>1. /\ enqueue'[e].ad = enqueue[e].ad
          /\ enqueue[e].pc \in {"read", "reserve"}
          /\ enqueue'[e].pc \in {"gates", "create"}
          /\ attempt' = attempt
      BY <1>0, <2>3 DEF EnqueueReadIdentity, EnqueueReserve, EnqueueState, db
    <3> QED
      BY <1>0, <1>4, <3>1 DEF KnowsDraft, Checked
  <2>4. CASE EnqueueReadGates(e)
    <3>1. PICK others \in BOOLEAN, slot \in Slots(enqueue[e].slot) :
            enqueue' = [enqueue EXCEPT
              ![e].pc = IF enqueue[e].allowed /\ others THEN "reserve"
                        ELSE "reject",
              ![e].slot = slot]
      BY <2>4 DEF EnqueueReadGates
    <3>2. /\ enqueue'[e].ad = enqueue[e].ad
          /\ enqueue[e].pc = "gates"
          /\ enqueue'[e].pc \in {"reserve", "reject"}
          /\ attempt' = attempt
      BY <1>0, <2>4, <3>1 DEF EnqueueReadGates, EnqueueState, db
    <3> QED
      BY <1>0, <1>4, <3>2 DEF KnowsDraft, Checked
  <2>5. ASSUME NEW a \in Attempts, EnqueueReject(e, a)
        PROVE  KnowsDraft(e)' /\ MarksQueued(e)'
    BY <1>0, <1>2, <2>5 DEF EnqueueReject
  <2>6. ASSUME NEW a \in Attempts, EnqueueCreate(e, a)
        PROVE  KnowsDraft(e)' /\ MarksQueued(e)'
    <3>1. /\ enqueue'[e].pc = "mark" /\ enqueue'[e].ad = enqueue[e].ad
          /\ enqueue[e].pc = "create"
      BY <1>0, <2>6 DEF EnqueueCreate, EnqueueState
    <3>2. attempt'[a].status = "queued" /\ attempt'[a].ad = enqueue[e].ad
      BY <1>0, <2>6 DEF EnqueueCreate, Absent
    <3> QED
      BY <1>0, <3>1, <3>2 DEF KnowsDraft, MarksQueued, Checked, Queued
  <2>7. CASE EnqueueMark(e)
    BY <1>0, <1>2, <2>7 DEF EnqueueMark
  <2> QED
    BY <1>2, <1>5, <2>1, <2>2, <2>3, <2>4, <2>5, <2>6, <2>7 DEF EnqueueDraft
<1> QED
  BY <1>0, <1>1, <1>2, <1>3, <1>5, EnqueueSteps, WhileEnqueueRuns

LEMMA ReportsOpenStep ==
  ASSUME OneAtATime, SerialInv, [Next]_vars, NEW r \in Recorders
  PROVE  ReportsOpen(r)'
<1>0. /\ TypeOK /\ OneRuns /\ ReportsOpen(r)
      /\ record \in [Recorders -> RecordState] /\ record[r] \in RecordState
  BY DEF SerialInv, ClaimInv, TypeOK
<1>1. CASE record'[r].pc # "attempt"
  BY <1>1 DEF ReportsOpen
<1>2. CASE record'[r] = NoRecord
  BY <1>1, <1>2 DEF NoRecord
<1>3. CASE record'[r] = record[r] /\ UNCHANGED db
  BY <1>0, <1>3 DEF db, ReportsOpen, Open, Submitting
<1>4. CASE RecordResult(r)
  <2>1. ASSUME NEW a \in Attempts, NEW outcome \in Outcome,
               RecordRead(r, a, outcome)
        PROVE  ReportsOpen(r)'
    <3>1. record'[r].attempt = a /\ attempt' = attempt
      BY <1>0, <2>1 DEF RecordRead, db
    <3> QED
      BY <2>1, <3>1 DEF RecordRead, ReportsOpen, Open, Submitting
  <2>2. ASSUME ~\E a \in Attempts, outcome \in Outcome : RecordRead(r, a, outcome)
        PROVE  ReportsOpen(r)'
    <3>1. record[r].pc # "idle" => record[r] # NoRecord
      BY DEF NoRecord
    <3>2. record'[r].pc # "attempt" \/ record'[r] = NoRecord
      BY <1>0, <1>4, <2>2, <3>1
         DEF RecordResult, RecordAttempt, RecordPublishedAd, RecordCount,
             RecordCadence, RecordFailedAd, RecordChallengeAd,
             RecordChallengeIdentity, RecordState
    <3> QED
      BY <1>1, <1>2, <3>2
  <2> QED
    BY <2>1, <2>2
<1> QED
  BY <1>0, <1>1, <1>2, <1>3, <1>4, RecordSteps, WhileRecordRuns

LEMMA ExpiresRunningStep ==
  ASSUME OneAtATime, SerialInv, [Next]_vars, NEW x \in Expirers
  PROVE  ExpiresRunning(x)'
<1>0. /\ TypeOK /\ OneRuns /\ ExpiresRunning(x)
      /\ expire \in [Expirers -> ExpireState] /\ expire[x] \in ExpireState
      /\ attempt \in [Attempts -> AttemptRow]
  BY DEF SerialInv, ClaimInv, TypeOK
<1>1. CASE expire'[x] = NoExpire
  BY <1>1 DEF ExpiresRunning, NoExpire
<1>2. CASE /\ expire[x].pc # "idle"
           /\ expire'[x].todo = expire[x].todo /\ attempt' = attempt
  BY <1>0, <1>2 DEF ExpiresRunning, Submitting
<1>3. CASE ExpireList(x)
  <2>1. expire'[x].todo = Stale /\ attempt' = attempt
    BY <1>0, <1>3 DEF ExpireList, db
  <2> QED
    BY <2>1 DEF ExpiresRunning, Stale, Submitting
<1>4. ASSUME NEW a \in Attempts, ExpireAttempt(x, a) PROVE ExpiresRunning(x)'
  <2>1. /\ expire[x].pc # "idle"
        /\ expire'[x].todo = expire[x].todo \ {a}
        /\ \A b \in Attempts \ {a} : attempt'[b] = attempt[b]
        /\ expire[x].todo \subseteq Attempts
    BY <1>0, <1>4 DEF ExpireAttempt, ExpireState
  <2> QED
    BY <1>0, <2>1 DEF ExpiresRunning, Submitting
<1>5. ASSUME ExpireAd(x), expire'[x] # NoExpire PROVE ExpiresRunning(x)'
  <2>1. expire'[x].todo = expire[x].todo /\ attempt' = attempt
    BY <1>0, <1>5 DEF ExpireAd, ExpireState
  <2> QED
    BY <1>2, <1>5, <2>1 DEF ExpireAd
<1>6. CASE expire'[x] = expire[x] /\ expire[x].pc # "idle" /\ UNCHANGED db
  BY <1>2, <1>6 DEF db
<1>7. CASE expire'[x] = expire[x] /\ expire[x].pc = "idle"
  BY <1>7 DEF ExpiresRunning
<1> QED
  BY <1>0, <1>1, <1>3, <1>4, <1>5, <1>6, <1>7, ExpireSteps, WhileExpireRuns
     DEF ExpireStaleSubmissions

\* What a new row has: the ad of the request, and a status by its gates.
LEMMA NewRow ==
  ASSUME attempt \in [Attempts -> AttemptRow],
         NEW e \in Enqueuers, NEW a \in Attempts
  PROVE  /\ EnqueueReject(e, a) => /\ attempt'[a].status = "policy_blocked"
                                   /\ attempt'[a].ad = enqueue[e].ad
                                   /\ enqueue[e].pc # "idle"
         /\ EnqueueCreate(e, a) => /\ attempt'[a].status = "queued"
                                   /\ attempt'[a].ad = enqueue[e].ad
                                   /\ enqueue[e].pc # "idle"
<1>1. ASSUME EnqueueReject(e, a)
      PROVE  /\ attempt'[a] = [Absent EXCEPT !.status = "policy_blocked",
                                             !.ad = enqueue[e].ad]
             /\ enqueue[e].pc # "idle"
  BY <1>1 DEF EnqueueReject
<1>2. ASSUME EnqueueCreate(e, a)
      PROVE  /\ attempt'[a] = [Absent EXCEPT !.status = "queued",
                                             !.ad = enqueue[e].ad,
                                             !.notBefore = enqueue[e].slot]
             /\ enqueue[e].pc # "idle"
  BY <1>2 DEF EnqueueCreate
<1> QED
  BY <1>1, <1>2 DEF Absent

LEMMA RowsHaveAdsStep ==
  ASSUME OneAtATime, SerialInv, [Next]_vars
  PROVE  RowsHaveAds'
<1>0. /\ TypeOK /\ RowsHaveAds
      /\ attempt \in [Attempts -> AttemptRow]
      /\ \A e \in Enqueuers : KnowsDraft(e)
  BY DEF SerialInv, ClaimInv, TypeOK
<1> SUFFICES ASSUME NEW a \in Attempts, Exists(a)' PROVE attempt'[a].ad \in Ads
  BY DEF RowsHaveAds
<1>1. CASE Exists(a)
  BY <1>0, <1>1, RowSteps, RowsStay DEF RowsHaveAds
<1>2. ASSUME NEW e \in Enqueuers, EnqueueReject(e, a) \/ EnqueueCreate(e, a)
      PROVE  attempt'[a].ad \in Ads
  BY <1>0, <1>2, NewRow DEF KnowsDraft
<1>3. attempt'[a] # attempt[a] \/ Exists(a)
  BY DEF Exists
<1>4. Queued(a) \/ Open(a) \/ Submitting(a) => Exists(a)
  BY DEF Queued, Open, OpenStatus, Submitting, Exists
<1> QED
  BY <1>1, <1>2, <1>3, <1>4, RowChanges

\* An attempt that is open after a step was so before it, or is the new one.
LEMMA OpenBefore ==
  ASSUME OneAtATime, SerialInv, [Next]_vars, NEW a \in Attempts, Open(a)'
  PROVE  \/ Open(a) /\ attempt'[a].ad = attempt[a].ad
         \/ \E e \in Enqueuers : EnqueueCreate(e, a)
<1>0. TypeOK /\ attempt \in [Attempts -> AttemptRow]
  BY DEF SerialInv, ClaimInv, TypeOK
<1>1. CASE attempt'[a] = attempt[a]
  BY <1>1 DEF Open
<1>2. CASE Open(a)
  <2>1. Exists(a)
    BY <1>2 DEF Open, OpenStatus, Exists
  <2> QED
    BY <1>0, <1>2, <2>1, RowSteps, RowsStay
<1>3. ASSUME NEW e \in Enqueuers, EnqueueReject(e, a) PROVE FALSE
  BY <1>0, <1>3 DEF EnqueueReject, Absent, Open, OpenStatus
<1>4. Queued(a) \/ Submitting(a) => Open(a)
  BY DEF Queued, Open, OpenStatus, Submitting
<1> QED
  BY <1>1, <1>2, <1>3, <1>4, RowChanges

LEMMA OneOpenAttemptStep ==
  ASSUME OneAtATime, SerialInv, [Next]_vars
  PROVE  OneOpenAttemptPerAd'
<1>0. /\ TypeOK /\ OneRuns /\ OneOpenAttemptPerAd
      /\ attempt \in [Attempts -> AttemptRow]
      /\ \A e \in Enqueuers : KnowsDraft(e)
  BY DEF SerialInv, ClaimInv, TypeOK
\* The draft of a new attempt had no open attempt.
<1>1. ASSUME NEW a \in Attempts, NEW b \in Attempts, NEW e \in Enqueuers,
             EnqueueCreate(e, a), a # b, Open(b), attempt'[b].ad = attempt[b].ad
      PROVE  attempt'[a].ad # attempt'[b].ad
  <2>1. attempt'[a].ad = enqueue[e].ad
    BY <1>0, <1>1 DEF EnqueueCreate, Absent
  <2>2. ~HasOpenAttempt(enqueue[e].ad)
    BY <1>0, <1>1 DEF KnowsDraft, EnqueueCreate, Checked
  <2> QED
    BY <1>1, <2>1, <2>2 DEF HasOpenAttempt
<1>2. ASSUME NEW a \in Attempts, NEW b \in Attempts,
             NEW e \in Enqueuers, EnqueueCreate(e, a),
             NEW f \in Enqueuers, EnqueueCreate(f, b)
      PROVE  a = b
  <2>1. ~Exists(a) /\ ~Exists(b)
    BY <1>2 DEF EnqueueCreate, NextRow
  <2>2. Exists(b)'
    BY <1>0, <1>2, NewRow DEF Exists
  <2>3. a # b => attempt'[b] = attempt[b]
    BY <1>0, <1>2 DEF EnqueueCreate
  <2> QED
    BY <2>1, <2>2, <2>3 DEF Exists
<1> SUFFICES ASSUME NEW a \in Attempts, NEW b \in Attempts, Open(a)', Open(b)',
                    attempt'[a].ad = attempt'[b].ad
             PROVE  a = b
  BY DEF OneOpenAttemptPerAd
<1>3. \/ Open(a) /\ attempt'[a].ad = attempt[a].ad
      \/ \E e \in Enqueuers : EnqueueCreate(e, a)
  BY OpenBefore
<1>4. \/ Open(b) /\ attempt'[b].ad = attempt[b].ad
      \/ \E e \in Enqueuers : EnqueueCreate(e, b)
  BY OpenBefore
<1> QED
  BY <1>0, <1>1, <1>2, <1>3, <1>4 DEF OneOpenAttemptPerAd

LEMMA OneSubmittingStep ==
  ASSUME OneAtATime, SerialInv, [Next]_vars
  PROVE  AtMostOneSubmitting'
<1>0. /\ TypeOK /\ OneRuns /\ AtMostOneSubmitting
      /\ attempt \in [Attempts -> AttemptRow]
      /\ \A c \in Claimers : SawNoneRunning(c)
  BY DEF SerialInv, ClaimInv, TypeOK
\* Who starts saw no other attempt of the identity run.
<1>1. ASSUME NEW m \in Attempts, NEW n \in Attempts, NEW c \in Claimers,
             StartedBy(m, c), Submitting(n), attempt'[n] = attempt[n]
      PROVE  Owner[attempt'[m].ad] # Owner[attempt'[n].ad]
  <2>1. attempt'[m].ad = attempt[m].ad
    BY <1>0, <1>1 DEF StartedBy, AttemptRow
  <2> QED
    BY <1>0, <1>1, <2>1 DEF StartedBy, SawNoneRunning, IdentityOf
<1>2. ASSUME NEW m \in Attempts, NEW n \in Attempts,
             NEW c \in Claimers, StartedBy(m, c),
             NEW d \in Claimers, StartedBy(n, d)
      PROVE  m = n
  BY <1>0, <1>2 DEF StartedBy, OneRuns, OnlyClaim
<1> SUFFICES ASSUME NEW a \in Attempts, NEW b \in Attempts,
                    Submitting(a)', Submitting(b)',
                    Owner[attempt'[a].ad] = Owner[attempt'[b].ad]
             PROVE  a = b
  BY DEF AtMostOneSubmitting, SameIdentity, IdentityOf
<1>3. CASE attempt'[a] = attempt[a] /\ attempt'[b] = attempt[b]
  BY <1>0, <1>3
     DEF AtMostOneSubmitting, SameIdentity, IdentityOf, Submitting, Exists
<1>4. \A n \in {a, b} : attempt'[n] = attempt[n] => Submitting(n)
  BY DEF Submitting
<1> QED
  BY <1>0, <1>1, <1>2, <1>3, <1>4, StartOrStay

LEMMA NextSerialInv ==
  ASSUME OneAtATime
  PROVE  SerialInv /\ [Next]_vars => SerialInv'
<1> SUFFICES ASSUME SerialInv, [Next]_vars PROVE SerialInv'
  OBVIOUS
<1>1. ClaimInv' /\ OneRuns'
  BY NextClaimInv, OneRunsStep DEF SerialInv, ClaimInv
<1>2. /\ \A c \in Claimers : HoldsQueued(c)' /\ SawNoneRunning(c)'
      /\ \A e \in Enqueuers : KnowsDraft(e)' /\ MarksQueued(e)'
      /\ \A r \in Recorders : ReportsOpen(r)'
      /\ \A x \in Expirers : ExpiresRunning(x)'
  BY ClaimKnowsStep, EnqueueKnowsStep, ReportsOpenStep, ExpiresRunningStep
<1>3. RowsHaveAds' /\ OneOpenAttemptPerAd' /\ AtMostOneSubmitting'
  BY RowsHaveAdsStep, OneOpenAttemptStep, OneSubmittingStep
<1> QED
  BY <1>1, <1>2, <1>3 DEF SerialInv

LEMMA SerialInvariant ==
  ASSUME OneAtATime
  PROVE  Spec => []SerialInv
BY InitSerialInv, NextSerialInv, PTL DEF Spec

\* recordResult refuses a terminal attempt
\* (bazos-publisher-queue.service.ts:215) and so does nobody else write one:
\* without overlap an outcome is final, whatever is lost on the way.
THEOREM OutcomeIsFinal ==
  ASSUME OneAtATime
  PROVE  Spec => TerminalIsFinal
<1>1. ASSUME SerialInv, [Next]_vars, NEW a \in Attempts, Terminal(a)
      PROVE  attempt'[a].status = attempt[a].status
  <2>1. ~Queued(a) /\ ~Submitting(a) /\ ~Open(a) /\ Exists(a)
    BY <1>1 DEF Terminal, TerminalStatus, Outcome, Queued, Submitting, Open,
                OpenStatus, Exists
  <2> QED
    BY <1>1, <2>1, RowChanges
<1>2. SerialInv /\ [Next]_vars =>
        [\A a \in Attempts : Terminal(a) =>
           attempt'[a].status = attempt[a].status]_attempt
  BY <1>1
<1> QED
  BY <1>2, SerialInvariant, PTL DEF Spec, TerminalIsFinal

\* Without overlap a draft has at most one open attempt and an identity at most
\* one running one, for any number of workers, lost requests and results
\* reported out of turn.
THEOREM OnePerAdAndIdentity ==
  ASSUME OneAtATime
  PROVE  Spec => [](OneOpenAttemptPerAd /\ AtMostOneSubmitting)
<1>1. SerialInv => OneOpenAttemptPerAd /\ AtMostOneSubmitting
  BY DEF SerialInv
<1> QED
  BY <1>1, SerialInvariant, PTL

-----------------------------------------------------------------------------
(***************************************************************************)
(* Ads follow their attempts, except the ad the running request is about   *)
(* to write; a challenge on record blocks its identity, except while the   *)
(* result that reports it is on its way to the identity.                   *)
(***************************************************************************)
WillWrite(d) ==
  \/ \E c \in Claimers : claim[c].pc \in {"blockAd", "submitAd"} /\ ClaimedAd(c) = d
  \/ \E e \in Enqueuers : enqueue[e].pc = "mark" /\ enqueue[e].ad = d
  \/ \E r \in Recorders : record[r].pc = "ad" /\ RecordAd(r) = d
  \/ \E x \in Expirers :
       expire[x].pc = "ad" /\ attempt[expire[x].current].ad = d

Challenges(r, i) ==
  /\ \/ record[r].pc = "ad" /\ record[r].outcome = "challenge_required"
     \/ record[r].pc = "identity"
  /\ RecordIdentity(r) = i

ChallengeBlocks ==
  \A i \in Identities : awaitingHuman[i] =>
    identity[i].standing = "blocked" \/ \E r \in Recorders : Challenges(r, i)

\* The claim read the identity and its gates passed.
Allowed(c) == claim[c].pc = "submit" \/ (claim[c].pc = "gates" /\ claim[c].allowed)

SawClear(c) ==
  Allowed(c) => identity[Owner[ClaimedAd(c)]].standing = "clear"

StartsRunning(c) ==
  claim[c].pc = "submitAd" => Submitting(claim[c].current)

\* The outcome a request is about to write to the ad is on its attempt, and the
\* attempt was the only open one of the ad.
Ended(a, status) ==
  /\ a \in Attempts /\ attempt[a].status = status
  /\ ~HasOpenAttempt(attempt[a].ad)

EndsRow ==
  /\ \A c \in Claimers :
       claim[c].pc = "blockAd" => Ended(claim[c].current, "policy_blocked")
  /\ \A r \in Recorders :
       record[r].pc = "ad" => Ended(record[r].attempt, record[r].outcome)
  /\ \A x \in Expirers :
       expire[x].pc = "ad" => Ended(expire[x].current, "failed")

FollowInv ==
  /\ SerialInv
  /\ \A d \in Ads : ShowsAttempts(d) \/ WillWrite(d)
  /\ EndsRow
  /\ \A c \in Claimers : SawClear(c) /\ StartsRunning(c)
  /\ ChallengeBlocks

LEMMA InitFollowInv == Init => FollowInv
BY InitSerialInv
   DEF FollowInv, Init, ShowsAttempts, EndsRow, SawClear, Allowed, StartsRunning,
       ChallengeBlocks, NoClaim, NoRecord, NoExpire, Open, OpenStatus, Absent

\* The assumption: no request overlaps another one, none is lost.
Undisturbed == OneAtATime /\ ~Crashes

LEMMA SerialSteps ==
  ASSUME Undisturbed, SerialInv, [Next]_vars
  PROVE  \/ \E c \in Claimers : ClaimNext(c) /\ OnlyClaim(c) /\ OnlyClaim(c)'
         \/ \E e \in Enqueuers :
              EnqueueDraft(e) /\ OnlyEnqueue(e) /\ OnlyEnqueue(e)'
         \/ \E r \in Recorders :
              RecordResult(r) /\ OnlyRecord(r) /\ OnlyRecord(r)'
         \/ \E x \in Expirers :
              ExpireStaleSubmissions(x) /\ OnlyExpire(x) /\ OnlyExpire(x)'
         \/ \E n \in Reconcilers :
              ReconcileIdentityCounts(n) /\ OnlyReconcile(n) /\ OnlyReconcile(n)'
         \/ /\ Between /\ AllIdle /\ AllIdle'
            /\ UNCHANGED <<clock, lastPublishedAt, attempt, handlers>>
         \/ UNCHANGED <<db, handlers, awaitingHuman>>
<1>0. TypeOK /\ OneRuns /\ OneAtATime
  BY DEF SerialInv, ClaimInv, Undisturbed
<1>1. ~CrashHandler
  BY DEF CrashHandler, Undisturbed
<1>2. Tick \/ UNCHANGED vars => UNCHANGED <<db, handlers, awaitingHuman>>
  BY DEF Tick, vars
<1> QED
  BY <1>0, <1>1, <1>2, ClaimAlone, EnqueueAlone, RecordAlone, ExpireAlone,
     ReconcileAlone, BetweenRequests
     DEF Next, Between

\* What may change while an ad goes on showing its attempts: rows of other ads,
\* new rows that are not open, and its own status to one that says nothing.
LEMMA ShowsKept ==
  ASSUME TypeOK, NEW d \in Ads, ShowsAttempts(d),
         \/ ad'[d].status = ad[d].status
         \/ ad'[d].status \in {"draft", "deleted"},
         \A a \in Attempts :
           \/ attempt'[a] = attempt[a]
           \/ /\ ~Exists(a) \/ attempt[a].ad # d
              /\ attempt'[a].status \notin OpenStatus \/ attempt'[a].ad # d
  PROVE  ShowsAttempts(d)'
<1>1. ASSUME NEW status, status # "absent", CameTo(d, status)
      PROVE  CameTo(d, status)'
  BY <1>1 DEF CameTo, Exists
<1>2. ASSUME NEW a \in Attempts, Open(a)', attempt'[a].ad = d
      PROVE  Open(a) /\ attempt[a].ad = d
  BY <1>2 DEF Open
<1> QED
  BY <1>1, <1>2 DEF ShowsAttempts

\* An ad shows an outcome when the attempt that had it was its last open one.
LEMMA ShowsEnd ==
  ASSUME NEW d \in Ads, NEW a, NEW status, Ended(a, status), attempt[a].ad = d,
         attempt' = attempt,
         <<status, ad'[d].status>> \in
           {<<"submitted", "published">>, <<"failed", "failed">>,
            <<"challenge_required", "challenge">>,
            <<"policy_blocked", "blocked_policy">>}
  PROVE  ShowsAttempts(d)'
<1>1. CameTo(d, status)'
  BY DEF CameTo, Ended
<1>2. \A b \in Attempts : ~(Open(b)' /\ attempt'[b].ad = d)
  BY DEF Ended, HasOpenAttempt, Open
<1> QED
  BY <1>1, <1>2 DEF ShowsAttempts

LEMMA ShowsStep ==
  ASSUME Undisturbed, FollowInv, [Next]_vars, NEW d \in Ads
  PROVE  (ShowsAttempts(d) \/ WillWrite(d))'
<1>0. /\ SerialInv /\ TypeOK /\ OneRuns
      /\ attempt \in [Attempts -> AttemptRow] /\ ad \in [Ads -> AdRow]
      /\ claim \in [Claimers -> ClaimState]
      /\ record \in [Recorders -> RecordState]
      /\ expire \in [Expirers -> ExpireState]
  BY DEF FollowInv, SerialInv, ClaimInv, TypeOK
<1>f. (ShowsAttempts(d) \/ WillWrite(d)) /\ EndsRow
  BY DEF FollowInv
<1> USE DEF IdleClaims, IdleEnqueues, IdleRecords, IdleExpires, IdleReconciles
<1>1. ASSUME NEW c \in Claimers, ClaimNext(c), OnlyClaim(c)
      PROVE  (ShowsAttempts(d) \/ WillWrite(d))'
  <2>1. \/ ShowsAttempts(d)
        \/ claim[c].pc \in {"blockAd", "submitAd"} /\ ClaimedAd(c) = d
    BY <1>f, <1>1 DEF WillWrite, OnlyClaim
  <2>2. CASE UNCHANGED db /\ claim[c].pc \notin {"blockAd", "submitAd"}
    BY <1>0, <2>1, <2>2, ShowsKept DEF db
  <2>3. CASE ClaimBlock(c) \/ ClaimSubmit(c)
    <3>1. /\ claim'[c].current = claim[c].current
          /\ claim'[c].pc \in {"blockAd", "submitAd"}
          /\ claim[c].current \in Attempts
          /\ claim[c].pc \notin {"blockAd", "submitAd"}
          /\ ad' = ad
      BY <1>0, <2>3
         DEF ClaimBlock, ClaimSubmit, ClaimState, SerialInv, HoldsQueued
    <3>2. \A a \in Attempts \ {claim[c].current} : attempt'[a] = attempt[a]
      BY <1>0, <2>3 DEF ClaimBlock, ClaimSubmit
    <3>3. ClaimedAd(c)' = ClaimedAd(c)
      BY <1>0, <2>3, <3>1 DEF ClaimBlock, ClaimSubmit, ClaimedAd, AttemptRow
    <3>4. CASE ClaimedAd(c) = d
      BY <3>1, <3>3, <3>4 DEF WillWrite
    <3>5. CASE ClaimedAd(c) # d
      BY <1>0, <2>1, <3>1, <3>2, <3>3, <3>5, ShowsKept DEF ClaimedAd
    <3> QED
      BY <3>4, <3>5
  <2>4. CASE ClaimBlockAd(c) \/ ClaimSubmitAd(c)
    <3>1. /\ attempt' = attempt
          /\ ClaimedAd(c) # d => ad'[d] = ad[d]
      BY <1>0, <2>4 DEF ClaimBlockAd, ClaimSubmitAd
    <3>2. CASE ClaimedAd(c) # d
      BY <1>0, <2>1, <3>1, <3>2, ShowsKept
    <3>3. CASE ClaimedAd(c) = d /\ ClaimBlockAd(c)
      <4>1. Ended(claim[c].current, "policy_blocked")
        BY <1>f, <3>3 DEF EndsRow, ClaimBlockAd
      <4>2. ad'[d].status = "blocked_policy"
        BY <1>0, <3>3 DEF ClaimBlockAd
      <4> QED
        BY <3>1, <3>3, <4>1, <4>2, ShowsEnd DEF ClaimedAd
    <3>4. CASE ClaimedAd(c) = d /\ ClaimSubmitAd(c)
      <4>1. Submitting(claim[c].current) /\ claim[c].current \in Attempts
        BY <1>0, <3>4
           DEF ClaimSubmitAd, FollowInv, StartsRunning, SerialInv, ClaimInv,
               KnowsRows, Held
      <4>2. ad'[d].status = "publishing"
        BY <1>0, <3>4 DEF ClaimSubmitAd
      <4> QED
        BY <3>1, <3>4, <4>1, <4>2
           DEF ShowsAttempts, CameTo, Submitting, ClaimedAd
    <3> QED
      BY <2>4, <3>2, <3>3, <3>4
  <2> QED
    BY <1>1, <2>2, <2>3, <2>4
       DEF ClaimNext, ClaimList, ClaimSkip, ClaimPass, ClaimReadIdentity,
           ClaimReadGates
<1>2. ASSUME NEW e \in Enqueuers, EnqueueDraft(e), OnlyEnqueue(e)
      PROVE  (ShowsAttempts(d) \/ WillWrite(d))'
  <2>0. enqueue \in [Enqueuers -> EnqueueState]
    BY <1>0 DEF TypeOK
  <2>1. \/ ShowsAttempts(d)
        \/ enqueue[e].pc = "mark" /\ enqueue[e].ad = d
    BY <1>f, <1>2 DEF WillWrite, OnlyEnqueue
  <2>2. CASE ad' = ad /\ attempt' = attempt /\ enqueue[e].pc # "mark"
    BY <1>0, <2>1, <2>2, ShowsKept
  <2>3. ASSUME NEW a \in Attempts, EnqueueReject(e, a) \/ EnqueueCreate(e, a)
        PROVE  (ShowsAttempts(d) \/ WillWrite(d))'
    <3>1. /\ ad' = ad /\ ~Exists(a) /\ enqueue[e].pc # "mark"
          /\ \A b \in Attempts \ {a} : attempt'[b] = attempt[b]
      BY <1>0, <2>3 DEF EnqueueReject, EnqueueCreate, NextRow
    <3>2. CASE EnqueueReject(e, a)
      <4>1. attempt'[a].status = "policy_blocked"
        BY <1>0, <3>2 DEF EnqueueReject, Absent
      <4> QED
        BY <1>0, <2>1, <3>1, <4>1, ShowsKept DEF OpenStatus
    <3>3. CASE EnqueueCreate(e, a)
      <4>1. /\ attempt'[a].ad = enqueue[e].ad
            /\ enqueue'[e].pc = "mark" /\ enqueue'[e].ad = enqueue[e].ad
        BY <1>0, <2>0, <3>3 DEF EnqueueCreate, EnqueueState, Absent
      <4>2. CASE enqueue[e].ad = d
        BY <4>1, <4>2 DEF WillWrite
      <4>3. CASE enqueue[e].ad # d
        BY <1>0, <2>1, <3>1, <4>1, <4>3, ShowsKept
      <4> QED
        BY <4>2, <4>3
    <3> QED
      BY <2>3, <3>2, <3>3
  <2>4. CASE EnqueueMark(e)
    <3>1. CASE enqueue[e].ad # d
      BY <1>0, <2>1, <2>4, <3>1, ShowsKept DEF EnqueueMark
    <3>2. CASE enqueue[e].ad = d
      <4>1. ad'[d].status = "queued" /\ attempt' = attempt
        BY <1>0, <2>4, <3>2 DEF EnqueueMark
      <4>2. \E a \in Attempts : Queued(a) /\ attempt[a].ad = d
        BY <1>0, <2>4, <3>2 DEF EnqueueMark, SerialInv, MarksQueued
      <4> QED
        BY <4>1, <4>2 DEF ShowsAttempts, CameTo, Queued
    <3> QED
      BY <3>1, <3>2
  <2> QED
    BY <1>2, <2>2, <2>3, <2>4
       DEF EnqueueDraft, EnqueueRead, EnqueueExisting, EnqueueReadIdentity,
           EnqueueReadGates, EnqueueReserve, db
<1>3. ASSUME NEW r \in Recorders, RecordResult(r), OnlyRecord(r)
      PROVE  (ShowsAttempts(d) \/ WillWrite(d))'
  <2>1. \/ ShowsAttempts(d)
        \/ record[r].pc = "ad" /\ RecordAd(r) = d
    BY <1>f, <1>3 DEF WillWrite, OnlyRecord
  <2>2. CASE ad' = ad /\ attempt' = attempt /\ record[r].pc # "ad"
    BY <1>0, <2>1, <2>2, ShowsKept
  <2>3. CASE RecordAttempt(r)
    <3>1. /\ record'[r].attempt = record[r].attempt
          /\ record'[r].pc = "ad" /\ record[r].pc = "attempt"
          /\ record[r].attempt \in Attempts
          /\ ad' = ad
          /\ \A a \in Attempts \ {record[r].attempt} : attempt'[a] = attempt[a]
      BY <1>0, <2>3 DEF RecordAttempt, RecordState, NoRecord
    <3>2. RecordAd(r)' = RecordAd(r)
      BY <1>0, <2>3, <3>1 DEF RecordAttempt, RecordAd, AttemptRow
    <3>3. CASE RecordAd(r) = d
      BY <3>1, <3>2, <3>3 DEF WillWrite
    <3>4. CASE RecordAd(r) # d
      BY <1>0, <2>1, <3>1, <3>2, <3>4, ShowsKept DEF RecordAd
    <3> QED
      BY <3>3, <3>4
  <2>4. CASE RecordPublishedAd(r) \/ RecordFailedAd(r) \/ RecordChallengeAd(r)
    <3>1. /\ attempt' = attempt
          /\ RecordAd(r) # d => ad'[d] = ad[d]
          /\ RecordAd(r) = d =>
               <<record[r].outcome, ad'[d].status>> \in
                 {<<"submitted", "published">>, <<"failed", "failed">>,
                  <<"challenge_required", "challenge">>}
          /\ record[r].pc = "ad"
      <4>1. CASE RecordPublishedAd(r)
        BY <1>0, <4>1 DEF RecordPublishedAd
      <4>2. CASE RecordFailedAd(r)
        BY <1>0, <4>2 DEF RecordFailedAd
      <4>3. CASE RecordChallengeAd(r)
        BY <1>0, <4>3 DEF RecordChallengeAd
      <4> QED
        BY <2>4, <4>1, <4>2, <4>3
    <3>2. CASE RecordAd(r) = d
      <4>1. Ended(record[r].attempt, record[r].outcome)
        BY <1>f, <3>1 DEF EndsRow
      <4> QED
        BY <3>1, <3>2, <4>1, ShowsEnd DEF RecordAd
    <3>3. CASE RecordAd(r) # d
      BY <1>0, <2>1, <3>1, <3>3, ShowsKept
    <3> QED
      BY <3>2, <3>3
  <2> QED
    BY <1>3, <2>2, <2>3, <2>4
       DEF RecordResult, RecordRead, RecordCount, RecordCadence,
           RecordChallengeIdentity, db
<1>4. ASSUME NEW x \in Expirers, ExpireStaleSubmissions(x), OnlyExpire(x)
      PROVE  (ShowsAttempts(d) \/ WillWrite(d))'
  <2>1. \/ ShowsAttempts(d)
        \/ expire[x].pc = "ad" /\ attempt[expire[x].current].ad = d
    BY <1>f, <1>4 DEF WillWrite, OnlyExpire
  <2>2. CASE ExpireList(x)
    BY <1>0, <2>1, <2>2, ShowsKept DEF ExpireList, db
  <2>3. ASSUME NEW a \in Attempts, ExpireAttempt(x, a)
        PROVE  (ShowsAttempts(d) \/ WillWrite(d))'
    <3>1. /\ expire'[x].current = a /\ expire'[x].pc = "ad"
          /\ expire[x].pc = "attempt"
          /\ ad' = ad
          /\ attempt'[a].ad = attempt[a].ad
          /\ \A b \in Attempts \ {a} : attempt'[b] = attempt[b]
      BY <1>0, <2>3 DEF ExpireAttempt, AttemptRow
    <3>2. CASE attempt[a].ad = d
      BY <3>1, <3>2 DEF WillWrite
    <3>3. CASE attempt[a].ad # d
      BY <1>0, <2>1, <3>1, <3>3, ShowsKept
    <3> QED
      BY <3>2, <3>3
  <2>4. CASE ExpireAd(x)
    <3>1. CASE attempt[expire[x].current].ad = d
      <4>1. Ended(expire[x].current, "failed")
        BY <1>f, <2>4 DEF EndsRow, ExpireAd
      <4>2. ad'[d].status = "failed" /\ attempt' = attempt
        BY <1>0, <2>4, <3>1 DEF ExpireAd
      <4> QED
        BY <3>1, <4>1, <4>2, ShowsEnd
    <3>2. CASE attempt[expire[x].current].ad # d
      BY <1>0, <2>1, <2>4, <3>2, ShowsKept DEF ExpireAd
    <3> QED
      BY <3>1, <3>2
  <2> QED
    BY <1>4, <2>2, <2>3, <2>4 DEF ExpireStaleSubmissions
<1>5. ASSUME NEW n \in Reconcilers, ReconcileIdentityCounts(n), OnlyReconcile(n)
      PROVE  ShowsAttempts(d)'
  <2>1. ShowsAttempts(d)
    BY <1>f, <1>5 DEF WillWrite, OnlyReconcile
  <2>2. /\ attempt' = attempt
        /\ ad'[d].status = ad[d].status \/ ad'[d].status = "deleted"
    <3>1. CASE RefreshVisit(n)
      BY <1>0, <3>1 DEF RefreshVisit
    <3>2. CASE ad' = ad /\ attempt' = attempt
      BY <3>2
    <3> QED
      BY <1>5, <3>1, <3>2, Zenon
         DEF ReconcileIdentityCounts, ReconcileRead, ReconcileCount,
             ReconcileWrite, RefreshRead, db
  <2> QED
    BY <1>0, <2>1, <2>2, ShowsKept
<1>6. ASSUME Between, AllIdle, attempt' = attempt PROVE ShowsAttempts(d)'
  <2>1. ShowsAttempts(d)
    BY <1>f, <1>6 DEF WillWrite, AllIdle
  <2>2. ad'[d].status = ad[d].status \/ ad'[d].status \in {"deleted", "draft"}
    <3>1. ASSUME NEW b \in Ads, WithdrawAd(b)
          PROVE  ad'[d].status = ad[d].status \/ ad'[d].status \in {"deleted", "draft"}
      BY <1>0, <3>1 DEF WithdrawAd
    <3>2. ASSUME NEW b \in Ads, RestoreAd(b)
          PROVE  ad'[d].status = ad[d].status \/ ad'[d].status \in {"deleted", "draft"}
      BY <1>0, <3>2 DEF RestoreAd
    <3>3. ASSUME NEW b \in Ads, ReuseDraft(b)
          PROVE  ad'[d].status = ad[d].status \/ ad'[d].status \in {"deleted", "draft"}
      BY <1>0, <3>3 DEF ReuseDraft
    <3> QED
      BY <1>6, <3>1, <3>2, <3>3 DEF Between, Pause, Reverify
  <2> QED
    BY <1>0, <1>6, <2>1, <2>2, ShowsKept
<1>7. ASSUME UNCHANGED <<db, handlers>> PROVE (ShowsAttempts(d) \/ WillWrite(d))'
  BY <1>f, <1>7
     DEF db, handlers, ShowsAttempts, CameTo, Open, WillWrite, ClaimedAd,
         RecordAd
<1> QED
  BY <1>0, <1>1, <1>2, <1>3, <1>4, <1>5, <1>6, <1>7, SerialSteps

\* Only the statement before gives a request an outcome to write to an ad.
LEMMA EndsRowStep ==
  ASSUME Undisturbed, FollowInv, [Next]_vars
  PROVE  EndsRow'
<1>0. /\ SerialInv /\ TypeOK /\ EndsRow /\ OneOpenAttemptPerAd
      /\ attempt \in [Attempts -> AttemptRow]
      /\ claim \in [Claimers -> ClaimState]
      /\ record \in [Recorders -> RecordState]
      /\ expire \in [Expirers -> ExpireState]
  BY DEF FollowInv, SerialInv, ClaimInv, TypeOK
<1> USE DEF IdleClaims, IdleEnqueues, IdleRecords, IdleExpires, IdleReconciles
\* The open attempt of an ad ends.
<1>1. ASSUME NEW a \in Attempts, Open(a), NEW status \in TerminalStatus,
             attempt' = [attempt EXCEPT ![a].status = status]
      PROVE  Ended(a, status)'
  <2>1. attempt'[a].status = status /\ attempt'[a].ad = attempt[a].ad
    BY <1>0, <1>1 DEF AttemptRow
  <2>2. \A b \in Attempts \ {a} : attempt'[b] = attempt[b]
    BY <1>0, <1>1
  <2>3. status \notin OpenStatus
    BY <1>1 DEF TerminalStatus, Outcome, OpenStatus
  <2> QED
    BY <1>0, <1>1, <2>1, <2>2, <2>3
       DEF Ended, HasOpenAttempt, Open, OneOpenAttemptPerAd
<1>2. ASSUME NEW c \in Claimers, claim'[c].pc = "blockAd"
      PROVE  Ended(claim[c].current, "policy_blocked")'
  <2>1. CASE ClaimBlock(c)
    <3>1. /\ Open(claim[c].current) /\ claim[c].current \in Attempts
          /\ claim'[c].current = claim[c].current
      BY <1>0, <2>1
         DEF ClaimBlock, SerialInv, HoldsQueued, ClaimState, Open, OpenStatus,
             Queued
    <3> QED
      BY <1>1, <2>1, <3>1 DEF ClaimBlock, Ended, TerminalStatus
  <2>2. CASE ClaimNext(c) /\ ~ClaimBlock(c)
    <3>1. ASSUME NEW a \in Attempts, ClaimSkip(c, a) \/ ClaimPass(c, a)
          PROVE  claim'[c] = NoClaim \/ claim'[c].pc \in {"check", "read"}
      <4>1. CASE ClaimSkip(c, a)
        BY <1>0, <4>1 DEF ClaimSkip, ClaimState
      <4>2. CASE ClaimPass(c, a)
        BY <1>0, <4>2 DEF ClaimPass, NoClaim
      <4> QED
        BY <3>1, <4>1, <4>2
    <3>2. CASE ClaimList(c)
      BY <1>0, <1>2, <3>2 DEF ClaimList, NoClaim
    <3>3. CASE ClaimReadIdentity(c) \/ ClaimReadGates(c) \/ ClaimSubmit(c)
      BY <1>0, <1>2, <3>3
         DEF ClaimReadIdentity, ClaimReadGates, ClaimSubmit, ClaimState
    <3>4. CASE ClaimBlockAd(c) \/ ClaimSubmitAd(c)
      BY <1>0, <1>2, <3>4 DEF ClaimBlockAd, ClaimSubmitAd, NoClaim
    <3> QED
      BY <1>2, <2>2, <3>1, <3>2, <3>3, <3>4 DEF ClaimNext, NoClaim
  <2>3. CASE claim'[c] = claim[c] /\ ~ClaimNext(c)
    <3>1. UNCHANGED db
      BY <1>0, <1>2, <2>3, WhileClaimRuns DEF SerialInv, Undisturbed
    <3>2. Ended(claim[c].current, "policy_blocked")
      BY <1>0, <1>2, <2>3 DEF EndsRow
    <3> QED
      BY <2>3, <3>1, <3>2 DEF Ended, HasOpenAttempt, Open, db
  <2> QED
    BY <1>0, <1>2, <2>1, <2>2, <2>3, ClaimSteps DEF NoClaim
<1>3. ASSUME NEW r \in Recorders, record'[r].pc = "ad"
      PROVE  Ended(record[r].attempt, record[r].outcome)'
  <2>1. CASE RecordAttempt(r)
    <3>1. /\ Open(record[r].attempt) /\ record[r].attempt \in Attempts
          /\ record[r].outcome \in TerminalStatus
          /\ record'[r].attempt = record[r].attempt
          /\ record'[r].outcome = record[r].outcome
      BY <1>0, <2>1
         DEF RecordAttempt, SerialInv, ReportsOpen, RecordState, NoRecord,
             TerminalStatus
    <3> QED
      BY <1>1, <2>1, <3>1 DEF RecordAttempt, Ended
  <2>2. CASE RecordResult(r) /\ ~RecordAttempt(r)
    <3>1. \/ record'[r] = NoRecord
          \/ record'[r].pc \in {"attempt", "count", "cadence", "identity"}
      BY <1>0, <2>2
         DEF RecordResult, RecordRead, RecordPublishedAd, RecordCount,
             RecordCadence, RecordFailedAd, RecordChallengeAd,
             RecordChallengeIdentity, RecordState, NoRecord
    <3> QED
      BY <1>3, <3>1 DEF NoRecord
  <2>3. CASE record'[r] = record[r] /\ ~RecordResult(r)
    <3>1. UNCHANGED db
      BY <1>0, <1>3, <2>3, WhileRecordRuns DEF SerialInv, Undisturbed
    <3>2. Ended(record[r].attempt, record[r].outcome)
      BY <1>0, <1>3, <2>3 DEF EndsRow
    <3> QED
      BY <2>3, <3>1, <3>2 DEF Ended, HasOpenAttempt, Open, db
  <2> QED
    BY <1>0, <1>3, <2>1, <2>2, <2>3, RecordSteps DEF NoRecord
<1>4. ASSUME NEW x \in Expirers, expire'[x].pc = "ad"
      PROVE  Ended(expire[x].current, "failed")'
  <2>1. ASSUME NEW a \in Attempts, ExpireAttempt(x, a)
        PROVE  Ended(expire[x].current, "failed")'
    <3>1. Open(a) /\ expire'[x].current = a
      BY <1>0, <2>1
         DEF ExpireAttempt, SerialInv, ExpiresRunning, Submitting, Open,
             OpenStatus
    <3>2. attempt' = [attempt EXCEPT ![a].status = "failed"]
      BY <2>1 DEF ExpireAttempt
    <3>3. Ended(a, "failed")'
      BY <1>1, <3>1, <3>2 DEF TerminalStatus, Outcome
    <3> QED
      BY <3>1, <3>3 DEF Ended
  <2>2. CASE ExpireList(x) \/ ExpireAd(x)
    <3>1. CASE ExpireList(x)
      BY <1>0, <1>4, <3>1 DEF ExpireList
    <3>2. CASE ExpireAd(x)
      <4>1. \/ expire'[x] = NoExpire
            \/ expire'[x] = [expire[x] EXCEPT !.pc = "attempt", !.current = 0]
        BY <1>0, <3>2 DEF ExpireAd
      <4>2. [expire[x] EXCEPT !.pc = "attempt", !.current = 0].pc = "attempt"
        BY <1>0 DEF ExpireState
      <4>3. NoExpire.pc = "idle"
        BY DEF NoExpire
      <4>4. expire'[x].pc \in {"idle", "attempt"}
        BY <4>1, <4>2, <4>3, Zenon
      <4> QED
        BY <1>4, <4>4
    <3> QED
      BY <2>2, <3>1, <3>2
  <2>3. CASE expire'[x] = expire[x] /\ ~ExpireStaleSubmissions(x)
    <3>1. UNCHANGED db
      BY <1>0, <1>4, <2>3, WhileExpireRuns DEF SerialInv, Undisturbed
    <3>2. Ended(expire[x].current, "failed")
      BY <1>0, <1>4, <2>3 DEF EndsRow
    <3> QED
      BY <2>3, <3>1, <3>2 DEF Ended, HasOpenAttempt, Open, db
  <2> QED
    BY <1>0, <1>4, <2>1, <2>2, <2>3, ExpireSteps
       DEF ExpireStaleSubmissions, NoExpire
<1> QED
  BY <1>2, <1>3, <1>4 DEF EndsRow

\* What passed the gates stays as it was seen: only the claim itself writes.
LEMMA GatesSeen ==
  ASSUME Undisturbed, SerialInv, [Next]_vars, NEW c \in Claimers, Allowed(c)'
  PROVE  /\ UNCHANGED db
         /\ ClaimedAd(c)' = ClaimedAd(c)
         /\ claim[c].current \in Attempts
         /\ ~Submitting(claim[c].current)
         /\ \/ Allowed(c)
            \/ AdPassesIdentityGates(ClaimedAd(c)) /\ clock' = clock
<1>0. /\ TypeOK /\ OneRuns /\ OneAtATime /\ HoldsQueued(c)
      /\ claim \in [Claimers -> ClaimState] /\ claim[c] \in ClaimState
  BY DEF SerialInv, ClaimInv, TypeOK, Undisturbed
<1>1. claim'[c].pc \in {"gates", "submit"}
  BY DEF Allowed
<1>2. CASE claim'[c] = NoClaim
  BY <1>1, <1>2 DEF NoClaim
<1>3. CASE ClaimNext(c)
  <2>1. CASE ClaimReadIdentity(c)
    <3>1. /\ claim'[c].allowed = AdPassesIdentityGates(ClaimedAd(c))
          /\ claim'[c].pc = "gates"
          /\ claim'[c].current = claim[c].current
          /\ claim[c].pc = "read"
      BY <1>0, <2>1 DEF ClaimReadIdentity, ClaimState
    <3> QED
      BY <1>0, <2>1, <3>1
         DEF ClaimReadIdentity, Allowed, ClaimedAd, db, ClaimUnchanged,
             HoldsQueued, Queued, Submitting
  <2>2. CASE ClaimReadGates(c)
    <3>1. PICK others \in BOOLEAN :
            claim' = [claim EXCEPT ![c].pc =
                        IF claim[c].allowed /\ others THEN "submit" ELSE "block"]
      BY <2>2 DEF ClaimReadGates
    <3>2. /\ claim'[c].pc = "submit" => claim[c].allowed
          /\ claim'[c].pc = "submit" \/ claim'[c].pc = "block"
          /\ claim'[c].current = claim[c].current
          /\ claim[c].pc = "gates"
      <4>1. claim[c].pc = "gates"
        BY <2>2 DEF ClaimReadGates
      <4>2. CASE claim[c].allowed /\ others
        <5>1. claim' = [claim EXCEPT ![c].pc = "submit"]
          BY <3>1, <4>2, Zenon
        <5> QED
          BY <1>0, <4>1, <4>2, <5>1 DEF ClaimState
      <4>3. CASE ~(claim[c].allowed /\ others)
        <5>1. claim' = [claim EXCEPT ![c].pc = "block"]
          BY <3>1, <4>3, Zenon
        <5> QED
          BY <1>0, <4>1, <5>1 DEF ClaimState
      <4> QED
        BY <4>2, <4>3
    <3>3. Allowed(c)
      BY <1>1, <3>2 DEF Allowed
    <3>4. UNCHANGED db
      BY <2>2 DEF ClaimReadGates
    <3>5. claim[c].current \in Attempts /\ ~Submitting(claim[c].current)
      BY <1>0, <3>2 DEF HoldsQueued, Queued, Submitting
    <3> QED
      BY <3>2, <3>3, <3>4, <3>5 DEF ClaimedAd, db
  <2>3. ASSUME NEW a \in Attempts, ClaimSkip(c, a) \/ ClaimPass(c, a)
        PROVE  claim'[c] = NoClaim \/ claim'[c].pc \in {"check", "read"}
    <3>1. CASE ClaimSkip(c, a)
      BY <1>0, <3>1 DEF ClaimSkip, ClaimState
    <3>2. CASE ClaimPass(c, a)
      BY <1>0, <3>2 DEF ClaimPass, NoClaim
    <3> QED
      BY <2>3, <3>1, <3>2
  <2>4. CASE ClaimList(c)
    BY <1>0, <1>1, <2>4 DEF ClaimList, NoClaim
  <2>5. CASE ClaimBlock(c) \/ ClaimSubmit(c)
    BY <1>0, <1>1, <2>5 DEF ClaimBlock, ClaimSubmit, ClaimState
  <2>6. CASE ClaimBlockAd(c) \/ ClaimSubmitAd(c)
    BY <1>0, <1>2, <2>6 DEF ClaimBlockAd, ClaimSubmitAd
  <2> QED
    BY <1>1, <1>2, <1>3, <2>1, <2>2, <2>3, <2>4, <2>5, <2>6 DEF ClaimNext
<1>4. CASE claim'[c] = claim[c] /\ UNCHANGED db
  BY <1>0, <1>1, <1>4
     DEF Allowed, ClaimedAd, db, HoldsQueued, Queued, Submitting
<1> QED
  BY <1>0, <1>1, <1>2, <1>3, <1>4, ClaimSteps, WhileClaimRuns

LEMMA ClaimSawStep ==
  ASSUME Undisturbed, FollowInv, [Next]_vars, NEW c \in Claimers
  PROVE  SawClear(c)' /\ StartsRunning(c)'
<1>0. /\ SerialInv /\ TypeOK /\ OneRuns /\ OneAtATime
      /\ SawClear(c) /\ StartsRunning(c) /\ HoldsQueued(c)
      /\ claim \in [Claimers -> ClaimState] /\ claim[c] \in ClaimState
      /\ attempt \in [Attempts -> AttemptRow]
  BY DEF FollowInv, SerialInv, ClaimInv, TypeOK, Undisturbed
<1>1. SawClear(c)'
  BY <1>0, GatesSeen DEF SawClear, AdPassesIdentityGates, IdentityGates, db
<1>2. StartsRunning(c)'
  <2>1. CASE claim'[c].pc # "submitAd"
    BY <2>1 DEF StartsRunning
  <2>2. CASE claim'[c] = NoClaim
    BY <2>1, <2>2 DEF NoClaim
  <2>3. CASE claim'[c] = claim[c] /\ UNCHANGED db
    BY <1>0, <2>3 DEF StartsRunning, Submitting, db
  <2>4. CASE ClaimSubmit(c)
    <3>1. /\ claim'[c].current = claim[c].current
          /\ claim[c].current \in Attempts
      BY <1>0, <2>4 DEF ClaimSubmit, ClaimState, HoldsQueued
    <3> QED
      BY <1>0, <2>4, <3>1 DEF ClaimSubmit, StartsRunning, Submitting, AttemptRow
  <2>5. ASSUME NEW a \in Attempts, ClaimSkip(c, a) \/ ClaimPass(c, a)
        PROVE  claim'[c] = NoClaim \/ claim'[c].pc \in {"check", "read"}
    <3>1. CASE ClaimSkip(c, a)
      BY <1>0, <3>1 DEF ClaimSkip, ClaimState
    <3>2. CASE ClaimPass(c, a)
      BY <1>0, <3>2 DEF ClaimPass, NoClaim
    <3> QED
      BY <2>5, <3>1, <3>2
  <2>6. CASE ClaimList(c)
    BY <1>0, <2>1, <2>6 DEF ClaimList, NoClaim
  <2>7. CASE ClaimReadIdentity(c) \/ ClaimReadGates(c) \/ ClaimBlock(c)
    BY <1>0, <2>1, <2>7
       DEF ClaimReadIdentity, ClaimReadGates, ClaimBlock, ClaimState
  <2>8. CASE ClaimBlockAd(c) \/ ClaimSubmitAd(c)
    BY <1>0, <2>2, <2>8 DEF ClaimBlockAd, ClaimSubmitAd
  <2> QED
    BY <1>0, <2>1, <2>2, <2>3, <2>4, <2>5, <2>6, <2>7, <2>8, ClaimSteps,
       WhileClaimRuns
       DEF ClaimNext
<1> QED
  BY <1>1, <1>2

\* Claims, enqueues, expiries and recounts leave the standing of an identity
\* and the challenges on record alone.
LEMMA StandingKept ==
  ASSUME TypeOK, NEW i \in Identities,
         \/ \E c \in Claimers : ClaimNext(c)
         \/ \E e \in Enqueuers : EnqueueDraft(e)
         \/ \E x \in Expirers : ExpireStaleSubmissions(x)
         \/ \E n \in Reconcilers : ReconcileIdentityCounts(n)
  PROVE  /\ identity'[i].standing = identity[i].standing
         /\ awaitingHuman' = awaitingHuman
<1>0. identity \in [Identities -> IdentityRow]
  BY DEF TypeOK
<1> USE DEF db
<1>1. ASSUME NEW c \in Claimers, ClaimNext(c)
      PROVE  identity' = identity /\ awaitingHuman' = awaitingHuman
  BY <1>1 DEF ClaimNext, ClaimList, ClaimSkip, ClaimPass, ClaimReadIdentity,
              ClaimReadGates, ClaimBlock, ClaimBlockAd, ClaimSubmit,
              ClaimSubmitAd, ClaimUnchanged
<1>2. ASSUME NEW e \in Enqueuers, EnqueueDraft(e)
      PROVE  /\ identity' = identity \/ EnqueueReserve(e)
             /\ awaitingHuman' = awaitingHuman
  BY <1>2 DEF EnqueueDraft, EnqueueRead, EnqueueExisting, EnqueueReadIdentity,
              EnqueueReadGates, EnqueueReserve, EnqueueMark, EnqueueReject,
              EnqueueCreate, EnqueueUnchanged
<1>3. ASSUME NEW e \in Enqueuers, EnqueueReserve(e)
      PROVE  identity'[i].standing = identity[i].standing
  BY <1>0, <1>3 DEF EnqueueReserve, IdentityRow
<1>4. ASSUME NEW x \in Expirers, ExpireStaleSubmissions(x)
      PROVE  identity' = identity /\ awaitingHuman' = awaitingHuman
  BY <1>4 DEF ExpireStaleSubmissions, ExpireList, ExpireAttempt, ExpireAd,
              ExpireUnchanged
<1>5. ASSUME NEW n \in Reconcilers, ReconcileIdentityCounts(n)
      PROVE  /\ identity' = identity \/ ReconcileWrite(n)
             /\ awaitingHuman' = awaitingHuman
  BY <1>5, Zenon
     DEF ReconcileIdentityCounts, ReconcileRead, ReconcileCount,
         ReconcileWrite, RefreshRead, RefreshVisit, ReconcileUnchanged
<1>6. ASSUME NEW n \in Reconcilers, ReconcileWrite(n)
      PROVE  identity'[i].standing = identity[i].standing
  <2>1. \/ identity' = identity
        \/ identity' = [identity EXCEPT ![reconcile[n].current].activeAdCount =
                                          reconcile[n].tracked]
    BY <1>6 DEF ReconcileWrite
  <2> QED
    BY <1>0, <2>1 DEF IdentityRow
<1> QED
  BY <1>1, <1>2, <1>3, <1>4, <1>5, <1>6

LEMMA ChallengeBlocksStep ==
  ASSUME Undisturbed, FollowInv, [Next]_vars
  PROVE  ChallengeBlocks'
<1>0. /\ SerialInv /\ TypeOK /\ ChallengeBlocks
      /\ identity \in [Identities -> IdentityRow]
      /\ record \in [Recorders -> RecordState]
      /\ attempt \in [Attempts -> AttemptRow]
      /\ awaitingHuman \in [Identities -> BOOLEAN]
  BY DEF FollowInv, SerialInv, ClaimInv, TypeOK
<1> SUFFICES ASSUME NEW i \in Identities, awaitingHuman'[i]
             PROVE  \/ identity'[i].standing = "blocked"
                    \/ \E r \in Recorders : Challenges(r, i)'
  BY DEF ChallengeBlocks
<1>1. ASSUME NEW r \in Recorders, RecordResult(r), OnlyRecord(r)
      PROVE  \/ identity'[i].standing = "blocked"
             \/ Challenges(r, i)'
  <2>1. ASSUME awaitingHuman[i]
        PROVE  identity[i].standing = "blocked" \/ Challenges(r, i)
    BY <1>0, <1>1, <2>1
       DEF ChallengeBlocks, Challenges, OnlyRecord, IdleRecords
  <2>2. CASE RecordChallengeIdentity(r)
    <3>1. CASE RecordIdentity(r) = i
      BY <1>0, <2>2, <3>1 DEF RecordChallengeIdentity, IdentityRow
    <3>2. CASE RecordIdentity(r) # i
      BY <1>0, <2>1, <2>2, <3>2 DEF RecordChallengeIdentity, Challenges
    <3> QED
      BY <3>1, <3>2
  <2>3. CASE RecordAttempt(r)
    <3>1. /\ record[r].pc = "attempt" /\ record'[r].pc = "ad"
          /\ record'[r].outcome = record[r].outcome
          /\ record'[r].attempt = record[r].attempt
          /\ record[r].attempt \in Attempts
          /\ identity' = identity
      BY <1>0, <2>3 DEF RecordAttempt, RecordState, NoRecord
    <3>2. RecordIdentity(r)' = RecordIdentity(r)
      BY <1>0, <2>3, <3>1
         DEF RecordAttempt, RecordIdentity, RecordAd, AttemptRow
    <3>3. CASE awaitingHuman[i]
      BY <2>1, <3>1, <3>3 DEF Challenges
    <3>4. CASE ~awaitingHuman[i]
      <4>1. record[r].outcome = "challenge_required" /\ RecordIdentity(r) = i
        BY <1>0, <2>3, <3>4 DEF RecordAttempt
      <4> QED
        BY <3>1, <3>2, <4>1 DEF Challenges
    <3> QED
      BY <3>3, <3>4
  <2>4. CASE RecordChallengeAd(r)
    <3>1. /\ record'[r].pc = "identity"
          /\ record'[r].attempt = record[r].attempt
          /\ attempt' = attempt /\ identity' = identity
          /\ awaitingHuman' = awaitingHuman
      BY <1>0, <2>4 DEF RecordChallengeAd, RecordState, NoRecord
    <3> QED
      BY <2>1, <3>1 DEF Challenges, RecordIdentity, RecordAd
  <2>5. ASSUME ~Challenges(r, i), awaitingHuman' = awaitingHuman,
               identity'[i].standing = identity[i].standing
        PROVE  identity'[i].standing = "blocked"
    BY <2>1, <2>5
  <2>6. CASE RecordPublishedAd(r) \/ RecordFailedAd(r) \/ RecordCount(r)
             \/ RecordCadence(r)
    <3>1. ~Challenges(r, i) /\ awaitingHuman' = awaitingHuman
      BY <2>6
         DEF RecordPublishedAd, RecordFailedAd, RecordCount, RecordCadence,
             Challenges
    <3>2. identity'[i].standing = identity[i].standing
      BY <1>0, <2>6
         DEF RecordPublishedAd, RecordFailedAd, RecordCount, RecordCadence,
             IdentityRow
    <3> QED
      BY <2>5, <3>1, <3>2
  <2>7. ASSUME NEW a \in Attempts, NEW outcome \in Outcome,
               RecordRead(r, a, outcome)
        PROVE  identity'[i].standing = "blocked"
    BY <2>5, <2>7 DEF RecordRead, Challenges, db
  <2> QED
    BY <1>1, <2>2, <2>3, <2>4, <2>6, <2>7 DEF RecordResult
<1>2. ASSUME IdleRecords, awaitingHuman[i],
             identity'[i].standing = identity[i].standing
      PROVE  identity'[i].standing = "blocked"
  BY <1>0, <1>2 DEF ChallengeBlocks, Challenges, IdleRecords
<1>3. ASSUME Between, AllIdle PROVE identity'[i].standing = "blocked"
  <2>1. ASSUME NEW j \in Identities, Pause(j)
        PROVE  identity'[i].standing = "blocked"
    <3>1. CASE i = j
      BY <1>0, <2>1, <3>1 DEF Pause, IdentityRow
    <3>2. CASE i # j
      BY <1>0, <1>2, <1>3, <2>1, <3>2 DEF Pause, AllIdle
    <3> QED
      BY <3>1, <3>2
  <2>2. ASSUME NEW j \in Identities, Reverify(j)
        PROVE  identity'[i].standing = "blocked"
    BY <1>0, <1>2, <1>3, <2>2 DEF Reverify, AllIdle
  <2>3. CASE awaitingHuman' = awaitingHuman /\ identity' = identity
    BY <1>2, <1>3, <2>3 DEF AllIdle
  <2> QED
    BY <1>3, <2>1, <2>2, <2>3
       DEF Between, WithdrawAd, RestoreAd, ReuseDraft, AdOnly
<1>4. ASSUME UNCHANGED <<db, handlers, awaitingHuman>>
      PROVE  \/ identity'[i].standing = "blocked"
             \/ \E r \in Recorders : Challenges(r, i)'
  BY <1>0, <1>4
     DEF ChallengeBlocks, Challenges, RecordIdentity, RecordAd, db, handlers
<1>5. ASSUME \/ \E c \in Claimers : ClaimNext(c) /\ OnlyClaim(c)
             \/ \E e \in Enqueuers : EnqueueDraft(e) /\ OnlyEnqueue(e)
             \/ \E x \in Expirers : ExpireStaleSubmissions(x) /\ OnlyExpire(x)
             \/ \E n \in Reconcilers :
                  ReconcileIdentityCounts(n) /\ OnlyReconcile(n)
      PROVE  identity'[i].standing = "blocked"
  <2>1. IdleRecords
    BY <1>5 DEF OnlyClaim, OnlyEnqueue, OnlyExpire, OnlyReconcile
  <2>2. /\ identity'[i].standing = identity[i].standing
        /\ awaitingHuman' = awaitingHuman
    BY <1>0, <1>5, StandingKept
  <2> QED
    BY <1>2, <2>1, <2>2
<1> QED
  BY <1>0, <1>1, <1>3, <1>4, <1>5, SerialSteps

LEMMA NextFollowInv ==
  ASSUME Undisturbed
  PROVE  FollowInv /\ [Next]_vars => FollowInv'
<1> SUFFICES ASSUME FollowInv, [Next]_vars PROVE FollowInv'
  OBVIOUS
<1>1. SerialInv'
  BY NextSerialInv DEF FollowInv, Undisturbed
<1>2. /\ \A d \in Ads : ShowsAttempts(d)' \/ WillWrite(d)'
      /\ EndsRow'
      /\ \A c \in Claimers : SawClear(c)' /\ StartsRunning(c)'
      /\ ChallengeBlocks'
  BY ShowsStep, EndsRowStep, ClaimSawStep, ChallengeBlocksStep
<1> QED
  BY <1>1, <1>2 DEF FollowInv

LEMMA FollowInvariant ==
  ASSUME Undisturbed
  PROVE  Spec => []FollowInv
BY InitFollowInv, NextFollowInv, PTL DEF Spec

LEMMA QuietIsIdle == OneAtATime /\ SerialInv /\ Quiet => AllIdle
BY RunningCounts DEF SerialInv, Quiet

\* Between requests that do not overlap and are not lost, whatever the order of
\* enqueues, claims, results, expiries, recounts and stock events: an ad that
\* looks queued, publishing, published, failed, challenged or blocked has an
\* attempt in that state or with that outcome (or was listed from the start),
\* and one with an open attempt shows no outcome.
THEOREM AdsFollowAttempts ==
  ASSUME Undisturbed
  PROVE  Spec => []AdFollowsAttempt
<1>1. FollowInv => AdFollowsAttempt
  <2> SUFFICES ASSUME FollowInv, Quiet, NEW d \in Ads PROVE ShowsAttempts(d)
    BY DEF AdFollowsAttempt
  <2>1. AllIdle
    BY QuietIsIdle DEF FollowInv, Undisturbed
  <2>2. ~WillWrite(d)
    BY <2>1
       DEF AllIdle, WillWrite, IdleClaims, IdleEnqueues, IdleRecords,
           IdleExpires
  <2> QED
    BY <2>2 DEF FollowInv
<1> QED
  BY <1>1, FollowInvariant, PTL

\* "Challenge states stop automation and require human action" (SPEC.md:74): a
\* claim that passed the gates saw an identity without a challenge on record,
\* and no challenge is recorded before it starts the attempt.
THEOREM ChallengeStopsClaims ==
  ASSUME Undisturbed
  PROVE  Spec => ChallengeStops
<1>1. ASSUME FollowInv, [Next]_vars, NEW a \in Attempts, ~Submitting(a),
             Submitting(a)'
      PROVE  ~awaitingHuman[IdentityOf(a)]
  <2>0. /\ TypeOK /\ RowsHaveAds
        /\ \A c \in Claimers : SawClear(c) /\ HoldsQueued(c)
        /\ ChallengeBlocks
    BY <1>1 DEF FollowInv, SerialInv, ClaimInv
  <2>1. PICK c \in Claimers : StartedBy(a, c)
    <3>1. attempt'[a] # attempt[a]
      BY <1>1 DEF Submitting
    <3> QED
      BY <1>1, <2>0, <3>1, StartOrStay
  <2>2. /\ claim[c].pc = "submit" /\ claim[c].current = a
        /\ OnlyClaim(c)
    BY <1>1, <2>1 DEF StartedBy, FollowInv, SerialInv, OneRuns
  <2>3. identity[IdentityOf(a)].standing = "clear"
    BY <2>0, <2>2 DEF SawClear, Allowed, ClaimedAd, IdentityOf
  <2>4. IdentityOf(a) \in Identities
    BY <2>0, <2>2, QueueAssumption
       DEF HoldsQueued, Queued, RowsHaveAds, Exists, IdentityOf
  <2>5. \A r \in Recorders : ~Challenges(r, IdentityOf(a))
    BY <2>2 DEF OnlyClaim, IdleRecords, Challenges
  <2> QED
    BY <2>0, <2>3, <2>4, <2>5 DEF ChallengeBlocks
<1>2. FollowInv /\ [Next]_vars =>
        [\A a \in Attempts : ~Submitting(a) /\ Submitting(a)' =>
           ~awaitingHuman[IdentityOf(a)]]_vars
  BY <1>1
<1> QED
  BY <1>2, FollowInvariant, PTL DEF Spec, ChallengeStops

-----------------------------------------------------------------------------
(***************************************************************************)
(* The cooldown.  The cadence row of an identity and category is as late   *)
(* as every start of a published attempt, except while the result that     *)
(* publishes it is on its way to the row; and a claim that passed the      *)
(* gates still knows the cooldown to be over.                              *)
(***************************************************************************)
Live(a) == attempt[a].status \in {"submitting", "submitted"}

SameCadence(a, b) ==
  /\ SameIdentity(a, b)
  /\ CategoryOf[attempt[a].ad] = CategoryOf[attempt[b].ad]

Apart(s, t) == s + CategoryCooldown <= t \/ t + CategoryCooldown <= s

StartsApart ==
  \A a, b \in Attempts : a # b /\ Live(a) /\ Live(b) /\ SameCadence(a, b) =>
    Apart(attempt[a].startedAt, attempt[b].startedAt)

Cadence(d) == lastPublishedAt[Owner[d]][CategoryOf[d]]

Remembered(a) ==
  Cadence(attempt[a].ad) # NoTime /\ attempt[a].startedAt <= Cadence(attempt[a].ad)

WillRemember(a) ==
  \E r \in Recorders : /\ record[r].pc \in {"ad", "count", "cadence"}
                        /\ record[r].outcome = "submitted"
                        /\ record[r].attempt = a

PublishedRemembered ==
  \A a \in Attempts :
    attempt[a].status = "submitted" => Remembered(a) \/ WillRemember(a)

PastStarts == \A a \in Attempts : attempt[a].startedAt <= clock

SawCooledDown(c) ==
  Allowed(c) /\ Cadence(ClaimedAd(c)) # NoTime =>
    Cadence(ClaimedAd(c)) + CategoryCooldown <= clock

CooldownInv ==
  /\ FollowInv
  /\ StartsApart
  /\ PublishedRemembered
  /\ PastStarts
  /\ \A c \in Claimers : SawCooledDown(c)

\* The assumption: results are reported for claimed attempts only.
InOrder == Undisturbed /\ ~UnclaimedResults

LEMMA InitCooldownInv == Init => CooldownInv
BY InitFollowInv
   DEF CooldownInv, Init, StartsApart, PublishedRemembered, PastStarts,
       SawCooledDown, Allowed, Live, Absent, NoClaim, NoTime

LEMMA TimesAreNumbers ==
  ASSUME TypeOK
  PROVE  /\ clock \in Nat /\ CategoryCooldown \in Nat
         /\ \A a \in Attempts : attempt[a].startedAt \in Int
         /\ \A d \in Ads : Cadence(d) \in Int
<1>1. \A a \in Attempts : attempt[a].startedAt \in Int
  BY DEF TypeOK, AttemptRow, Time, NoTime
<1>2. \A d \in Ads : Cadence(d) \in Int
  BY QueueAssumption DEF TypeOK, Cadence, Time, NoTime
<1> QED
  BY <1>1, <1>2, PolicyAssumption DEF TypeOK, Time

LEMMA LiveBefore ==
  ASSUME InOrder, SerialInv, [Next]_vars, NEW a \in Attempts, Live(a)'
  PROVE  \/ /\ Live(a)
            /\ attempt'[a].startedAt = attempt[a].startedAt
            /\ attempt'[a].ad = attempt[a].ad
         \/ \E c \in Claimers : StartedBy(a, c)
<1>0. /\ TypeOK /\ attempt \in [Attempts -> AttemptRow]
      /\ OneAtATime /\ ~UnclaimedResults
  BY DEF SerialInv, ClaimInv, TypeOK, InOrder, Undisturbed
<1>1. CASE attempt'[a] = attempt[a]
  BY <1>1 DEF Live
<1>2. CASE Submitting(a)'
  BY <1>0, <1>1, <1>2, StartOrStay
<1>3. CASE attempt'[a].status = "submitted"
  <2>1. ASSUME NEW e \in Enqueuers, EnqueueReject(e, a) \/ EnqueueCreate(e, a)
        PROVE  FALSE
    BY <1>0, <1>3, <2>1, NewRow
  <2>2. ASSUME NEW c \in Claimers, claim[c].current = a,
               ClaimBlock(c) \/ ClaimSubmit(c)
        PROVE  FALSE
    BY <1>0, <1>3, <2>2 DEF ClaimBlock, ClaimSubmit, AttemptRow
  <2>3. ASSUME NEW x \in Expirers, ExpireAttempt(x, a) PROVE FALSE
    BY <1>0, <1>3, <2>3 DEF ExpireAttempt, AttemptRow
  <2>4. ASSUME NEW r \in Recorders, record[r].attempt = a, RecordAttempt(r)
        PROVE  /\ Live(a)
               /\ attempt'[a].startedAt = attempt[a].startedAt
               /\ attempt'[a].ad = attempt[a].ad
    <3>1. Submitting(a)
      BY <1>0, <2>4 DEF RecordAttempt, SerialInv, ReportsOpen
    <3> QED
      BY <1>0, <2>4, <3>1 DEF RecordAttempt, Live, Submitting, AttemptRow
  <2> QED
    BY <1>0, <1>1, <2>1, <2>2, <2>3, <2>4, RowChanges
<1> QED
  BY <1>2, <1>3 DEF Live, Submitting

LEMMA StartsApartStep ==
  ASSUME InOrder, CooldownInv, [Next]_vars
  PROVE  StartsApart'
<1>0. /\ SerialInv /\ TypeOK /\ OneRuns /\ StartsApart /\ RowsHaveAds
      /\ PublishedRemembered
      /\ \A c \in Claimers : SawNoneRunning(c) /\ SawCooledDown(c)
      /\ attempt \in [Attempts -> AttemptRow]
  BY DEF CooldownInv, FollowInv, SerialInv, ClaimInv, TypeOK
\* A claim starts an attempt whose cadence row it saw cooled down, and every
\* attempt published before is remembered there.
<1>1. ASSUME NEW m \in Attempts, NEW n \in Attempts, NEW c \in Claimers,
             StartedBy(m, c), Live(n),
             Owner[attempt[m].ad] = Owner[attempt[n].ad],
             CategoryOf[attempt[m].ad] = CategoryOf[attempt[n].ad]
      PROVE  attempt[n].startedAt + CategoryCooldown <= clock
  <2>1. /\ claim[c].pc = "submit" /\ claim[c].current = m
        /\ OnlyClaim(c)
    BY <1>0, <1>1 DEF StartedBy, OneRuns
  <2>2. ~Submitting(n)
    BY <1>0, <1>1, <2>1 DEF SawNoneRunning, IdentityOf
  <2>3. Remembered(n)
    <3>1. ~WillRemember(n)
      BY <2>1 DEF OnlyClaim, IdleRecords, WillRemember
    <3> QED
      BY <1>0, <1>1, <2>2, <3>1 DEF PublishedRemembered, Live, Submitting
  <2>4. Cadence(attempt[n].ad) = Cadence(ClaimedAd(c))
    BY <1>1, <2>1 DEF Cadence, ClaimedAd
  <2>5. Cadence(attempt[n].ad) + CategoryCooldown <= clock
    BY <1>0, <2>1, <2>3, <2>4 DEF SawCooledDown, Allowed, Remembered
  <2>6. attempt[n].ad \in Ads
    BY <1>0, <1>1 DEF RowsHaveAds, Live, Exists
  <2> QED
    BY <1>0, <2>3, <2>5, <2>6, TimesAreNumbers DEF Remembered
<1>2. ASSUME NEW m \in Attempts, NEW n \in Attempts,
             NEW c \in Claimers, StartedBy(m, c),
             NEW d \in Claimers, StartedBy(n, d)
      PROVE  m = n
  BY <1>0, <1>2 DEF StartedBy, OneRuns, OnlyClaim
<1> SUFFICES ASSUME NEW a \in Attempts, NEW b \in Attempts, a # b,
                    Live(a)', Live(b)',
                    Owner[attempt'[a].ad] = Owner[attempt'[b].ad],
                    CategoryOf[attempt'[a].ad] = CategoryOf[attempt'[b].ad]
             PROVE  Apart(attempt'[a].startedAt, attempt'[b].startedAt)
  BY DEF StartsApart, SameCadence, SameIdentity, IdentityOf
<1>3. \A n \in Attempts, c \in Claimers : StartedBy(n, c) =>
        attempt'[n].startedAt = clock /\ attempt'[n].ad = attempt[n].ad
  BY <1>0 DEF StartedBy, AttemptRow
<1>4. \A n \in Attempts : Live(n) => Exists(n)
  BY DEF Live, Exists
<1>5. CASE /\ Live(a) /\ attempt'[a].startedAt = attempt[a].startedAt
           /\ attempt'[a].ad = attempt[a].ad
           /\ Live(b) /\ attempt'[b].startedAt = attempt[b].startedAt
           /\ attempt'[b].ad = attempt[b].ad
  BY <1>0, <1>4, <1>5
     DEF StartsApart, SameCadence, SameIdentity, IdentityOf
<1>6. ASSUME NEW m \in {a, b}, NEW n \in {a, b}, NEW c \in Claimers,
             StartedBy(m, c), Live(n),
             attempt'[n].startedAt = attempt[n].startedAt,
             attempt'[n].ad = attempt[n].ad
      PROVE  attempt'[n].startedAt + CategoryCooldown <= attempt'[m].startedAt
  <2>1. attempt'[m].startedAt = clock /\ attempt'[m].ad = attempt[m].ad
    BY <1>3, <1>6
  <2>2. /\ Owner[attempt[m].ad] = Owner[attempt[n].ad]
        /\ CategoryOf[attempt[m].ad] = CategoryOf[attempt[n].ad]
    BY <1>6, <2>1
  <2> QED
    BY <1>1, <1>6, <2>1, <2>2
<1> QED
  BY <1>0, <1>2, <1>5, <1>6, LiveBefore DEF Apart

LEMMA PastStartsStep ==
  ASSUME TypeOK, PastStarts, [Next]_vars
  PROVE  PastStarts'
<1> SUFFICES ASSUME NEW a \in Attempts PROVE attempt'[a].startedAt <= clock'
  BY DEF PastStarts
<1>0. /\ attempt[a] \in AttemptRow /\ attempt[a].startedAt <= clock
      /\ attempt[a].startedAt \in Int
  BY TimesAreNumbers DEF TypeOK, PastStarts
<1>1. \/ attempt'[a].startedAt = attempt[a].startedAt
      \/ attempt'[a].startedAt = NoTime
      \/ attempt'[a].startedAt = clock
  <2>1. ASSUME NEW status \in TerminalStatus,
               attempt'[a] = [attempt[a] EXCEPT !.status = status]
        PROVE  attempt'[a].startedAt = attempt[a].startedAt
    BY <1>0, <2>1 DEF AttemptRow
  <2>2. ASSUME NEW c \in Claimers, StartedBy(a, c)
        PROVE  attempt'[a].startedAt = clock
    BY <1>0, <2>2 DEF StartedBy, AttemptRow
  <2> QED
    BY <2>1, <2>2, RowSteps DEF RowStep, Created, Closed
<1> QED
  BY <1>0, <1>1, ClockSteps DEF NoTime

LEMMA CooledDownStep ==
  ASSUME InOrder, CooldownInv, [Next]_vars, NEW c \in Claimers
  PROVE  SawCooledDown(c)'
<1>0. /\ SerialInv /\ TypeOK /\ SawCooledDown(c) /\ RowsHaveAds
      /\ HoldsQueued(c) /\ Undisturbed
  BY DEF CooldownInv, FollowInv, SerialInv, ClaimInv, InOrder
<1> SUFFICES ASSUME Allowed(c)', Cadence(ClaimedAd(c))' # NoTime
             PROVE  (Cadence(ClaimedAd(c)) + CategoryCooldown <= clock)'
  BY DEF SawCooledDown
<1>1. /\ UNCHANGED db /\ ClaimedAd(c)' = ClaimedAd(c)
      /\ claim[c].current \in Attempts
      /\ \/ Allowed(c)
         \/ AdPassesIdentityGates(ClaimedAd(c)) /\ clock' = clock
  BY <1>0, GatesSeen
<1>2. Cadence(ClaimedAd(c))' = Cadence(ClaimedAd(c))
  BY <1>1 DEF Cadence, db
<1>3. Cadence(ClaimedAd(c)) + CategoryCooldown <= clock
  BY <1>0, <1>1, <1>2
     DEF SawCooledDown, AdPassesIdentityGates, IdentityGates, Cadence
<1>4. Cadence(ClaimedAd(c)) \in Int
  <2>1. ClaimedAd(c)' \in Ads
    <3>1. claim'[c].pc \in {"gates", "submit"}
      BY DEF Allowed
    <3>2. SerialInv'
      BY <1>0, NextSerialInv DEF Undisturbed
    <3>3. /\ claim'[c].current \in Attempts
          /\ attempt'[claim'[c].current].status = "queued"
      BY <3>1, <3>2 DEF SerialInv, HoldsQueued, Queued
    <3> QED
      BY <3>2, <3>3 DEF SerialInv, RowsHaveAds, ClaimedAd, Exists
  <2> QED
    BY <1>0, <1>1, <2>1, TimesAreNumbers
<1> QED
  BY <1>0, <1>2, <1>3, <1>4, ClockSteps, TimesAreNumbers

\* The cadence row moves only forward, to the moment a result writes it.
LEMMA CadenceMoves ==
  ASSUME TypeOK, [Next]_vars, NEW d \in Ads
  PROVE  \/ Cadence(d)' = Cadence(d)
         \/ Cadence(d)' = clock
<1>0. lastPublishedAt \in [Identities -> [Categories -> Time \cup {NoTime}]]
  BY DEF TypeOK
<1>1. ASSUME NEW r \in Recorders, RecordCadence(r)
      PROVE  Cadence(d)' = Cadence(d) \/ Cadence(d)' = clock
  BY <1>0, <1>1, QueueAssumption DEF RecordCadence, Cadence
<1> USE DEF db, handlers
<1>2. ASSUME NEW c \in Claimers, ClaimNext(c)
      PROVE  lastPublishedAt' = lastPublishedAt
  BY <1>2 DEF ClaimNext, ClaimList, ClaimSkip, ClaimPass, ClaimReadIdentity,
              ClaimReadGates, ClaimBlock, ClaimBlockAd, ClaimSubmit,
              ClaimSubmitAd
<1>3. ASSUME NEW e \in Enqueuers, EnqueueDraft(e)
      PROVE  lastPublishedAt' = lastPublishedAt
  BY <1>3 DEF EnqueueDraft, EnqueueRead, EnqueueExisting, EnqueueReadIdentity,
              EnqueueReadGates, EnqueueReserve, EnqueueMark, EnqueueReject,
              EnqueueCreate
<1>4. ASSUME NEW r \in Recorders, RecordResult(r), ~RecordCadence(r)
      PROVE  lastPublishedAt' = lastPublishedAt
  BY <1>4 DEF RecordResult, RecordRead, RecordAttempt, RecordPublishedAd,
              RecordCount, RecordFailedAd, RecordChallengeAd,
              RecordChallengeIdentity
<1>5. ASSUME NEW x \in Expirers, ExpireStaleSubmissions(x)
      PROVE  lastPublishedAt' = lastPublishedAt
  BY <1>5 DEF ExpireStaleSubmissions, ExpireList, ExpireAttempt, ExpireAd
<1>6. ASSUME NEW n \in Reconcilers, ReconcileIdentityCounts(n)
      PROVE  lastPublishedAt' = lastPublishedAt
  BY <1>6, Zenon
     DEF ReconcileIdentityCounts, ReconcileRead, ReconcileCount,
         ReconcileWrite, RefreshRead, RefreshVisit
<1>7. ASSUME Single \/ CrashHandler \/ UNCHANGED vars
      PROVE  lastPublishedAt' = lastPublishedAt
  BY <1>7 DEF Single, Pause, Reverify, WithdrawAd, RestoreAd, ReuseDraft, Tick,
              AdOnly, CrashHandler, vars
<1> QED
  BY <1>1, <1>2, <1>3, <1>4, <1>5, <1>6, <1>7 DEF Next, Single, Cadence

LEMMA PublishedRememberedStep ==
  ASSUME InOrder, CooldownInv, [Next]_vars
  PROVE  PublishedRemembered'
<1>0. /\ SerialInv /\ TypeOK /\ OneRuns /\ RowsHaveAds /\ PublishedRemembered
      /\ PastStarts /\ Undisturbed /\ OneAtATime
      /\ attempt \in [Attempts -> AttemptRow]
      /\ record \in [Recorders -> RecordState]
  BY DEF CooldownInv, FollowInv, SerialInv, ClaimInv, TypeOK, InOrder,
         Undisturbed
<1> SUFFICES ASSUME NEW a \in Attempts, attempt'[a].status = "submitted"
             PROVE  Remembered(a)' \/ WillRemember(a)'
  BY DEF PublishedRemembered
<1>1. ASSUME NEW r \in Recorders, RecordAttempt(r), record[r].attempt = a
      PROVE  WillRemember(a)'
  <2>1. /\ record'[r].pc = "ad" /\ record'[r].attempt = a
        /\ record'[r].outcome = record[r].outcome
    BY <1>0, <1>1 DEF RecordAttempt, RecordState, NoRecord
  <2>2. record[r].outcome = "submitted"
    BY <1>0, <1>1 DEF RecordAttempt, AttemptRow
  <2> QED
    BY <2>1, <2>2 DEF WillRemember
<1>2. CASE attempt'[a] # attempt[a]
  <2>1. ASSUME NEW e \in Enqueuers, EnqueueReject(e, a) \/ EnqueueCreate(e, a)
        PROVE  FALSE
    BY <1>0, <2>1, NewRow
  <2>2. ASSUME NEW c \in Claimers, claim[c].current = a,
               ClaimBlock(c) \/ ClaimSubmit(c)
        PROVE  FALSE
    BY <1>0, <2>2 DEF ClaimBlock, ClaimSubmit, AttemptRow
  <2>3. ASSUME NEW x \in Expirers, ExpireAttempt(x, a) PROVE FALSE
    BY <1>0, <2>3 DEF ExpireAttempt, AttemptRow
  <2> QED
    BY <1>0, <1>1, <1>2, <2>1, <2>2, <2>3, RowChanges
<1>3. CASE attempt'[a] = attempt[a]
  <2>0. /\ attempt[a].status = "submitted"
        /\ attempt[a].ad \in Ads
    BY <1>0, <1>3 DEF RowsHaveAds, Exists
  <2>1. Remembered(a) \/ WillRemember(a)
    BY <1>0, <2>0 DEF PublishedRemembered
  <2>2. /\ attempt[a].startedAt <= clock
        /\ clock # NoTime
    BY <1>0, TimesAreNumbers DEF PastStarts, NoTime
  <2>3. CASE Remembered(a)
    BY <1>0, <1>3, <2>0, <2>2, <2>3, CadenceMoves DEF Remembered, Cadence
  <2>4. ASSUME NEW r \in Recorders,
               record[r].pc \in {"ad", "count", "cadence"},
               record[r].outcome = "submitted", record[r].attempt = a
        PROVE  Remembered(a)' \/ WillRemember(a)'
    <3>1. CASE RecordCadence(r)
      <4>1. Cadence(attempt[a].ad)' = clock
        BY <1>0, <2>0, <2>4, <3>1, QueueAssumption
           DEF RecordCadence, RecordIdentity, RecordAd, Cadence, TypeOK
      <4> QED
        BY <1>3, <2>2, <4>1 DEF Remembered, Cadence
    <3>2. CASE RecordPublishedAd(r) \/ RecordCount(r)
      <4>1. /\ record'[r].pc \in {"count", "cadence"}
            /\ record'[r].attempt = record[r].attempt
            /\ record'[r].outcome = record[r].outcome
        BY <1>0, <3>2 DEF RecordPublishedAd, RecordCount, RecordState, NoRecord
      <4> QED
        BY <2>4, <4>1 DEF WillRemember
    <3>3. CASE record'[r] = record[r]
      BY <2>4, <3>3 DEF WillRemember
    <3>4. ASSUME RecordResult(r), ~RecordCadence(r), ~RecordPublishedAd(r),
                 ~RecordCount(r)
          PROVE  FALSE
      BY <2>4, <3>4
         DEF RecordResult, RecordRead, RecordAttempt, RecordFailedAd,
             RecordChallengeAd, RecordChallengeIdentity
    <3>5. RecordResult(r) \/ record'[r] = record[r]
      <4>1. record[r].pc # "idle"
        BY <2>4
      <4> QED
        BY <1>0, <4>1, SerialSteps
           DEF OnlyClaim, OnlyEnqueue, OnlyRecord, OnlyExpire, OnlyReconcile,
               AllIdle, IdleRecords, handlers
    <3> QED
      BY <3>1, <3>2, <3>3, <3>4, <3>5
  <2> QED
    BY <2>1, <2>3, <2>4 DEF WillRemember
<1> QED
  BY <1>2, <1>3

LEMMA NextCooldownInv ==
  ASSUME InOrder
  PROVE  CooldownInv /\ [Next]_vars => CooldownInv'
<1> SUFFICES ASSUME CooldownInv, [Next]_vars PROVE CooldownInv'
  OBVIOUS
<1>1. FollowInv'
  BY NextFollowInv DEF CooldownInv, InOrder
<1>2. /\ StartsApart' /\ PublishedRemembered' /\ PastStarts'
      /\ \A c \in Claimers : SawCooledDown(c)'
  BY StartsApartStep, PublishedRememberedStep, PastStartsStep, CooledDownStep
     DEF CooldownInv, FollowInv, SerialInv, ClaimInv
<1> QED
  BY <1>1, <1>2 DEF CooldownInv

LEMMA CooldownInvariant ==
  ASSUME InOrder
  PROVE  Spec => []CooldownInv
BY InitCooldownInv, NextCooldownInv, PTL DEF Spec

\* "Category gate prevents repeated same-category posting within 24 hours per
\* identity" (SPEC.md:73): two published attempts of an identity and category
\* started CategoryCooldown apart, whatever else is queued, refused, expired,
\* challenged and withdrawn in between.
THEOREM CooldownKept ==
  ASSUME InOrder
  PROVE  Spec => []CooldownRespected
<1>1. CooldownInv => CooldownRespected
  <2> SUFFICES ASSUME CooldownInv, NEW a \in Attempts, NEW b \in Attempts,
                      a # b,
                      attempt[a].status = "submitted",
                      attempt[b].status = "submitted",
                      SameIdentity(a, b),
                      CategoryOf[attempt[a].ad] = CategoryOf[attempt[b].ad],
                      attempt[a].startedAt <= attempt[b].startedAt
               PROVE  attempt[a].startedAt + CategoryCooldown
                        <= attempt[b].startedAt
    BY DEF CooldownRespected
  <2>1. Apart(attempt[a].startedAt, attempt[b].startedAt)
    BY DEF CooldownInv, StartsApart, Live, SameCadence
  <2>2. TypeOK
    BY DEF CooldownInv, FollowInv, SerialInv, ClaimInv
  <2> QED
    BY <2>1, <2>2, TimesAreNumbers DEF Apart
<1> QED
  BY <1>1, CooldownInvariant, PTL

-----------------------------------------------------------------------------
(***************************************************************************)
(* The counts, when only Bazos takes an ad away.                           *)
(***************************************************************************)
PublishedActive ==
  \A d \in Ads : ad[d].status = "published" => ad[d].isActive

OpenUnpublished ==
  \A a \in Attempts : Open(a) => ad[attempt[a].ad].status # "published"

RunningActive ==
  \A a \in Attempts : Submitting(a) =>
    /\ ad[attempt[a].ad].isActive
    /\ \/ ad[attempt[a].ad].status = "publishing"
       \/ \E c \in Claimers : claim[c].pc = "submitAd" /\ claim[c].current = a

ClaimsActive(c) ==
  /\ claim[c].pc = "check" =>
       \A a \in claim[c].todo : ad[attempt[a].ad].isActive
  /\ claim[c].pc \in {"read", "gates", "submit"} => ad[ClaimedAd(c)].isActive

\* The running request ended an attempt of the ad and will say so in its row.
Ends(d) ==
  \/ \E c \in Claimers : claim[c].pc = "blockAd" /\ ClaimedAd(c) = d
  \/ \E r \in Recorders : record[r].pc = "ad" /\ RecordAd(r) = d
  \/ \E x \in Expirers :
       expire[x].pc = "ad" /\ attempt[expire[x].current].ad = d

EndedUnpublished ==
  \A d \in Ads : Ends(d) => ~HasOpenAttempt(d) /\ ad[d].status # "published"

EnqueuesUnpublished(e) ==
  enqueue[e].pc # "idle" => ad[enqueue[e].ad].status # "published"

PublishesActive(r) ==
  record[r].pc = "ad" => RecordAd(r) \in Ads /\ ad[RecordAd(r)].isActive

Visits(n) ==
  reconcile[n].pc = "visit" =>
    /\ reconcile[n].always
    /\ reconcile[n].ad \in Ads
    /\ reconcile[n].todo = {Owner[reconcile[n].ad]}
    /\ ad[reconcile[n].ad].status = "published"

Recounts(n) ==
  reconcile[n].pc = "write" =>
    /\ reconcile[n].current \in Identities
    /\ reconcile[n].tracked = Tracked(reconcile[n].current)

\* A result published an ad and has not counted it yet.
Uncounted(i) ==
  \E r \in Recorders : record[r].pc = "count" /\ RecordIdentity(r) = i

\* A visit may have found an ad gone; the count of its identity is rewritten.
WillRecount(i) ==
  \E n \in Reconcilers :
    /\ reconcile[n].always
    /\ \/ reconcile[n].pc \in {"count", "write"} /\ i \in reconcile[n].todo
       \/ reconcile[n].pc = "write" /\ i = reconcile[n].current

Counted(i) ==
  IF Uncounted(i) THEN Tracked(i) = identity[i].activeAdCount + 1
  ELSE WillRecount(i) \/ Tracked(i) = identity[i].activeAdCount

\* A running attempt has its place under the cap.
RoomForRunning ==
  \A a \in Attempts : Submitting(a) => Tracked(IdentityOf(a)) < MaxActiveAds

SawRoom(c) ==
  Allowed(c) => identity[Owner[ClaimedAd(c)]].activeAdCount < MaxActiveAds

RoomToPublish(r) ==
  record[r].pc = "ad" /\ record[r].outcome = "submitted" =>
    /\ Tracked(RecordIdentity(r)) < MaxActiveAds
    /\ \A b \in Attempts : Submitting(b) => IdentityOf(b) # RecordIdentity(r)

ListingInv ==
  /\ FollowInv
  /\ PublishedActive /\ OpenUnpublished /\ RunningActive /\ EndedUnpublished
  /\ \A c \in Claimers : ClaimsActive(c)
  /\ \A e \in Enqueuers : EnqueuesUnpublished(e)
  /\ \A r \in Recorders : PublishesActive(r)
  /\ \A n \in Reconcilers : Visits(n)

CountInv ==
  /\ ListingInv
  /\ \A c \in Claimers : SawRoom(c)
  /\ \A r \in Recorders : RoomToPublish(r)
  /\ \A n \in Reconcilers : Recounts(n)
  /\ \A i \in Identities : Counted(i) /\ Tracked(i) <= MaxActiveAds
  /\ RoomForRunning

\* The assumption: nothing but Bazos takes a published ad away, and the ads
\* published before the first step are within the cap.
Counting ==
  /\ InOrder /\ ~Withdrawals
  /\ \A i \in Identities :
       Cardinality({d \in AlreadyListed : Owner[d] = i}) <= MaxActiveAds

\* The steps that write an ad row, and what they write.
AdChange(d) ==
  \/ ad'[d] = ad[d]
  \/ /\ ad'[d].isActive = ad[d].isActive
     /\ \/ /\ ad'[d].status = "blocked_policy"
           /\ \E c \in Claimers : ClaimBlockAd(c) /\ ClaimedAd(c) = d
        \/ /\ ad'[d].status = "publishing"
           /\ \E c \in Claimers : ClaimSubmitAd(c) /\ ClaimedAd(c) = d
        \/ /\ ad'[d].status = "queued"
           /\ \E e \in Enqueuers : EnqueueMark(e) /\ enqueue[e].ad = d
        \/ /\ ad'[d].status = "published"
           /\ \E r \in Recorders : RecordPublishedAd(r) /\ RecordAd(r) = d
        \/ /\ ad'[d].status \in {"failed", "challenge"}
           /\ \E r \in Recorders :
                RecordAd(r) = d /\ (RecordFailedAd(r) \/ RecordChallengeAd(r))
        \/ /\ ad'[d].status = "failed"
           /\ \E x \in Expirers :
                ExpireAd(x) /\ attempt[expire[x].current].ad = d
  \/ /\ ad'[d].status = "deleted" /\ ~ad'[d].isActive
     /\ \E n \in Reconcilers : RefreshVisit(n) /\ reconcile[n].ad = d
  \/ /\ AllIdle
     /\ ~ad[d].isActive /\ ad'[d].isActive
     /\ ad'[d].status \in {ad[d].status, "draft"}
  \/ /\ AllIdle
     /\ ad'[d].status = "draft" /\ ad'[d].isActive = ad[d].isActive
     /\ ad[d].status \in {"draft", "blocked_policy", "failed", "challenge"}

LEMMA AdChanges ==
  ASSUME Undisturbed, ~Withdrawals, SerialInv, [Next]_vars, NEW d \in Ads
  PROVE  AdChange(d)
<1>0. ad \in [Ads -> AdRow] /\ ad[d] \in AdRow
  BY DEF SerialInv, ClaimInv, TypeOK
<1>1. ASSUME NEW status \in AdStatus, NEW b,
             ad' = [ad EXCEPT ![b].status = status]
      PROVE  \/ ad'[d] = ad[d]
             \/ /\ b = d /\ ad'[d].status = status
                /\ ad'[d].isActive = ad[d].isActive
  BY <1>0, <1>1 DEF AdRow
<1> USE DEF db
<1>2. ASSUME NEW c \in Claimers, ClaimNext(c) PROVE AdChange(d)
  <2>1. CASE ClaimBlockAd(c)
    <3>1. ad' = [ad EXCEPT ![ClaimedAd(c)].status = "blocked_policy"]
      BY <2>1 DEF ClaimBlockAd
    <3> QED
      BY <1>1, <2>1, <3>1 DEF AdChange, AdStatus
  <2>2. CASE ClaimSubmitAd(c)
    <3>1. ad' = [ad EXCEPT ![ClaimedAd(c)].status = "publishing"]
      BY <2>2 DEF ClaimSubmitAd
    <3> QED
      BY <1>1, <2>2, <3>1 DEF AdChange, AdStatus
  <2>3. CASE ad' = ad
    BY <2>3 DEF AdChange
  <2> QED
    BY <1>2, <2>1, <2>2, <2>3
       DEF ClaimNext, ClaimList, ClaimSkip, ClaimPass, ClaimReadIdentity,
           ClaimReadGates, ClaimBlock, ClaimSubmit
<1>3. ASSUME NEW e \in Enqueuers, EnqueueDraft(e) PROVE AdChange(d)
  <2>1. CASE EnqueueMark(e)
    <3>1. CASE enqueue[e].ad = d
      <4>1. ad'[d].status = "queued" /\ ad'[d].isActive = ad[d].isActive
        BY <1>0, <2>1, <3>1 DEF EnqueueMark, AdRow
      <4> QED
        BY <2>1, <3>1, <4>1 DEF AdChange
    <3>2. CASE enqueue[e].ad # d
      BY <1>0, <2>1, <3>2 DEF EnqueueMark, AdChange
    <3> QED
      BY <3>1, <3>2
  <2>2. CASE ad' = ad
    BY <2>2 DEF AdChange
  <2> QED
    BY <1>3, <2>1, <2>2
       DEF EnqueueDraft, EnqueueRead, EnqueueExisting, EnqueueReadIdentity,
           EnqueueReadGates, EnqueueReserve, EnqueueReject, EnqueueCreate
<1>4. ASSUME NEW r \in Recorders, RecordResult(r) PROVE AdChange(d)
  <2>1. CASE RecordPublishedAd(r)
    <3>1. CASE RecordAd(r) = d
      <4>1. ad'[d].status = "published" /\ ad'[d].isActive = ad[d].isActive
        BY <1>0, <2>1, <3>1 DEF RecordPublishedAd, AdRow
      <4> QED
        BY <2>1, <3>1, <4>1 DEF AdChange
    <3>2. CASE RecordAd(r) # d
      BY <1>0, <2>1, <3>2 DEF RecordPublishedAd, AdChange
    <3> QED
      BY <3>1, <3>2
  <2>2. CASE RecordFailedAd(r)
    <3>1. ad' = [ad EXCEPT ![RecordAd(r)].status = "failed"]
      BY <2>2 DEF RecordFailedAd
    <3> QED
      BY <1>1, <2>2, <3>1 DEF AdChange, AdStatus
  <2>3. CASE RecordChallengeAd(r)
    <3>1. ad' = [ad EXCEPT ![RecordAd(r)].status = "challenge"]
      BY <2>3 DEF RecordChallengeAd
    <3> QED
      BY <1>1, <2>3, <3>1 DEF AdChange, AdStatus
  <2>4. CASE ad' = ad
    BY <2>4 DEF AdChange
  <2> QED
    BY <1>4, <2>1, <2>2, <2>3, <2>4
       DEF RecordResult, RecordRead, RecordAttempt, RecordCount,
           RecordCadence, RecordChallengeIdentity
<1>5. ASSUME NEW x \in Expirers, ExpireStaleSubmissions(x) PROVE AdChange(d)
  <2>1. CASE ExpireAd(x)
    <3>1. ad' = [ad EXCEPT ![attempt[expire[x].current].ad].status = "failed"]
      BY <2>1 DEF ExpireAd
    <3>2. \/ ad'[d] = ad[d]
          \/ /\ attempt[expire[x].current].ad = d /\ ad'[d].status = "failed"
             /\ ad'[d].isActive = ad[d].isActive
      BY <1>1, <3>1 DEF AdStatus
    <3> QED
      BY <2>1, <3>2 DEF AdChange
  <2>2. CASE ad' = ad
    BY <2>2 DEF AdChange
  <2>3. ExpireAd(x) \/ ad' = ad
    <3>1. ASSUME ExpireList(x) PROVE ad' = ad
      BY <3>1 DEF ExpireList
    <3>2. ASSUME NEW a \in Attempts, ExpireAttempt(x, a) PROVE ad' = ad
      BY <3>2 DEF ExpireAttempt
    <3> QED
      BY <1>5, <3>1, <3>2 DEF ExpireStaleSubmissions
  <2> QED
    BY <2>1, <2>2, <2>3
<1>6. ASSUME NEW n \in Reconcilers, ReconcileIdentityCounts(n)
      PROVE  AdChange(d)
  <2>1. CASE RefreshVisit(n)
    <3>1. \/ ad' = ad
          \/ ad' = [ad EXCEPT ![reconcile[n].ad].isActive = FALSE,
                              ![reconcile[n].ad].status = "deleted"]
      BY <2>1 DEF RefreshVisit
    <3>2. \/ ad'[d] = ad[d]
          \/ /\ reconcile[n].ad = d /\ ad'[d].status = "deleted"
             /\ ad'[d].isActive = FALSE
      BY <1>0, <3>1 DEF AdRow
    <3> QED
      BY <2>1, <3>2 DEF AdChange
  <2>2. CASE ad' = ad
    BY <2>2 DEF AdChange
  <2> QED
    BY <1>6, <2>1, <2>2, Zenon
       DEF ReconcileIdentityCounts, ReconcileRead, ReconcileCount,
           ReconcileWrite, RefreshRead
<1>7. ASSUME Between, AllIdle PROVE AdChange(d)
  <2>1. ASSUME NEW b \in Ads, RestoreAd(b) PROVE AdChange(d)
    <3>1. PICK status \in {ad[b].status, "draft"} :
            ad' = [ad EXCEPT ![b].isActive = TRUE, ![b].status = status]
      BY <2>1 DEF RestoreAd
    <3>2. \/ ad'[d] = ad[d]
          \/ b = d /\ ad'[d].isActive = TRUE /\ ad'[d].status = status
      BY <1>0, <3>1 DEF AdRow
    <3> QED
      BY <1>7, <2>1, <3>2 DEF AdChange, RestoreAd
  <2>2. ASSUME NEW b \in Ads, ReuseDraft(b) PROVE AdChange(d)
    <3>1. \/ ad'[d] = ad[d]
          \/ /\ b = d /\ ad'[d].isActive = ad[d].isActive
             /\ ad'[d].status = "draft"
      BY <1>0, <2>2 DEF ReuseDraft, AdRow
    <3> QED
      BY <1>7, <2>2, <3>1 DEF AdChange, ReuseDraft
  <2>3. ASSUME NEW b \in Ads, WithdrawAd(b) PROVE FALSE
    BY <2>3 DEF WithdrawAd
  <2>4. CASE ad' = ad
    BY <2>4 DEF AdChange
  <2> QED
    BY <1>7, <2>1, <2>2, <2>3, <2>4 DEF Between, Pause, Reverify
<1>8. CASE UNCHANGED <<db, handlers, awaitingHuman>>
  BY <1>8 DEF AdChange
<1> QED
  BY <1>2, <1>3, <1>4, <1>5, <1>6, <1>7, <1>8, SerialSteps

\* The steps that lead a claim to a state are its own.
LEMMA ClaimEnters ==
  ASSUME OneAtATime, SerialInv, [Next]_vars, NEW c \in Claimers
  PROVE  \/ claim'[c].pc = "idle"
         \/ claim'[c] = claim[c] /\ UNCHANGED db
         \/ claim'[c].pc = "blockAd" /\ ClaimBlock(c)
         \/ claim'[c].pc = "submitAd" /\ ClaimSubmit(c)
         \/ claim'[c].pc = "check" /\ ClaimList(c)
         \/ claim'[c].pc = "check" /\ \E a \in Attempts : ClaimSkip(c, a)
         \/ claim'[c].pc = "read" /\ \E a \in Attempts : ClaimPass(c, a)
         \/ claim'[c].pc = "gates" /\ ClaimReadIdentity(c)
         \/ claim'[c].pc \in {"block", "submit"} /\ ClaimReadGates(c)
<1>0. /\ TypeOK /\ OneRuns
      /\ claim \in [Claimers -> ClaimState] /\ claim[c] \in ClaimState
  BY DEF SerialInv, ClaimInv, TypeOK
<1>1. claim'[c] = NoClaim => claim'[c].pc = "idle"
  BY DEF NoClaim
<1>2. ClaimList(c) => claim'[c].pc = "check"
  BY <1>0 DEF ClaimList, NoClaim
<1>3. \A a \in Attempts : ClaimSkip(c, a) =>
        claim'[c].pc = "check" \/ claim'[c] = NoClaim
  BY <1>0 DEF ClaimSkip, ClaimState
<1>4. \A a \in Attempts : ClaimPass(c, a) => claim'[c].pc = "read"
  BY <1>0 DEF ClaimPass, NoClaim
<1>5. /\ ClaimReadIdentity(c) => claim'[c].pc = "gates"
      /\ ClaimBlock(c) => claim'[c].pc = "blockAd"
      /\ ClaimSubmit(c) => claim'[c].pc = "submitAd"
  BY <1>0 DEF ClaimReadIdentity, ClaimBlock, ClaimSubmit, ClaimState
<1>6. ClaimReadGates(c) => claim'[c].pc \in {"block", "submit"}
  BY <1>0 DEF ClaimReadGates
<1>7. ClaimBlockAd(c) \/ ClaimSubmitAd(c) => claim'[c] = NoClaim
  BY <1>0 DEF ClaimBlockAd, ClaimSubmitAd
<1> QED
  BY <1>0, <1>1, <1>2, <1>3, <1>4, <1>5, <1>6, <1>7, ClaimSteps,
     WhileClaimRuns
     DEF ClaimNext

LEMMA InitListingInv == Init => ListingInv
BY InitFollowInv
   DEF ListingInv, Init, PublishedActive, OpenUnpublished, RunningActive,
       EndedUnpublished, Ends, ClaimsActive, EnqueuesUnpublished,
       PublishesActive, Visits, Submitting, Open, OpenStatus, Absent, NoClaim,
       NoEnqueue, NoRecord, NoExpire, NoReconcile

LEMMA PublishedActiveStep ==
  ASSUME Counting, ListingInv, [Next]_vars
  PROVE  PublishedActive'
<1>0. /\ SerialInv /\ PublishedActive /\ Undisturbed /\ ~Withdrawals
      /\ \A r \in Recorders : PublishesActive(r)
  BY DEF ListingInv, FollowInv, Counting, InOrder
<1> SUFFICES ASSUME NEW d \in Ads, ad'[d].status = "published"
             PROVE  ad'[d].isActive
  BY DEF PublishedActive
<1>1. ASSUME NEW r \in Recorders, RecordPublishedAd(r), RecordAd(r) = d
      PROVE  ad[d].isActive
  BY <1>0, <1>1 DEF RecordPublishedAd, PublishesActive
<1>2. AdChange(d)
  BY <1>0, AdChanges
<1> QED
  BY <1>0, <1>1, <1>2 DEF AdChange, PublishedActive

\* Only a result publishes, and it ended the attempt of its ad before.
LEMMA OpenUnpublishedStep ==
  ASSUME Counting, ListingInv, [Next]_vars
  PROVE  OpenUnpublished'
<1>0. /\ SerialInv /\ TypeOK /\ Undisturbed /\ OneAtATime /\ ~Withdrawals
      /\ OpenUnpublished /\ EndedUnpublished /\ RowsHaveAds
      /\ \A e \in Enqueuers : EnqueuesUnpublished(e)
      /\ attempt \in [Attempts -> AttemptRow]
  BY DEF ListingInv, FollowInv, SerialInv, ClaimInv, TypeOK, Counting, InOrder,
         Undisturbed
<1> SUFFICES ASSUME NEW a \in Attempts, Open(a)'
             PROVE  ad'[attempt'[a].ad].status # "published"
  BY DEF OpenUnpublished
<1>1. ASSUME NEW e \in Enqueuers, EnqueueCreate(e, a)
      PROVE  ad'[attempt'[a].ad].status # "published"
  <2>1. attempt'[a].ad = enqueue[e].ad /\ ad' = ad
    BY <1>0, <1>1 DEF EnqueueCreate, Absent
  <2> QED
    BY <1>0, <1>1, <2>1 DEF EnqueueCreate, EnqueuesUnpublished
<1>2. ASSUME NEW d \in Ads, Open(a), attempt[a].ad = d
      PROVE  ad'[d].status # "published"
  <2>1. ad[d].status # "published"
    BY <1>0, <1>2 DEF OpenUnpublished
  <2>2. ASSUME NEW r \in Recorders, RecordPublishedAd(r), RecordAd(r) = d
        PROVE  FALSE
    <3>1. Ends(d)
      BY <2>2 DEF Ends, RecordPublishedAd
    <3>2. HasOpenAttempt(d)
      BY <1>2 DEF HasOpenAttempt
    <3> QED
      BY <1>0, <3>1, <3>2 DEF EndedUnpublished
  <2>3. AdChange(d)
    BY <1>0, AdChanges
  <2> QED
    BY <2>1, <2>2, <2>3 DEF AdChange
<1>3. Open(a) => attempt[a].ad \in Ads
  BY <1>0 DEF RowsHaveAds, Open, OpenStatus, Exists
<1> QED
  BY <1>0, <1>1, <1>2, <1>3, OpenBefore

\* Who is busy after a step was at work in it, or the step was nobody's.
LEMMA BusyAfter ==
  ASSUME Undisturbed, SerialInv, [Next]_vars
  PROVE  \/ UNCHANGED <<db, handlers, awaitingHuman>>
         \/ /\ \A c \in Claimers : claim'[c].pc # "idle" => ClaimNext(c)
            /\ \A e \in Enqueuers : enqueue'[e].pc # "idle" => EnqueueDraft(e)
            /\ \A r \in Recorders : record'[r].pc # "idle" => RecordResult(r)
            /\ \A x \in Expirers :
                 expire'[x].pc # "idle" => ExpireStaleSubmissions(x)
            /\ \A n \in Reconcilers :
                 reconcile'[n].pc # "idle" => ReconcileIdentityCounts(n)
BY SerialSteps
   DEF OnlyClaim, OnlyEnqueue, OnlyRecord, OnlyExpire, OnlyReconcile, AllIdle,
       IdleClaims, IdleEnqueues, IdleRecords, IdleExpires, IdleReconciles

\* Who is busy before a step takes it, or the step is nobody's.
LEMMA BusyBefore ==
  ASSUME Undisturbed, SerialInv, [Next]_vars
  PROVE  \/ UNCHANGED <<db, handlers, awaitingHuman>>
         \/ /\ \A c \in Claimers : claim[c].pc # "idle" => ClaimNext(c)
            /\ \A e \in Enqueuers : enqueue[e].pc # "idle" => EnqueueDraft(e)
            /\ \A r \in Recorders : record[r].pc # "idle" => RecordResult(r)
            /\ \A x \in Expirers :
                 expire[x].pc # "idle" => ExpireStaleSubmissions(x)
            /\ \A n \in Reconcilers :
                 reconcile[n].pc # "idle" => ReconcileIdentityCounts(n)
BY SerialSteps
   DEF OnlyClaim, OnlyEnqueue, OnlyRecord, OnlyExpire, OnlyReconcile, AllIdle,
       IdleClaims, IdleEnqueues, IdleRecords, IdleExpires, IdleReconciles

LEMMA RunningActiveStep ==
  ASSUME Counting, ListingInv, [Next]_vars
  PROVE  RunningActive'
<1>0. /\ SerialInv /\ TypeOK /\ Undisturbed /\ OneAtATime /\ ~Withdrawals
      /\ RunningActive /\ OpenUnpublished /\ EndedUnpublished /\ RowsHaveAds
      /\ OneOpenAttemptPerAd
      /\ \A e \in Enqueuers : MarksQueued(e)
      /\ \A c \in Claimers : ClaimsActive(c) /\ StartsRunning(c)
      /\ \A n \in Reconcilers : Visits(n)
      /\ attempt \in [Attempts -> AttemptRow]
      /\ claim \in [Claimers -> ClaimState] /\ ad \in [Ads -> AdRow]
  BY DEF ListingInv, FollowInv, SerialInv, ClaimInv, TypeOK, Counting, InOrder,
         Undisturbed
<1> DEFINE Fine(a) ==
      /\ ad'[attempt'[a].ad].isActive
      /\ \/ ad'[attempt'[a].ad].status = "publishing"
         \/ \E c \in Claimers : claim'[c].pc = "submitAd" /\ claim'[c].current = a
<1> SUFFICES ASSUME NEW a \in Attempts, Submitting(a)' PROVE Fine(a)
  BY DEF RunningActive
\* The claim that starts an attempt found its ad active.
<1>1. ASSUME NEW c \in Claimers, StartedBy(a, c) PROVE Fine(a)
  <2>1. claim'[c].pc = "submitAd" /\ claim[c].pc = "submit" /\ claim[c].current = a
    BY <1>1 DEF StartedBy
  <2>2. ClaimNext(c)
    BY <1>0, <2>1, BusyAfter DEF handlers
  <2>3. claim'[c].current = a /\ ad' = ad
    BY <1>0, <2>1, <2>2
       DEF ClaimNext, ClaimList, ClaimSkip, ClaimPass, ClaimReadIdentity,
           ClaimReadGates, ClaimBlock, ClaimBlockAd, ClaimSubmit,
           ClaimSubmitAd, ClaimState
  <2>4. attempt'[a].ad = attempt[a].ad
    BY <1>0, <1>1 DEF StartedBy, AttemptRow
  <2> QED
    BY <1>0, <2>1, <2>3, <2>4 DEF ClaimsActive, ClaimedAd
<1>2. ASSUME NEW d \in Ads, attempt'[a] = attempt[a], Submitting(a),
             attempt[a].ad = d
      PROVE  Fine(a)
  <2>1. /\ ad[d].isActive
        /\ \/ ad[d].status = "publishing"
           \/ \E c \in Claimers : claim[c].pc = "submitAd" /\ claim[c].current = a
    BY <1>0, <1>2 DEF RunningActive
  <2>2. Open(a) /\ HasOpenAttempt(d) /\ ~Ends(d) /\ ad[d].status # "published"
    BY <1>0, <1>2
       DEF Open, OpenStatus, Submitting, HasOpenAttempt, EndedUnpublished,
           OpenUnpublished
  \* The claim that started the attempt writes its ad row next.
  <2>3. ASSUME NEW c \in Claimers, claim[c].pc = "submitAd", claim[c].current = a
        PROVE  Fine(a)
    <3>1. CASE UNCHANGED <<db, handlers>>
      BY <1>2, <2>1, <2>3, <3>1 DEF db, handlers
    <3>2. CASE ClaimNext(c)
      <4>1. ClaimSubmitAd(c)
        BY <2>3, <3>2
           DEF ClaimNext, ClaimList, ClaimSkip, ClaimPass, ClaimReadIdentity,
               ClaimReadGates, ClaimBlock, ClaimBlockAd, ClaimSubmit
      <4>2. ad'[d].status = "publishing" /\ ad'[d].isActive = ad[d].isActive
        BY <1>0, <1>2, <2>3, <4>1 DEF ClaimSubmitAd, ClaimedAd, AdRow
      <4> QED
        BY <1>2, <2>1, <4>2
    <3> QED
      BY <1>0, <2>3, <3>1, <3>2, BusyBefore
  <2>4. ASSUME ad[d].status = "publishing" PROVE Fine(a)
    <3>1. ASSUME NEW e \in Enqueuers, EnqueueMark(e), enqueue[e].ad = d
          PROVE  FALSE
      <4>1. PICK b \in Attempts : Queued(b) /\ attempt[b].ad = d
        BY <1>0, <3>1 DEF EnqueueMark, MarksQueued
      <4> QED
        BY <1>0, <1>2, <2>2, <4>1
           DEF OneOpenAttemptPerAd, Open, OpenStatus, Queued, Submitting
    <3>2. ASSUME NEW n \in Reconcilers, RefreshVisit(n), reconcile[n].ad = d
          PROVE  FALSE
      BY <1>0, <2>2, <3>2 DEF RefreshVisit, Visits
    <3>3. ASSUME NEW c \in Claimers, ClaimBlockAd(c), ClaimedAd(c) = d
          PROVE  FALSE
      BY <2>2, <3>3 DEF ClaimBlockAd, Ends
    <3>4. ASSUME NEW r \in Recorders, RecordAd(r) = d,
                 \/ RecordPublishedAd(r) \/ RecordFailedAd(r)
                 \/ RecordChallengeAd(r)
          PROVE  FALSE
      BY <2>2, <3>4
         DEF RecordPublishedAd, RecordFailedAd, RecordChallengeAd, Ends
    <3>5. ASSUME NEW x \in Expirers, ExpireAd(x),
                 attempt[expire[x].current].ad = d
          PROVE  FALSE
      BY <2>2, <3>5 DEF ExpireAd, Ends
    <3>6. /\ ad'[d].isActive
          /\ ad'[d].status = "publishing"
      <4>1. AdChange(d)
        BY <1>0, AdChanges
      <4> QED
        BY <2>1, <2>4, <3>1, <3>2, <3>3, <3>4, <3>5, <4>1 DEF AdChange
    <3> QED
      BY <1>2, <3>6
  <2> QED
    BY <2>1, <2>3, <2>4
<1>3. attempt'[a] = attempt[a] => Submitting(a) /\ attempt[a].ad \in Ads
  BY <1>0 DEF Submitting, RowsHaveAds, Exists
<1> HIDE DEF Fine
<1> QED
  BY <1>0, <1>1, <1>2, <1>3, StartOrStay

\* An attempt that ends was the only open one of its ad.
LEMMA EndedUnpublishedStep ==
  ASSUME Counting, ListingInv, [Next]_vars
  PROVE  EndedUnpublished'
<1>0. /\ SerialInv /\ TypeOK /\ Undisturbed /\ OneAtATime
      /\ OpenUnpublished /\ EndedUnpublished /\ OneOpenAttemptPerAd
      /\ \A c \in Claimers : HoldsQueued(c)
      /\ \A r \in Recorders : ReportsOpen(r)
      /\ \A x \in Expirers : ExpiresRunning(x)
      /\ attempt \in [Attempts -> AttemptRow]
      /\ claim \in [Claimers -> ClaimState]
      /\ record \in [Recorders -> RecordState]
      /\ expire \in [Expirers -> ExpireState]
  BY DEF ListingInv, FollowInv, SerialInv, ClaimInv, TypeOK, Counting, InOrder,
         Undisturbed
<1> DEFINE Fine(d) == ~HasOpenAttempt(d)' /\ ad'[d].status # "published"
<1> SUFFICES ASSUME NEW d \in Ads, Ends(d)' PROVE Fine(d)
  BY DEF EndedUnpublished
<1>1. CASE UNCHANGED <<db, handlers>>
  <2>1. Ends(d)
    BY <1>1 DEF Ends, ClaimedAd, RecordAd, db, handlers
  <2> QED
    BY <1>0, <1>1, <2>1 DEF EndedUnpublished, HasOpenAttempt, Open, db
<1>2. ASSUME NEW a \in Attempts, Open(a), attempt[a].ad = d, ~Open(a)',
             ad' = ad, \A b \in Attempts \ {a} : attempt'[b] = attempt[b]
      PROVE  Fine(d)
  BY <1>0, <1>2 DEF OneOpenAttemptPerAd, OpenUnpublished, HasOpenAttempt, Open
<1>3. ASSUME NEW c \in Claimers, ClaimNext(c), claim'[c].pc = "blockAd",
             ClaimedAd(c)' = d
      PROVE  Fine(d)
  <2>1. CASE ClaimBlock(c)
    <3>1. /\ claim[c].current \in Attempts /\ Queued(claim[c].current)
          /\ claim'[c].current = claim[c].current
      BY <1>0, <2>1 DEF ClaimBlock, HoldsQueued, ClaimState
    <3>2. /\ attempt'[claim[c].current].status = "policy_blocked"
          /\ attempt'[claim[c].current].ad = attempt[claim[c].current].ad
          /\ \A b \in Attempts \ {claim[c].current} : attempt'[b] = attempt[b]
          /\ ad' = ad
      BY <1>0, <2>1, <3>1 DEF ClaimBlock, AttemptRow
    <3> QED
      BY <1>2, <1>3, <3>1, <3>2 DEF ClaimedAd, Open, OpenStatus, Queued
  <2>2. CASE claim'[c] = claim[c] /\ UNCHANGED db
    <3>1. Ends(d)
      BY <1>3, <2>2 DEF Ends, ClaimedAd, db
    <3> QED
      BY <1>0, <2>2, <3>1 DEF EndedUnpublished, HasOpenAttempt, Open, db
  <2> QED
    BY <1>0, <1>3, <2>1, <2>2, ClaimEnters
<1>4. ASSUME NEW r \in Recorders, RecordResult(r), record'[r].pc = "ad",
             RecordAd(r)' = d
      PROVE  Fine(d)
  <2>1. RecordAttempt(r)
    BY <1>0, <1>4
       DEF RecordResult, RecordRead, RecordPublishedAd, RecordCount,
           RecordCadence, RecordFailedAd, RecordChallengeAd,
           RecordChallengeIdentity, NoRecord, RecordState
  <2>2. /\ record[r].attempt \in Attempts /\ Open(record[r].attempt)
        /\ record'[r].attempt = record[r].attempt
        /\ record[r].outcome \in Outcome
    BY <1>0, <2>1 DEF RecordAttempt, ReportsOpen, RecordState, NoRecord
  <2>3. /\ attempt'[record[r].attempt].status \in Outcome
        /\ attempt'[record[r].attempt].ad = attempt[record[r].attempt].ad
        /\ \A b \in Attempts \ {record[r].attempt} : attempt'[b] = attempt[b]
        /\ ad' = ad
    BY <1>0, <2>1, <2>2 DEF RecordAttempt, AttemptRow
  <2> QED
    BY <1>2, <1>4, <2>2, <2>3 DEF RecordAd, Open, OpenStatus, Outcome
<1>5. ASSUME NEW x \in Expirers, ExpireStaleSubmissions(x),
             expire'[x].pc = "ad", attempt'[expire'[x].current].ad = d
      PROVE  Fine(d)
  <2>1. PICK a \in Attempts : ExpireAttempt(x, a)
    <3>1. ASSUME ExpireList(x) PROVE FALSE
      BY <1>0, <1>5, <3>1 DEF ExpireList
    <3>2. ASSUME ExpireAd(x) PROVE FALSE
      <4>1. \/ expire'[x] = NoExpire
            \/ expire'[x] = [expire[x] EXCEPT !.pc = "attempt", !.current = 0]
        BY <1>0, <3>2 DEF ExpireAd
      <4>2. expire[x] \in ExpireState
        BY <1>0
      <4>3. [expire[x] EXCEPT !.pc = "attempt", !.current = 0].pc # "ad"
        BY <4>2 DEF ExpireState
      <4>4. NoExpire.pc # "ad"
        BY DEF NoExpire
      <4> QED
        BY <1>5, <4>1, <4>3, <4>4
    <3> QED
      BY <1>5, <3>1, <3>2 DEF ExpireStaleSubmissions
  <2>2. Submitting(a) /\ expire'[x].current = a
    BY <1>0, <2>1 DEF ExpireAttempt, ExpiresRunning
  <2>3. /\ attempt'[a].status = "failed" /\ attempt'[a].ad = attempt[a].ad
        /\ \A b \in Attempts \ {a} : attempt'[b] = attempt[b]
        /\ ad' = ad
    BY <1>0, <2>1 DEF ExpireAttempt, AttemptRow
  <2> QED
    BY <1>2, <1>5, <2>2, <2>3 DEF Open, OpenStatus, Submitting
<1> HIDE DEF Fine
<1> QED
  BY <1>0, <1>1, <1>3, <1>4, <1>5, BusyAfter DEF Ends

LEMMA ClaimsActiveStep ==
  ASSUME Counting, ListingInv, [Next]_vars, NEW c \in Claimers
  PROVE  ClaimsActive(c)'
<1>0. /\ SerialInv /\ TypeOK /\ OneAtATime /\ ClaimsActive(c)
      /\ claim \in [Claimers -> ClaimState] /\ claim[c] \in ClaimState
  BY DEF ListingInv, FollowInv, SerialInv, ClaimInv, TypeOK, Counting, InOrder,
         Undisturbed
<1>1. CASE claim'[c].pc \in {"idle", "block", "blockAd", "submitAd"}
  BY <1>1 DEF ClaimsActive
<1>2. CASE claim'[c] = claim[c] /\ UNCHANGED db
  BY <1>0, <1>2 DEF ClaimsActive, ClaimedAd, db
<1>3. CASE ClaimList(c)
  <2>1. /\ claim'[c].pc = "check" /\ claim'[c].todo = Candidates
        /\ attempt' = attempt /\ ad' = ad
    BY <1>0, <1>3 DEF ClaimList, NoClaim, db
  <2> QED
    BY <2>1 DEF ClaimsActive, Candidates
<1>4. ASSUME NEW a \in Attempts, ClaimSkip(c, a), claim'[c].pc = "check"
      PROVE  ClaimsActive(c)'
  <2>1. /\ claim[c].pc = "check" /\ claim'[c].todo \subseteq claim[c].todo
        /\ attempt' = attempt /\ ad' = ad
    BY <1>0, <1>4 DEF ClaimSkip, NoClaim, ClaimState, db
  <2> QED
    BY <1>0, <1>4, <2>1 DEF ClaimsActive
<1>5. ASSUME NEW a \in Attempts, ClaimPass(c, a) PROVE ClaimsActive(c)'
  <2>1. /\ claim[c].pc = "check" /\ a \in claim[c].todo
        /\ claim'[c].pc = "read" /\ claim'[c].current = a
        /\ attempt' = attempt /\ ad' = ad
    BY <1>0, <1>5 DEF ClaimPass, NoClaim, IsFirst, db
  <2> QED
    BY <1>0, <2>1 DEF ClaimsActive, ClaimedAd
<1>6. CASE ClaimReadIdentity(c) \/ ClaimReadGates(c)
  <2>1. /\ claim[c].pc \in {"read", "gates"}
        /\ claim'[c].current = claim[c].current
        /\ claim'[c].pc # "check"
        /\ attempt' = attempt /\ ad' = ad
    BY <1>0, <1>6 DEF ClaimReadIdentity, ClaimReadGates, ClaimState, db
  <2> QED
    BY <1>0, <2>1 DEF ClaimsActive, ClaimedAd
<1> QED
  BY <1>0, <1>1, <1>2, <1>3, <1>4, <1>5, <1>6, ClaimEnters

LEMMA EnqueuesUnpublishedStep ==
  ASSUME Counting, ListingInv, [Next]_vars, NEW e \in Enqueuers
  PROVE  EnqueuesUnpublished(e)'
<1>0. /\ SerialInv /\ TypeOK /\ Undisturbed /\ EnqueuesUnpublished(e)
      /\ enqueue \in [Enqueuers -> EnqueueState] /\ enqueue[e] \in EnqueueState
  BY DEF ListingInv, FollowInv, SerialInv, ClaimInv, TypeOK, Counting, InOrder
<1> SUFFICES ASSUME enqueue'[e].pc # "idle"
             PROVE  ad'[enqueue'[e].ad].status # "published"
  BY DEF EnqueuesUnpublished
<1>1. CASE UNCHANGED <<db, handlers>>
  BY <1>0, <1>1 DEF EnqueuesUnpublished, db, handlers
<1>2. CASE enqueue[e].pc # "idle" /\ enqueue'[e].ad = enqueue[e].ad /\ ad' = ad
  BY <1>0, <1>2 DEF EnqueuesUnpublished
<1>3. CASE enqueue'[e] = NoEnqueue
  BY <1>3 DEF NoEnqueue
<1>4. CASE EnqueueDraft(e)
  <2>1. ASSUME NEW d \in Ads, EnqueueRead(e, d)
        PROVE  ad'[enqueue'[e].ad].status # "published"
    <3>1. enqueue'[e].ad = d /\ ad' = ad
      BY <1>0, <2>1 DEF EnqueueRead, NoEnqueue, db
    <3> QED
      BY <2>1, <3>1 DEF EnqueueRead, Publishable
  <2>2. CASE EnqueueExisting(e)
    <3>1. \/ enqueue'[e] = NoEnqueue
          \/ enqueue'[e] = [enqueue[e] EXCEPT !.pc = "read"]
      BY <1>0, <2>2 DEF EnqueueExisting
    <3> QED
      BY <1>0, <1>2, <1>3, <2>2, <3>1 DEF EnqueueExisting, EnqueueState, db
  <2>3. CASE EnqueueReadIdentity(e)
    BY <1>0, <1>2, <2>3 DEF EnqueueReadIdentity, EnqueueState, db
  <2>4. CASE EnqueueReadGates(e)
    <3>1. PICK pc \in {"reserve", "reject"}, slot \in Slots(enqueue[e].slot) :
            enqueue' = [enqueue EXCEPT ![e].pc = pc, ![e].slot = slot]
      BY <2>4, Zenon DEF EnqueueReadGates
    <3> QED
      BY <1>0, <1>2, <2>4, <3>1 DEF EnqueueReadGates, EnqueueState, db
  <2>5. CASE EnqueueReserve(e)
    BY <1>0, <1>2, <2>5 DEF EnqueueReserve, EnqueueState
  <2>6. ASSUME NEW a \in Attempts, EnqueueCreate(e, a)
        PROVE  ad'[enqueue'[e].ad].status # "published"
    BY <1>0, <1>2, <2>6 DEF EnqueueCreate, EnqueueState
  <2>7. ASSUME NEW a \in Attempts, EnqueueReject(e, a) PROVE enqueue'[e] = NoEnqueue
    BY <1>0, <2>7 DEF EnqueueReject
  <2>8. EnqueueMark(e) => enqueue'[e] = NoEnqueue
    BY <1>0 DEF EnqueueMark
  <2> QED
    BY <1>3, <1>4, <2>1, <2>2, <2>3, <2>4, <2>5, <2>6, <2>7, <2>8
       DEF EnqueueDraft
<1> QED
  BY <1>0, <1>1, <1>4, BusyAfter

LEMMA PublishesActiveStep ==
  ASSUME Counting, ListingInv, [Next]_vars, NEW r \in Recorders
  PROVE  PublishesActive(r)'
<1>0. /\ SerialInv /\ TypeOK /\ Undisturbed /\ PublishesActive(r)
      /\ ~UnclaimedResults /\ ReportsOpen(r) /\ RunningActive /\ RowsHaveAds
      /\ attempt \in [Attempts -> AttemptRow]
      /\ record \in [Recorders -> RecordState] /\ record[r] \in RecordState
  BY DEF ListingInv, FollowInv, SerialInv, ClaimInv, TypeOK, Counting, InOrder
<1> SUFFICES ASSUME record'[r].pc = "ad"
             PROVE  RecordAd(r)' \in Ads /\ ad'[RecordAd(r)'].isActive
  BY DEF PublishesActive
<1>1. CASE UNCHANGED <<db, handlers>>
  BY <1>0, <1>1 DEF PublishesActive, RecordAd, db, handlers
<1>2. CASE RecordResult(r)
  <2>1. RecordAttempt(r)
    BY <1>0, <1>2
       DEF RecordResult, RecordRead, RecordPublishedAd, RecordCount,
           RecordCadence, RecordFailedAd, RecordChallengeAd,
           RecordChallengeIdentity, NoRecord, RecordState
  <2>2. /\ record[r].attempt \in Attempts /\ Submitting(record[r].attempt)
        /\ record'[r].attempt = record[r].attempt
    BY <1>0, <2>1 DEF RecordAttempt, ReportsOpen, RecordState, NoRecord
  <2>3. /\ attempt'[record[r].attempt].ad = attempt[record[r].attempt].ad
        /\ ad' = ad
    BY <1>0, <2>1, <2>2 DEF RecordAttempt, AttemptRow
  <2> QED
    BY <1>0, <2>2, <2>3
       DEF RunningActive, RecordAd, RowsHaveAds, Exists, Submitting
<1> QED
  BY <1>0, <1>1, <1>2, BusyAfter

\* What the steps of a recount leave in its request.
LEMMA ReconcileRows ==
  ASSUME TypeOK, NEW n \in Reconcilers, ReconcileIdentityCounts(n)
  PROVE  \/ /\ reconcile'[n].pc = "count" /\ ~reconcile'[n].always
            /\ reconcile[n].pc = "idle" /\ UNCHANGED db
         \/ /\ reconcile'[n].pc = "visit" /\ reconcile'[n].always
            /\ reconcile[n].pc = "idle" /\ UNCHANGED db
            /\ \E d \in Ads : /\ ad[d].listed /\ ad[d].status = "published"
                              /\ reconcile'[n].ad = d
                              /\ reconcile'[n].todo = {Owner[d]}
         \/ /\ RefreshVisit(n)
            /\ reconcile'[n].pc = "count"
            /\ reconcile'[n].always = reconcile[n].always
            /\ reconcile'[n].todo = reconcile[n].todo
         \/ /\ \E i \in reconcile[n].todo :
                 /\ reconcile'[n].current = i
                 /\ reconcile'[n].tracked = Tracked(i)
                 /\ reconcile'[n].todo = reconcile[n].todo \ {i}
            /\ reconcile'[n].pc = "write" /\ reconcile[n].pc = "count"
            /\ reconcile'[n].always = reconcile[n].always /\ UNCHANGED db
         \/ /\ ReconcileWrite(n)
            /\ \/ reconcile'[n].pc = "idle" /\ reconcile[n].todo = {}
               \/ /\ reconcile'[n].pc = "count"
                  /\ reconcile'[n].always = reconcile[n].always
                  /\ reconcile'[n].todo = reconcile[n].todo
<1>0. /\ reconcile \in [Reconcilers -> ReconcileState]
      /\ reconcile[n] \in ReconcileState
  BY DEF TypeOK
<1>n. /\ NoReconcile \in ReconcileState /\ NoReconcile.pc = "idle"
      /\ NoReconcile.always = FALSE
  BY DEF NoReconcile, ReconcileState
<1>r. ASSUME NEW s \in ReconcileState, NEW scope, NEW seen
      PROVE  /\ [s EXCEPT !.pc = "count", !.todo = scope, !.seen = seen].pc = "count"
             /\ [s EXCEPT !.pc = "count", !.todo = scope, !.seen = seen].always
                  = s.always
  BY DEF ReconcileState
<1>v. ASSUME NEW s \in ReconcileState, NEW d, NEW scope
      PROVE  LET t == [s EXCEPT !.pc = "visit", !.ad = d, !.todo = scope,
                                !.always = TRUE]
             IN  t.pc = "visit" /\ t.ad = d /\ t.todo = scope /\ t.always = TRUE
  BY DEF ReconcileState
<1>1. ASSUME NEW scope, ReconcileRead(n, scope)
      PROVE  /\ reconcile'[n].pc = "count" /\ ~reconcile'[n].always
             /\ reconcile[n].pc = "idle" /\ UNCHANGED db
  <2>1. PICK seen :
          reconcile' = [reconcile EXCEPT ![n] =
            [NoReconcile EXCEPT !.pc = "count", !.todo = scope, !.seen = seen]]
    BY <1>1, Zenon DEF ReconcileRead
  <2> DEFINE t == [NoReconcile EXCEPT !.pc = "count", !.todo = scope,
                                      !.seen = seen]
  <2>2. t.pc = "count" /\ t.always = FALSE
    <3>1. t.pc = "count" /\ t.always = NoReconcile.always
      BY <1>n, <1>r
    <3> HIDE DEF t
    <3> QED
      BY <1>n, <3>1
  <2>3. reconcile' = [reconcile EXCEPT ![n] = t]
    BY <2>1
  <2>4. reconcile[n].pc = "idle" /\ UNCHANGED db
    BY <1>1, Zenon DEF ReconcileRead
  <2> HIDE DEF t
  <2> QED
    BY <1>0, <2>2, <2>3, <2>4
<1>2. ASSUME NEW d \in Ads, RefreshRead(n, d)
      PROVE  /\ reconcile'[n].pc = "visit" /\ reconcile'[n].always
             /\ reconcile[n].pc = "idle" /\ UNCHANGED db
             /\ ad[d].listed /\ ad[d].status = "published"
             /\ reconcile'[n].ad = d
             /\ reconcile'[n].todo = {Owner[d]}
  <2> DEFINE t == [NoReconcile EXCEPT !.pc = "visit", !.ad = d,
                                      !.todo = {Owner[d]}, !.always = TRUE]
  <2>1. t.pc = "visit" /\ t.ad = d /\ t.todo = {Owner[d]} /\ t.always = TRUE
    BY <1>n, <1>v, Zenon
  <2>2. /\ reconcile' = [reconcile EXCEPT ![n] = t]
        /\ reconcile[n].pc = "idle" /\ UNCHANGED db
        /\ ad[d].listed /\ ad[d].status = "published"
    BY <1>2, Zenon DEF RefreshRead
  <2> HIDE DEF t
  <2> QED
    BY <1>0, <2>1, <2>2
<1>3. CASE RefreshVisit(n)
  <2>1. reconcile'[n] = [reconcile[n] EXCEPT !.pc = "count"]
    BY <1>0, <1>3 DEF RefreshVisit
  <2> QED
    BY <1>0, <1>3, <2>1 DEF ReconcileState
<1>4. ASSUME NEW i \in Identities, ReconcileCount(n, i)
      PROVE  /\ i \in reconcile[n].todo
             /\ reconcile'[n].current = i
             /\ reconcile'[n].tracked = Tracked(i)
             /\ reconcile'[n].todo = reconcile[n].todo \ {i}
             /\ reconcile'[n].pc = "write" /\ reconcile[n].pc = "count"
             /\ reconcile'[n].always = reconcile[n].always /\ UNCHANGED db
  <2>1. reconcile'[n] = [reconcile[n] EXCEPT !.pc = "write", !.current = i,
                           !.todo = reconcile[n].todo \ {i},
                           !.tracked = Tracked(i)]
    BY <1>0, <1>4 DEF ReconcileCount
  <2>2. i \in reconcile[n].todo /\ reconcile[n].pc = "count" /\ UNCHANGED db
    BY <1>4 DEF ReconcileCount
  <2> QED
    BY <1>0, <2>1, <2>2 DEF ReconcileState
<1>5. CASE ReconcileWrite(n)
  <2>1. \/ reconcile'[n] = NoReconcile /\ reconcile[n].todo = {}
        \/ reconcile'[n] = [reconcile[n] EXCEPT !.pc = "count"]
    BY <1>0, <1>5 DEF ReconcileWrite
  <2>2. LET t == [reconcile[n] EXCEPT !.pc = "count"]
        IN  /\ t.pc = "count" /\ t.always = reconcile[n].always
            /\ t.todo = reconcile[n].todo
    BY <1>0 DEF ReconcileState
  <2> QED
    BY <1>5, <1>n, <2>1, <2>2, Zenon
<1> QED
  BY <1>1, <1>2, <1>3, <1>4, <1>5, Zenon DEF ReconcileIdentityCounts

LEMMA VisitsStep ==
  ASSUME Counting, ListingInv, [Next]_vars, NEW n \in Reconcilers
  PROVE  Visits(n)'
<1>0. SerialInv /\ TypeOK /\ Undisturbed /\ Visits(n)
  BY DEF ListingInv, FollowInv, SerialInv, ClaimInv, Counting, InOrder
<1> SUFFICES ASSUME reconcile'[n].pc = "visit" PROVE Visits(n)'
  BY DEF Visits
<1>1. CASE UNCHANGED <<db, handlers>>
  BY <1>0, <1>1 DEF Visits, db, handlers
<1>2. CASE ReconcileIdentityCounts(n)
  <2>1. /\ reconcile'[n].always /\ ad' = ad
        /\ \E d \in Ads : /\ ad[d].status = "published"
                          /\ reconcile'[n].ad = d
                          /\ reconcile'[n].todo = {Owner[d]}
    BY <1>0, <1>2, ReconcileRows DEF db
  <2> QED
    BY <2>1 DEF Visits
<1> QED
  BY <1>0, <1>1, <1>2, BusyAfter

LEMMA NextListingInv ==
  ASSUME Counting
  PROVE  ListingInv /\ [Next]_vars => ListingInv'
<1> SUFFICES ASSUME ListingInv, [Next]_vars PROVE ListingInv'
  OBVIOUS
<1>1. FollowInv'
  BY NextFollowInv DEF ListingInv, Counting, InOrder
<1> QED
  BY <1>1, PublishedActiveStep, OpenUnpublishedStep, RunningActiveStep,
     EndedUnpublishedStep, ClaimsActiveStep, EnqueuesUnpublishedStep,
     PublishesActiveStep, VisitsStep
     DEF ListingInv

\* What the count of an identity counts.
OnSale(d) == ad[d].isActive /\ ad[d].status = "published"
OnSaleOf(i) == {d \in Ads : Owner[d] = i /\ OnSale(d)}

LEMMA TrackedCounts ==
  ASSUME NEW i \in Identities
  PROVE  /\ Tracked(i) = Cardinality(OnSaleOf(i))
         /\ Tracked(i)' = Cardinality(OnSaleOf(i)')
         /\ IsFiniteSet(OnSaleOf(i)) /\ IsFiniteSet(OnSaleOf(i)')
         /\ Tracked(i) \in Nat /\ Tracked(i)' \in Nat
<1>1. OnSaleOf(i) \in SUBSET Ads /\ OnSaleOf(i)' \in SUBSET Ads
  BY DEF OnSaleOf
<1>2. IsFiniteSet(OnSaleOf(i)) /\ IsFiniteSet(OnSaleOf(i)')
  BY <1>1, QueueAssumption, FS_Subset
<1>3. /\ OnSaleOf(i) = {d \in Ads : /\ Owner[d] = i
                                    /\ ad[d].isActive
                                    /\ ad[d].status = "published"}
      /\ OnSaleOf(i)' = {d \in Ads : /\ Owner[d] = i
                                     /\ ad'[d].isActive
                                     /\ ad'[d].status = "published"}
  BY DEF OnSaleOf, OnSale
<1>4. /\ Tracked(i) = Cardinality(OnSaleOf(i))
      /\ Tracked(i)' = Cardinality(OnSaleOf(i)')
  BY <1>3, Zenon DEF Tracked
<1> QED
  BY <1>2, <1>4, FS_CardinalityType

\* An ad comes on sale by a result that publishes it, and leaves by a visit
\* that finds it gone.
LEMMA OnSaleChanges ==
  ASSUME Counting, ListingInv, [Next]_vars, NEW d \in Ads
  PROVE  \/ OnSale(d)' <=> OnSale(d)
         \/ /\ OnSale(d)'
            /\ \E r \in Recorders : RecordPublishedAd(r) /\ RecordAd(r) = d
         \/ /\ ~OnSale(d)'
            /\ \E n \in Reconcilers : RefreshVisit(n) /\ reconcile[n].ad = d
<1>0. /\ SerialInv /\ TypeOK /\ Undisturbed /\ ~Withdrawals
      /\ PublishedActive /\ OpenUnpublished /\ EndedUnpublished
      /\ \A c \in Claimers : StartsRunning(c) /\ KnowsRows(c)
      /\ \A e \in Enqueuers : EnqueuesUnpublished(e)
  BY DEF ListingInv, FollowInv, SerialInv, ClaimInv, Counting, InOrder
<1>1. ASSUME Ends(d) PROVE ad[d].status # "published"
  BY <1>0, <1>1 DEF EndedUnpublished
<1>2. ASSUME NEW c \in Claimers, ClaimSubmitAd(c), ClaimedAd(c) = d
      PROVE  ad[d].status # "published"
  BY <1>0, <1>2
     DEF ClaimSubmitAd, StartsRunning, KnowsRows, Held, OpenUnpublished, Open,
         OpenStatus, Submitting, ClaimedAd
<1>3. ASSUME NEW e \in Enqueuers, EnqueueMark(e), enqueue[e].ad = d
      PROVE  ad[d].status # "published"
  BY <1>0, <1>3 DEF EnqueueMark, EnqueuesUnpublished
<1>4. ASSUME NEW c \in Claimers, ClaimBlockAd(c), ClaimedAd(c) = d
      PROVE  ad[d].status # "published"
  BY <1>1, <1>4 DEF ClaimBlockAd, Ends
<1>5. ASSUME NEW r \in Recorders, RecordAd(r) = d,
             RecordFailedAd(r) \/ RecordChallengeAd(r)
      PROVE  ad[d].status # "published"
  BY <1>1, <1>5 DEF RecordFailedAd, RecordChallengeAd, Ends
<1>6. ASSUME NEW x \in Expirers, ExpireAd(x), attempt[expire[x].current].ad = d
      PROVE  ad[d].status # "published"
  BY <1>1, <1>6 DEF ExpireAd, Ends
<1>7. ad[d].status = "published" => ad[d].isActive
  BY <1>0 DEF PublishedActive
<1>8. AdChange(d)
  BY <1>0, AdChanges
<1> QED
  BY <1>2, <1>3, <1>4, <1>5, <1>6, <1>7, <1>8 DEF AdChange, OnSale

LEMMA TrackedStays ==
  ASSUME Counting, ListingInv, [Next]_vars, NEW i \in Identities,
         ~\E r \in Recorders : RecordPublishedAd(r) /\ RecordIdentity(r) = i,
         ~\E n \in Reconcilers :
            RefreshVisit(n) /\ Owner[reconcile[n].ad] = i
  PROVE  Tracked(i)' = Tracked(i)
<1>1. OnSaleOf(i)' = OnSaleOf(i)
  <2>1. ASSUME NEW d \in Ads, Owner[d] = i PROVE OnSale(d)' <=> OnSale(d)
    BY <2>1, OnSaleChanges DEF RecordIdentity
  <2> QED
    BY <2>1 DEF OnSaleOf
<1> QED
  BY <1>1, TrackedCounts

\* One result and one visit run, not both.
LEMMA OneWriter ==
  ASSUME OneRuns
  PROVE  /\ \A q, r \in Recorders :
              RecordPublishedAd(q) /\ RecordPublishedAd(r) => q = r
         /\ \A m, n \in Reconcilers : RefreshVisit(m) /\ RefreshVisit(n) => m = n
         /\ \A r \in Recorders, n \in Reconcilers :
              ~(RecordPublishedAd(r) /\ RefreshVisit(n))
<1>1. /\ \A r \in Recorders : RecordPublishedAd(r) => record[r].pc = "ad"
      /\ \A n \in Reconcilers : RefreshVisit(n) => reconcile[n].pc = "visit"
  BY DEF RecordPublishedAd, RefreshVisit
<1> QED
  BY <1>1 DEF OneRuns, OnlyRecord, OnlyReconcile, IdleReconciles

LEMMA TrackedGrows ==
  ASSUME Counting, ListingInv, [Next]_vars, NEW i \in Identities,
         NEW r \in Recorders, RecordPublishedAd(r), RecordIdentity(r) = i
  PROVE  Tracked(i)' = Tracked(i) + 1
<1> SUFFICES ASSUME NEW d, d = RecordAd(r) PROVE Tracked(i)' = Tracked(i) + 1
  OBVIOUS
<1>0. /\ OneRuns /\ ad \in [Ads -> AdRow]
      /\ d \in Ads /\ Owner[d] = i
      /\ ad[d].isActive /\ ad[d].status # "published"
  BY DEF ListingInv, FollowInv, SerialInv, ClaimInv, TypeOK, RecordPublishedAd,
         PublishesActive, EndedUnpublished, Ends, RecordIdentity
<1>1. ~OnSale(d) /\ OnSale(d)'
  <2>1. ad'[d].isActive = ad[d].isActive /\ ad'[d].status = "published"
    BY <1>0 DEF RecordPublishedAd, AdRow
  <2> QED
    BY <1>0, <2>1 DEF OnSale
<1>2. ASSUME NEW b \in Ads, b # d PROVE OnSale(b)' <=> OnSale(b)
  BY <1>0, <1>2, OnSaleChanges, OneWriter
<1>3. OnSaleOf(i)' = OnSaleOf(i) \cup {d} /\ d \notin OnSaleOf(i)
  BY <1>0, <1>1, <1>2 DEF OnSaleOf
<1>4. /\ IsFiniteSet(OnSaleOf(i))
      /\ Tracked(i) = Cardinality(OnSaleOf(i))
      /\ Tracked(i)' = Cardinality(OnSaleOf(i)')
  BY TrackedCounts
<1>5. Cardinality(OnSaleOf(i) \cup {d}) = Cardinality(OnSaleOf(i)) + 1
  BY <1>3, <1>4, FS_AddElement
<1> QED
  BY <1>3, <1>4, <1>5, Zenon

LEMMA TrackedShrinks ==
  ASSUME Counting, ListingInv, [Next]_vars, NEW i \in Identities,
         NEW n \in Reconcilers, RefreshVisit(n)
  PROVE  Tracked(i)' <= Tracked(i)
<1>0. OneRuns
  BY DEF ListingInv, FollowInv, SerialInv
<1>1. OnSaleOf(i)' \in SUBSET OnSaleOf(i)
  <2>1. ASSUME NEW d \in Ads, OnSale(d)' PROVE OnSale(d)
    BY <1>0, <2>1, OnSaleChanges, OneWriter
  <2> QED
    BY <2>1 DEF OnSaleOf
<1> QED
  BY <1>1, TrackedCounts, FS_Subset

\* The writes of the counter.
LEMMA CounterMoves ==
  ASSUME TypeOK, [Next]_vars, NEW i \in Identities
  PROVE  \/ identity'[i].activeAdCount = identity[i].activeAdCount
         \/ \E r \in Recorders : RecordCount(r) /\ RecordIdentity(r) = i
         \/ \E n \in Reconcilers : ReconcileWrite(n) /\ reconcile[n].current = i
<1>0. identity \in [Identities -> IdentityRow] /\ identity[i] \in IdentityRow
  BY DEF TypeOK
<1> DEFINE Same == identity'[i].activeAdCount = identity[i].activeAdCount
<1>1. ASSUME NEW r \in Recorders, RecordCount(r), RecordIdentity(r) # i PROVE Same
  BY <1>0, <1>1 DEF RecordCount
<1>2. ASSUME NEW n \in Reconcilers, ReconcileWrite(n), reconcile[n].current # i
      PROVE  Same
  <2>1. \/ identity' = identity
        \/ identity' = [identity EXCEPT ![reconcile[n].current].activeAdCount =
                                          reconcile[n].tracked]
    BY <1>2 DEF ReconcileWrite
  <2> QED
    BY <1>0, <1>2, <2>1
<1>3. ASSUME NEW r \in Recorders, RecordChallengeIdentity(r) PROVE Same
  BY <1>0, <1>3 DEF RecordChallengeIdentity, IdentityRow
<1>4. ASSUME NEW e \in Enqueuers, EnqueueReserve(e) PROVE Same
  BY <1>0, <1>4 DEF EnqueueReserve, IdentityRow
<1>5. ASSUME NEW j \in Identities, Pause(j) \/ Reverify(j) PROVE Same
  <2>1. CASE Pause(j)
    BY <1>0, <2>1 DEF Pause, IdentityRow
  <2>2. CASE Reverify(j)
    BY <1>0, <2>2 DEF Reverify, IdentityRow
  <2> QED
    BY <1>5, <2>1, <2>2
<1>6. CASE identity' = identity
  BY <1>6
<1> HIDE DEF Same
<1> USE DEF db, handlers
<1>7. ASSUME NEW c \in Claimers, ClaimNext(c) PROVE identity' = identity
  BY <1>7 DEF ClaimNext, ClaimList, ClaimSkip, ClaimPass, ClaimReadIdentity,
              ClaimReadGates, ClaimBlock, ClaimBlockAd, ClaimSubmit,
              ClaimSubmitAd
<1>8. ASSUME NEW e \in Enqueuers, EnqueueDraft(e), ~EnqueueReserve(e)
      PROVE  identity' = identity
  BY <1>8 DEF EnqueueDraft, EnqueueRead, EnqueueExisting, EnqueueReadIdentity,
              EnqueueReadGates, EnqueueMark, EnqueueReject, EnqueueCreate
<1>9. ASSUME NEW r \in Recorders, RecordResult(r), ~RecordCount(r),
             ~RecordChallengeIdentity(r)
      PROVE  identity' = identity
  BY <1>9 DEF RecordResult, RecordRead, RecordAttempt, RecordPublishedAd,
              RecordCadence, RecordFailedAd, RecordChallengeAd
<1>10. ASSUME NEW x \in Expirers, ExpireStaleSubmissions(x)
       PROVE  identity' = identity
  BY <1>10 DEF ExpireStaleSubmissions, ExpireList, ExpireAttempt, ExpireAd
<1>11. ASSUME NEW n \in Reconcilers, ReconcileIdentityCounts(n),
              ~ReconcileWrite(n)
       PROVE  identity' = identity
  BY <1>11, Zenon
     DEF ReconcileIdentityCounts, ReconcileRead, ReconcileCount, RefreshRead,
         RefreshVisit
<1>12. ASSUME \/ Tick \/ CrashHandler \/ UNCHANGED vars
              \/ \E d \in Ads : WithdrawAd(d) \/ RestoreAd(d) \/ ReuseDraft(d)
       PROVE  identity' = identity
  BY <1>12 DEF WithdrawAd, RestoreAd, ReuseDraft, Tick, AdOnly, CrashHandler,
               vars
<1> QED
  BY <1>1, <1>2, <1>3, <1>4, <1>5, <1>6, <1>7, <1>8, <1>9, <1>10, <1>11, <1>12
     DEF Next, Same

LEMMA InitCountInv ==
  ASSUME Counting
  PROVE  Init => CountInv
<1> SUFFICES ASSUME Init PROVE CountInv
  OBVIOUS
<1>1. ListingInv
  BY InitListingInv
<1>2. /\ \A c \in Claimers : SawRoom(c)
      /\ \A r \in Recorders : RoomToPublish(r)
      /\ \A n \in Reconcilers : Recounts(n)
      /\ RoomForRunning
  BY DEF Init, SawRoom, Allowed, RoomToPublish, Recounts, RoomForRunning,
         Submitting, Absent, NoClaim, NoRecord, NoReconcile
<1>3. ASSUME NEW i \in Identities PROVE Counted(i) /\ Tracked(i) <= MaxActiveAds
  <2>1. {d \in Ads : Owner[d] = i /\ ad[d].isActive /\ ad[d].status = "published"}
          = {d \in AlreadyListed : Owner[d] = i}
    BY QueueAssumption DEF Init
  <2>2. Tracked(i) = Cardinality({d \in AlreadyListed : Owner[d] = i})
    BY <2>1, Zenon DEF Tracked
  <2>3. identity[i].activeAdCount = Cardinality({d \in AlreadyListed : Owner[d] = i})
    BY DEF Init, NewIdentity
  <2>4. ~Uncounted(i)
    BY DEF Init, Uncounted, NoRecord
  <2> QED
    BY <2>2, <2>3, <2>4 DEF Counted, Counting
<1> QED
  BY <1>1, <1>2, <1>3 DEF CountInv

\* Between requests, and for a request that recounts and publishes nothing, the
\* counter is exact.
LEMMA ExactWhen ==
  ASSUME NEW i \in Identities, Counted(i), ~Uncounted(i), ~WillRecount(i)
  PROVE  Tracked(i) = identity[i].activeAdCount
BY DEF Counted

LEMMA NobodyRecounts ==
  ASSUME IdleReconciles, NEW i
  PROVE  ~WillRecount(i)
BY DEF IdleReconciles, WillRecount

LEMMA NobodyPublishes ==
  ASSUME IdleRecords, NEW i
  PROVE  ~Uncounted(i)
BY DEF IdleRecords, Uncounted

LEMMA CountedStep ==
  ASSUME Counting, CountInv, [Next]_vars, NEW i \in Identities
  PROVE  Counted(i)'
<1>0. /\ SerialInv /\ TypeOK /\ OneRuns /\ Undisturbed
      /\ ListingInv /\ Counted(i)
      /\ identity \in [Identities -> IdentityRow] /\ identity[i] \in IdentityRow
      /\ record \in [Recorders -> RecordState]
  BY DEF CountInv, ListingInv, FollowInv, SerialInv, ClaimInv, TypeOK, Counting,
         InOrder
<1> DEFINE T == Tracked(i)  N == identity[i].activeAdCount
\* A step of a request that neither recounts nor publishes.
<1>1. ASSUME IdleRecords, IdleRecords', IdleReconciles, IdleReconciles'
      PROVE  Counted(i)'
  <2>1. /\ ~Uncounted(i) /\ ~Uncounted(i)' /\ ~WillRecount(i)
    BY <1>1 DEF IdleRecords, IdleReconciles, WillRecount, Uncounted
  <2>2. Tracked(i)' = Tracked(i)
    BY <1>0, <1>1, TrackedStays
       DEF IdleRecords, IdleReconciles, RecordPublishedAd, RefreshVisit
  <2>3. identity'[i].activeAdCount = identity[i].activeAdCount
    BY <1>0, <1>1, CounterMoves
       DEF IdleRecords, IdleReconciles, RecordCount, ReconcileWrite
  <2>4. Tracked(i) = identity[i].activeAdCount
    BY <1>0, <2>1, ExactWhen
  <2> QED
    BY <2>1, <2>2, <2>3, <2>4 DEF Counted
<1>2. CASE UNCHANGED <<db, handlers>>
  BY <1>0, <1>2
     DEF Counted, Uncounted, WillRecount, Tracked, RecordIdentity, RecordAd, db,
         handlers
<1>3. ASSUME NEW r \in Recorders, RecordResult(r), OnlyRecord(r), OnlyRecord(r)'
      PROVE  Counted(i)'
  <2>0. /\ IdleReconciles /\ IdleReconciles'
        /\ \A q \in Recorders \ {r} : record[q].pc = "idle" /\ record'[q].pc = "idle"
        /\ record[r] \in RecordState
    BY <1>0, <1>3 DEF OnlyRecord
  <2>1. ~WillRecount(i)
    BY <2>0, NobodyRecounts
  <2>2. /\ Uncounted(i) <=> record[r].pc = "count" /\ RecordIdentity(r) = i
        /\ Uncounted(i)' <=> record'[r].pc = "count" /\ RecordIdentity(r)' = i
    BY <2>0 DEF Uncounted
  <2>3. CASE RecordPublishedAd(r)
    <3>1. record'[r].pc = "count" /\ RecordIdentity(r)' = RecordIdentity(r)
      BY <2>0, <2>3, <1>0
         DEF RecordPublishedAd, RecordState, NoRecord, RecordIdentity, RecordAd
    <3>2. record[r].pc = "ad"
      BY <2>3 DEF RecordPublishedAd
    <3>3. Tracked(i) = identity[i].activeAdCount
      BY <1>0, <2>1, <2>2, <3>2, ExactWhen
    <3>4. identity' = identity
      BY <2>3 DEF RecordPublishedAd
    <3>5. CASE RecordIdentity(r) = i
      <4>1. Tracked(i)' = Tracked(i) + 1
        BY <1>0, <2>3, <3>5, TrackedGrows
      <4> QED
        BY <2>2, <3>1, <3>3, <3>4, <3>5, <4>1 DEF Counted
    <3>6. CASE RecordIdentity(r) # i
      <4>1. Tracked(i)' = Tracked(i)
        BY <1>0, <2>3, <3>6, TrackedStays, OneWriter
      <4> QED
        BY <2>2, <3>1, <3>3, <3>4, <3>6, <4>1 DEF Counted
    <3> QED
      BY <3>5, <3>6
  <2>4. CASE ~RecordPublishedAd(r)
    <3>1. Tracked(i)' = Tracked(i)
      BY <1>0, <2>0, <2>4, TrackedStays
         DEF IdleReconciles, RecordPublishedAd, RefreshVisit
    <3>2. CASE RecordCount(r)
      <4>1. record[r].pc = "count" /\ record'[r].pc = "cadence"
        BY <1>0, <2>0, <3>2 DEF RecordCount, RecordState, NoRecord
      <4>2. CASE RecordIdentity(r) = i
        <5>1. identity'[i].activeAdCount = identity[i].activeAdCount + 1
          BY <1>0, <3>2, <4>2 DEF RecordCount, IdentityRow
        <5>2. Tracked(i) = identity[i].activeAdCount + 1
          BY <1>0, <2>2, <4>1, <4>2 DEF Counted
        <5> QED
          BY <2>2, <3>1, <4>1, <5>1, <5>2 DEF Counted
      <4>3. CASE RecordIdentity(r) # i
        <5>1. identity'[i] = identity[i]
          BY <1>0, <3>2, <4>3 DEF RecordCount
        <5>2. Tracked(i) = identity[i].activeAdCount
          BY <1>0, <2>1, <2>2, <4>3, ExactWhen
        <5> QED
          BY <2>2, <3>1, <4>1, <5>1, <5>2 DEF Counted
      <4> QED
        BY <4>2, <4>3
    <3>3. CASE ~RecordCount(r)
      <4>1. identity'[i].activeAdCount = identity[i].activeAdCount
        <5>1. ~\E q \in Recorders : RecordCount(q)
          BY <2>0, <3>3 DEF RecordCount
        <5>2. ~\E n \in Reconcilers : ReconcileWrite(n)
          BY <2>0 DEF IdleReconciles, ReconcileWrite
        <5> QED
          BY <1>0, <5>1, <5>2, CounterMoves
      <4>2. record[r].pc # "count" /\ record'[r].pc # "count"
        <5>1. record'[r] = NoRecord => record'[r].pc # "count"
          BY DEF NoRecord
        <5>2. ASSUME NEW a \in Attempts, NEW outcome \in Outcome,
                     RecordRead(r, a, outcome)
              PROVE  record[r].pc # "count" /\ record'[r].pc # "count"
          BY <1>0, <5>2 DEF RecordRead
        <5>3. CASE RecordAttempt(r) \/ RecordChallengeAd(r)
          <6>1. record[r] # NoRecord
            BY <5>3 DEF RecordAttempt, RecordChallengeAd, NoRecord
          <6> QED
            BY <1>0, <2>0, <5>3, <6>1
               DEF RecordAttempt, RecordChallengeAd, RecordState
        <5>4. CASE \/ RecordCadence(r) \/ RecordFailedAd(r)
                   \/ RecordChallengeIdentity(r)
          BY <1>0, <5>1, <5>4
             DEF RecordCadence, RecordFailedAd, RecordChallengeIdentity
        <5> QED
          BY <1>3, <2>4, <3>3, <5>2, <5>3, <5>4 DEF RecordResult
      <4>3. Tracked(i) = identity[i].activeAdCount
        BY <1>0, <2>1, <2>2, <4>2, ExactWhen
      <4> QED
        BY <2>2, <3>1, <4>1, <4>2, <4>3 DEF Counted
    <3> QED
      BY <3>2, <3>3
  <2> QED
    BY <2>3, <2>4
<1>4. ASSUME NEW n \in Reconcilers, ReconcileIdentityCounts(n),
             OnlyReconcile(n), OnlyReconcile(n)'
      PROVE  Counted(i)'
  <2>0. /\ IdleRecords /\ IdleRecords'
        /\ \A m \in Reconcilers \ {n} :
             reconcile[m].pc = "idle" /\ reconcile'[m].pc = "idle"
    BY <1>4 DEF OnlyReconcile
  <2>1. ~Uncounted(i) /\ ~Uncounted(i)'
    BY <2>0 DEF IdleRecords, Uncounted
  <2> DEFINE Will(h) == /\ h.always
                        /\ \/ h.pc \in {"count", "write"} /\ i \in h.todo
                           \/ h.pc = "write" /\ i = h.current
  <2>2. /\ WillRecount(i) <=> Will(reconcile[n])
        /\ WillRecount(i)' <=> Will(reconcile'[n])
    BY <2>0 DEF WillRecount
  <2>3. ~\E r \in Recorders : RecordPublishedAd(r) \/ RecordCount(r)
    BY <2>0 DEF IdleRecords, RecordPublishedAd, RecordCount
  <2>4. ASSUME ~RefreshVisit(n) PROVE Tracked(i)' = Tracked(i)
    BY <1>0, <2>0, <2>3, <2>4, TrackedStays DEF RefreshVisit
  <2>5. ASSUME ~ReconcileWrite(n)
        PROVE  identity'[i].activeAdCount = identity[i].activeAdCount
    <3>1. \A m \in Reconcilers : ~ReconcileWrite(m)
      BY <2>0, <2>5 DEF ReconcileWrite
    <3>2. \A r \in Recorders : ~RecordCount(r)
      BY <2>3
    <3> QED
      BY <1>0, <3>1, <3>2, CounterMoves
  <2>6. CASE reconcile[n].pc = "idle"
    <3>1. ~Will(reconcile[n]) /\ ~RefreshVisit(n) /\ ~ReconcileWrite(n)
      BY <2>6 DEF RefreshVisit, ReconcileWrite
    <3>2. Tracked(i) = identity[i].activeAdCount
      BY <1>0, <2>1, <2>2, <3>1, ExactWhen
    <3> QED
      BY <2>1, <2>4, <2>5, <3>1, <3>2 DEF Counted
  <2>7. CASE RefreshVisit(n)
    <3>1. /\ reconcile[n].pc = "visit" /\ reconcile[n].always
          /\ reconcile[n].todo = {Owner[reconcile[n].ad]}
          /\ ~ReconcileWrite(n)
      BY <1>0, <2>7 DEF RefreshVisit, ReconcileWrite, ListingInv, Visits
    <3>2. /\ reconcile'[n].pc = "count" /\ reconcile'[n].always = reconcile[n].always
          /\ reconcile'[n].todo = reconcile[n].todo
      BY <1>0, <1>4, <2>7, <3>1, ReconcileRows
    <3>3. CASE Owner[reconcile[n].ad] = i
      BY <2>1, <2>2, <3>1, <3>2, <3>3 DEF Counted
    <3>4. CASE Owner[reconcile[n].ad] # i
      <4>1. Tracked(i)' = Tracked(i)
        BY <1>0, <2>3, <2>7, <3>4, TrackedStays, OneWriter
      <4>2. Tracked(i) = identity[i].activeAdCount
        BY <1>0, <2>1, <2>2, <3>1, ExactWhen
      <4> QED
        BY <2>1, <2>5, <3>1, <4>1, <4>2 DEF Counted
    <3> QED
      BY <3>3, <3>4
  <2>8. CASE reconcile'[n].pc = "write" /\ reconcile[n].pc = "count"
    <3>1. /\ ~RefreshVisit(n) /\ ~ReconcileWrite(n)
      BY <2>8 DEF RefreshVisit, ReconcileWrite
    <3>2. Will(reconcile[n]) => Will(reconcile'[n])
      <4>1. /\ reconcile'[n].always = reconcile[n].always
            /\ \E j \in reconcile[n].todo :
                 /\ reconcile'[n].current = j
                 /\ reconcile'[n].todo = reconcile[n].todo \ {j}
        BY <1>0, <1>4, <2>8, <3>1, ReconcileRows
      <4> QED
        BY <2>8, <4>1
    <3> HIDE DEF Will
    <3>3. Will(reconcile[n]) \/ Tracked(i) = identity[i].activeAdCount
      BY <1>0, <2>1, <2>2, ExactWhen
    <3> QED
      BY <2>1, <2>2, <2>4, <2>5, <3>1, <3>2, <3>3 DEF Counted
  <2>9. CASE ReconcileWrite(n)
    <3>1. /\ reconcile[n].pc = "write" /\ ~RefreshVisit(n)
          /\ reconcile[n].tracked = Tracked(reconcile[n].current)
      BY <2>9 DEF ReconcileWrite, RefreshVisit, CountInv, Recounts
    <3>2. \/ identity' = identity /\ ~reconcile[n].always
          \/ identity' = [identity EXCEPT ![reconcile[n].current].activeAdCount =
                                            reconcile[n].tracked]
      BY <2>9 DEF ReconcileWrite
    <3>3. CASE reconcile[n].current = i
      <4>1. \/ identity' = identity /\ ~reconcile[n].always
            \/ identity'[i].activeAdCount = Tracked(i)
        BY <1>0, <3>1, <3>2, <3>3 DEF IdentityRow
      <4>2. identity'[i].activeAdCount = Tracked(i)
        <5>1. CASE identity' = identity /\ ~reconcile[n].always
          BY <1>0, <2>1, <2>2, <5>1, ExactWhen
        <5> QED
          BY <4>1, <5>1
      <4> QED
        BY <2>1, <2>4, <3>1, <4>2 DEF Counted
    <3>4. CASE reconcile[n].current # i
      <4>1. identity'[i] = identity[i]
        BY <1>0, <3>2, <3>4
      <4>2. CASE Will(reconcile[n])
        <5>1. /\ reconcile'[n].pc = "count"
              /\ reconcile'[n].always = reconcile[n].always
              /\ reconcile'[n].todo = reconcile[n].todo
          BY <1>0, <1>4, <2>9, <3>1, <3>4, <4>2, ReconcileRows
        <5> QED
          BY <2>1, <2>2, <3>4, <4>2, <5>1 DEF Counted
      <4>3. CASE ~Will(reconcile[n])
        BY <1>0, <2>1, <2>2, <2>4, <3>1, <4>1, <4>3, ExactWhen DEF Counted
      <4> QED
        BY <4>2, <4>3
    <3> QED
      BY <3>3, <3>4
  <2> HIDE DEF Will
  <2> QED
    BY <1>0, <1>4, <2>6, <2>7, <2>8, <2>9, ReconcileRows
<1> QED
  BY <1>0, <1>1, <1>2, <1>3, <1>4, SerialSteps
     DEF OnlyClaim, OnlyEnqueue, OnlyExpire, AllIdle

\* The cap holds because a result publishes into the place its attempt kept.
LEMMA WithinCapStep ==
  ASSUME Counting, CountInv, [Next]_vars, NEW i \in Identities
  PROVE  (Tracked(i) <= MaxActiveAds)'
<1>0. /\ ListingInv /\ OneRuns /\ Tracked(i) <= MaxActiveAds
      /\ \A r \in Recorders : RoomToPublish(r)
  BY DEF CountInv, ListingInv, FollowInv, SerialInv
<1>1. Tracked(i) \in Nat /\ Tracked(i)' \in Nat /\ MaxActiveAds \in Nat
  BY TrackedCounts, PolicyAssumption
<1>2. ASSUME NEW r \in Recorders, RecordPublishedAd(r), RecordIdentity(r) = i
      PROVE  Tracked(i)' <= MaxActiveAds
  <2>1. Tracked(i) < MaxActiveAds
    BY <1>0, <1>2 DEF RecordPublishedAd, RoomToPublish
  <2>2. Tracked(i)' = Tracked(i) + 1
    BY <1>0, <1>2, TrackedGrows
  <2> QED
    BY <1>1, <2>1, <2>2
<1>3. ASSUME NEW n \in Reconcilers, RefreshVisit(n)
      PROVE  Tracked(i)' <= MaxActiveAds
  <2>1. Tracked(i)' <= Tracked(i)
    BY <1>0, <1>3, TrackedShrinks
  <2> QED
    BY <1>0, <1>1, <2>1
<1>4. ASSUME ~\E r \in Recorders : RecordPublishedAd(r) /\ RecordIdentity(r) = i,
             ~\E n \in Reconcilers : RefreshVisit(n)
      PROVE  Tracked(i)' <= MaxActiveAds
  BY <1>0, <1>4, TrackedStays
<1> QED
  BY <1>2, <1>3, <1>4 DEF Tracked

LEMMA SawRoomStep ==
  ASSUME Counting, CountInv, [Next]_vars, NEW c \in Claimers
  PROVE  SawRoom(c)'
<1>1. SerialInv /\ Undisturbed /\ SawRoom(c)
  BY DEF CountInv, ListingInv, FollowInv, Counting, InOrder
<1> QED
  BY <1>1, GatesSeen DEF SawRoom, AdPassesIdentityGates, IdentityGates, db

LEMMA RecountsStep ==
  ASSUME Counting, CountInv, [Next]_vars, NEW n \in Reconcilers
  PROVE  Recounts(n)'
<1>0. /\ SerialInv /\ TypeOK /\ Undisturbed /\ Recounts(n)
      /\ reconcile[n] \in ReconcileState
  BY DEF CountInv, ListingInv, FollowInv, SerialInv, ClaimInv, TypeOK, Counting,
         InOrder
<1> SUFFICES ASSUME reconcile'[n].pc = "write" PROVE Recounts(n)'
  BY DEF Recounts
<1>1. CASE UNCHANGED <<db, handlers>>
  BY <1>0, <1>1 DEF Recounts, Tracked, db, handlers
<1>2. CASE ReconcileIdentityCounts(n)
  <2>1. PICK i \in reconcile[n].todo :
          /\ reconcile'[n].current = i /\ reconcile'[n].tracked = Tracked(i)
          /\ UNCHANGED db
    BY <1>0, <1>2, ReconcileRows
  <2>2. i \in Identities
    BY <1>0, <2>1 DEF ReconcileState
  <2>3. Tracked(reconcile[n].current)' = Tracked(i)
    BY <2>1 DEF Tracked, db
  <2> QED
    BY <2>1, <2>2, <2>3 DEF Recounts
<1> QED
  BY <1>0, <1>1, <1>2, BusyAfter

LEMMA RoomToPublishStep ==
  ASSUME Counting, CountInv, [Next]_vars, NEW r \in Recorders
  PROVE  RoomToPublish(r)'
<1>0. /\ ListingInv /\ SerialInv /\ TypeOK /\ OneRuns /\ Undisturbed
      /\ RoomToPublish(r) /\ RoomForRunning /\ AtMostOneSubmitting
      /\ ~UnclaimedResults /\ ReportsOpen(r) /\ RowsHaveAds
      /\ attempt \in [Attempts -> AttemptRow]
      /\ record \in [Recorders -> RecordState] /\ record[r] \in RecordState
  BY DEF CountInv, ListingInv, FollowInv, SerialInv, ClaimInv, TypeOK, Counting,
         InOrder
<1> SUFFICES ASSUME record'[r].pc = "ad" PROVE RoomToPublish(r)'
  BY DEF RoomToPublish
<1>1. CASE UNCHANGED <<db, handlers>>
  BY <1>0, <1>1
     DEF RoomToPublish, Tracked, RecordIdentity, RecordAd, Submitting,
         IdentityOf, db, handlers
<1>2. CASE RecordResult(r)
  <2>1. RecordAttempt(r)
    BY <1>0, <1>2
       DEF RecordResult, RecordRead, RecordPublishedAd, RecordCount,
           RecordCadence, RecordFailedAd, RecordChallengeAd,
           RecordChallengeIdentity, NoRecord, RecordState
  <2>2. PICK a \in Attempts : /\ a = record[r].attempt /\ Submitting(a)
                              /\ record'[r].attempt = a
                              /\ record[r].outcome \in Outcome
    BY <1>0, <2>1 DEF RecordAttempt, ReportsOpen, RecordState, NoRecord
  <2>3. /\ attempt'[a].ad = attempt[a].ad
        /\ attempt'[a].status # "submitting"
        /\ \A b \in Attempts \ {a} : attempt'[b] = attempt[b]
        /\ ad' = ad
    BY <1>0, <2>1, <2>2 DEF RecordAttempt, AttemptRow, Outcome
  <2>4. RecordIdentity(r)' = IdentityOf(a)
    BY <2>2, <2>3 DEF RecordIdentity, RecordAd, IdentityOf
  <2>5. Tracked(RecordIdentity(r))' < MaxActiveAds
    BY <1>0, <2>2, <2>3, <2>4 DEF RoomForRunning, Tracked
  <2>6. ASSUME NEW b \in Attempts, Submitting(b)'
        PROVE  Owner[attempt'[b].ad] # IdentityOf(a)
    <3>1. b # a /\ Submitting(b) /\ attempt'[b] = attempt[b]
      BY <2>3, <2>6 DEF Submitting
    <3> QED
      BY <1>0, <2>2, <3>1
         DEF AtMostOneSubmitting, SameIdentity, Exists, Submitting, IdentityOf
  <2> QED
    BY <2>4, <2>5, <2>6 DEF RoomToPublish, IdentityOf
<1> QED
  BY <1>0, <1>1, <1>2, BusyAfter

\* An attempt starts when the exact count left room, and only its own result
\* takes the place.
LEMMA RoomForRunningStep ==
  ASSUME Counting, CountInv, [Next]_vars
  PROVE  RoomForRunning'
<1>0. /\ ListingInv /\ SerialInv /\ TypeOK /\ OneRuns /\ Undisturbed
      /\ RoomForRunning /\ RowsHaveAds
      /\ \A r \in Recorders : RoomToPublish(r)
      /\ \A c \in Claimers : SawRoom(c) /\ KnowsRows(c)
      /\ \A i \in Identities : Counted(i)
      /\ attempt \in [Attempts -> AttemptRow]
  BY DEF CountInv, ListingInv, FollowInv, SerialInv, ClaimInv, TypeOK, Counting,
         InOrder
<1> SUFFICES ASSUME NEW a \in Attempts, Submitting(a)'
             PROVE  (Tracked(IdentityOf(a)) < MaxActiveAds)'
  BY DEF RoomForRunning
<1>i. PICK i \in Identities : i = Owner[attempt'[a].ad]
  <2>1. Exists(a)' /\ SerialInv'
    BY <1>0, NextSerialInv DEF Submitting, Exists, Undisturbed
  <2>2. attempt'[a].ad \in Ads
    BY <2>1 DEF SerialInv, RowsHaveAds
  <2> QED
    BY <2>2, QueueAssumption
<1> SUFFICES Tracked(i)' < MaxActiveAds
  BY <1>i DEF IdentityOf, Tracked
<1>1. ASSUME NEW c \in Claimers, StartedBy(a, c)
      PROVE  Tracked(i)' < MaxActiveAds
  <2>1. claim[c].pc = "submit" /\ claim[c].current = a /\ claim'[c].pc = "submitAd"
    BY <1>1 DEF StartedBy
  <2>2. i = Owner[ClaimedAd(c)]
    BY <1>0, <1>1, <1>i, <2>1 DEF StartedBy, ClaimedAd, AttemptRow
  <2>3. OnlyClaim(c)
    BY <1>0, <2>1 DEF OneRuns
  <2>4. Tracked(i) = identity[i].activeAdCount
    BY <1>0, <2>3, ExactWhen, NobodyRecounts, NobodyPublishes DEF OnlyClaim
  <2>5. identity[i].activeAdCount < MaxActiveAds
    BY <1>0, <2>1, <2>2 DEF SawRoom, Allowed
  <2>6. Tracked(i)' = Tracked(i)
    BY <1>0, <2>3, TrackedStays
       DEF OnlyClaim, IdleRecords, IdleReconciles, RecordPublishedAd,
           RefreshVisit
  <2> QED
    BY <2>4, <2>5, <2>6
<1>2. ASSUME attempt'[a] = attempt[a] PROVE Tracked(i)' < MaxActiveAds
  <2>1. Submitting(a) /\ i = IdentityOf(a)
    BY <1>2, <1>i DEF Submitting, IdentityOf
  <2>2. Tracked(i) < MaxActiveAds
    BY <1>0, <2>1 DEF RoomForRunning
  <2>3. ASSUME NEW r \in Recorders, RecordPublishedAd(r) PROVE RecordIdentity(r) # i
    BY <1>0, <2>1, <2>3 DEF RecordPublishedAd, RoomToPublish
  <2>4. Tracked(i) \in Nat /\ Tracked(i)' \in Nat /\ MaxActiveAds \in Nat
    BY TrackedCounts, PolicyAssumption
  <2>5. Tracked(i)' <= Tracked(i)
    BY <1>0, <2>3, <2>4, TrackedStays, TrackedShrinks
  <2> QED
    BY <2>2, <2>4, <2>5
<1> QED
  BY <1>0, <1>1, <1>2, StartOrStay

LEMMA NextCountInv ==
  ASSUME Counting
  PROVE  CountInv /\ [Next]_vars => CountInv'
<1> SUFFICES ASSUME CountInv, [Next]_vars PROVE CountInv'
  OBVIOUS
<1>1. ListingInv'
  BY NextListingInv DEF CountInv
<1> QED
  BY <1>1, CountedStep, WithinCapStep, SawRoomStep, RecountsStep,
     RoomToPublishStep, RoomForRunningStep
     DEF CountInv

LEMMA CountInvariant ==
  ASSUME Counting
  PROVE  Spec => []CountInv
BY InitCountInv, NextCountInv, PTL DEF Spec

\* Between requests activeAdCount is the number of active published ads, so
\* the cap gate decides on the truth: results add to it, the two recounts
\* replace it, and every order of the three leaves it exact.
THEOREM CountsAreExact ==
  ASSUME Counting
  PROVE  Spec => []CountIsExact
<1>1. CountInv => CountIsExact
  <2> SUFFICES ASSUME CountInv, Quiet, NEW i \in Identities
               PROVE  identity[i].activeAdCount = Tracked(i)
    BY DEF CountIsExact
  <2>1. AllIdle
    BY QuietIsIdle DEF CountInv, ListingInv, FollowInv, Counting, InOrder,
                       Undisturbed
  <2> QED
    BY <2>1, ExactWhen, NobodyRecounts, NobodyPublishes DEF AllIdle, CountInv
<1> QED
  BY <1>1, CountInvariant, PTL

\* "Publisher queue never exceeds 50 active ads per identity" (SPEC.md:72):
\* the cap is checked when an attempt is claimed, and holds when its result
\* publishes the ad, however much later and whatever runs in between.
THEOREM CapIsKept ==
  ASSUME Counting
  PROVE  Spec => []PublishedWithinCap
<1>1. CountInv => PublishedWithinCap
  <2> SUFFICES ASSUME CountInv, NEW i \in Identities
               PROVE  Cardinality(Published(i)) <= MaxActiveAds
    BY DEF PublishedWithinCap
  <2>1. Published(i) = OnSaleOf(i)
    BY DEF CountInv, ListingInv, PublishedActive, Published, OnSaleOf, OnSale
  <2>2. Tracked(i) = Cardinality(OnSaleOf(i)) /\ Tracked(i) <= MaxActiveAds
    BY TrackedCounts DEF CountInv
  <2> QED
    BY <2>1, <2>2
<1> QED
  BY <1>1, CountInvariant, PTL
=============================================================================

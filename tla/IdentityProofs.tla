--------------------------- MODULE IdentityProofs ---------------------------
(***************************************************************************)
(* Theorems about human verification and the seller's consent, for every   *)
(* set of requests, wordings and tabs, every session lifetime and every    *)
(* bound, with and without lost requests.                                  *)
(***************************************************************************)
EXTENDS IdentityMC, FiniteSetTheorems, TLAPS

USE VerificationAssumption DEF ChallengeStates

-----------------------------------------------------------------------------
(***************************************************************************)
(* Type correctness.                                                       *)
(***************************************************************************)
Pcs == {"check", "session", "identity"}

LEMMA IdleType == Idle \in RequestState
BY DEF RequestState

LEMMA RequestUpdate ==
  ASSUME NEW q \in RequestState, q.pc # "idle", NEW pc \in Pcs
  PROVE  [q EXCEPT !.pc = pc] \in RequestState
BY DEF RequestState, Idle, Pcs

LEMMA BeginType ==
  ASSUME request \in [Requests -> RequestState],
         NEW r \in Requests, NEW op \in Ops, NEW pc \in Pcs,
         NEW s \in Sessions, NEW until \in Deadline,
         NEW review \in {"clear"} \cup ChallengeStates,
         Begin(r, op, pc, s, until, review)
  PROVE  request' \in [Requests -> RequestState]
<1>1. [op |-> op, pc |-> pc, session |-> s, until |-> until,
       review |-> review] \in RequestState
  BY DEF RequestState, Pcs
<1> QED
  BY <1>1 DEF Begin

LEMMA AdvanceType ==
  ASSUME request \in [Requests -> RequestState],
         NEW r \in Requests, request[r].pc # "idle", NEW pc \in Pcs,
         Advance(r, pc)
  PROVE  request' \in [Requests -> RequestState]
BY RequestUpdate DEF Advance

LEMMA AdvanceKeepsOp ==
  ASSUME request \in [Requests -> RequestState], NEW r \in Requests,
         NEW pc \in Pcs, Advance(r, pc)
  PROVE  request'[r].op = request[r].op
BY DEF Advance, RequestState, Idle

LEMMA FinishType ==
  ASSUME request \in [Requests -> RequestState], NEW r \in Requests, Finish(r)
  PROVE  request' \in [Requests -> RequestState]
BY IdleType DEF Finish

LEMMA SessionUpdate ==
  ASSUME NEW row \in SessionRow,
         NEW state \in {"completed", "challenge_detected", "expired"}
  PROVE  /\ [row EXCEPT !.state = state] \in SessionRow
         /\ [row EXCEPT !.state = state, !.humanConfirmed = TRUE] \in SessionRow
BY DEF SessionRow

LEMMA ChallengedType ==
  ASSUME identity \in IdentityRow, NEW review \in {"clear"} \cup ChallengeStates
  PROVE  Challenged(review) \in IdentityRow
BY DEF Challenged, IdentityRow

LEMMA VerifiedType ==
  ASSUME NEW until \in Deadline
  PROVE  Verified(until) \in IdentityRow
BY DEF Verified, IdentityRow

\* A request that is not idle has a session, an expiry and a review state.
LEMMA LocalsType ==
  ASSUME request \in [Requests -> RequestState], NEW r \in Requests,
         request[r].pc # "idle"
  PROVE  /\ request[r].session \in Sessions
         /\ request[r].until \in Deadline
         /\ request[r].review \in {"clear"} \cup ChallengeStates
BY DEF RequestState, Idle

LEMMA InitTypeOK == Init => TypeOK
<1> SUFFICES ASSUME Init PROVE TypeOK
  OBVIOUS
<1>1. identity \in IdentityRow
  BY DEF Init, IdentityRow, Deadline, Never
<1>2. session \in [Sessions -> SessionRow]
  BY DEF Init, SessionRow, NewSession, Deadline, Never
<1>3. request \in [Requests -> RequestState]
  BY IdleType DEF Init
<1> QED
  BY <1>1, <1>2, <1>3 DEF Init, TypeOK

LEMMA CompletionTypeOK ==
  ASSUME TypeOK, NEW op \in {"complete", "manual", "markVerified"},
         NEW r \in Requests
  PROVE  /\ CompletionSession(op, r) => TypeOK'
         /\ CompletionIdentity(op, r) => TypeOK'
<1> USE DEF TypeOK
<1>1. ASSUME CompletionSession(op, r) PROVE TypeOK'
  <2>1. request[r].session \in Sessions /\ request[r].pc # "idle"
    BY <1>1, LocalsType DEF CompletionSession, At
  <2>2. request' \in [Requests -> RequestState]
    BY <1>1, <2>1, AdvanceType DEF CompletionSession, Pcs
  <2>3. session' \in [Sessions -> SessionRow]
    BY <1>1, <2>1, SessionUpdate DEF CompletionSession
  <2> QED
    BY <1>1, <2>2, <2>3 DEF CompletionSession
<1>2. ASSUME CompletionIdentity(op, r) PROVE TypeOK'
  <2>1. identity' \in IdentityRow
    BY <1>2, LocalsType, VerifiedType DEF CompletionIdentity, At
  <2>2. request' \in [Requests -> RequestState]
    BY <1>2, FinishType DEF CompletionIdentity
  <2> QED
    BY <1>2, <2>1, <2>2 DEF CompletionIdentity
<1> QED
  BY <1>1, <1>2

LEMMA NextTypeOK ==
  ASSUME TypeOK, [Next]_vars
  PROVE  TypeOK'
<1> USE DEF TypeOK
<1>1. CASE UNCHANGED vars
  BY <1>1 DEF vars
<1>2. ASSUME NEW r \in Requests, StartVerificationSession(r) PROVE TypeOK'
  <2>1. ASSUME NEW s \in Sessions, NEW t \in {clock, clock + SessionLifetime},
               StartSession(r, s, t)
        PROVE  TypeOK'
    <3>1. request' \in [Requests -> RequestState]
      BY <2>1, BeginType DEF StartSession, Ops, Pcs, Deadline
    <3>2. session' \in [Sessions -> SessionRow]
      BY <2>1 DEF StartSession, NewSession, SessionRow, Deadline
    <3> QED
      BY <2>1, <3>1, <3>2 DEF StartSession
  <2>2. ASSUME StartIdentity(r) PROVE TypeOK'
    <3>1. identity' \in IdentityRow
      BY <2>2 DEF StartIdentity, IdentityRow
    <3>2. request' \in [Requests -> RequestState]
      BY <2>2, FinishType DEF StartIdentity
    <3> QED
      BY <2>2, <3>1, <3>2 DEF StartIdentity
  <2> QED
    BY <1>2, <2>1, <2>2 DEF StartVerificationSession
<1>3. ASSUME NEW r \in Requests, NEW op \in {"complete", "manual"},
             Completion(op, r)
      PROVE  TypeOK'
  <2>1. ASSUME NEW s \in Sessions, NEW until \in {Never, clock + 1},
               CompletionRead(op, r, s, until)
        PROVE  TypeOK'
    <3>1. request' \in [Requests -> RequestState]
      BY <2>1, <1>3, BeginType
         DEF CompletionRead, Ops, Pcs, Deadline, Never
    <3>2. challenged' \in BOOLEAN
      BY <2>1 DEF CompletionRead
    <3> QED
      BY <2>1, <3>1, <3>2 DEF CompletionRead
  <2> QED
    BY <1>3, <2>1, CompletionTypeOK DEF Completion
<1>4. ASSUME NEW r \in Requests, RecordVerificationChallenge(r) PROVE TypeOK'
  <2>1. ASSUME NEW s \in Sessions,
               NEW review \in ChallengeStates,
               ChallengeRead(r, s, review)
        PROVE  TypeOK'
    <3>1. request' \in [Requests -> RequestState]
      BY <2>1, BeginType DEF ChallengeRead, Ops, Pcs, Deadline, Never
    <3> QED
      BY <2>1, <3>1 DEF ChallengeRead
  <2>2. ASSUME ChallengeSession(r) PROVE TypeOK'
    <3>1. request[r].session \in Sessions /\ request[r].pc # "idle"
      BY <2>2, LocalsType DEF ChallengeSession, At
    <3>2. request' \in [Requests -> RequestState]
      BY <2>2, <3>1, AdvanceType DEF ChallengeSession, Pcs
    <3>3. session' \in [Sessions -> SessionRow]
      BY <2>2, <3>1, SessionUpdate DEF ChallengeSession, SetState
    <3> QED
      BY <2>2, <3>2, <3>3 DEF ChallengeSession
  <2>3. ASSUME ChallengeIdentity(r) PROVE TypeOK'
    <3>1. identity' \in IdentityRow
      BY <2>3, LocalsType, ChallengedType DEF ChallengeIdentity, At
    <3>2. request' \in [Requests -> RequestState]
      BY <2>3, FinishType DEF ChallengeIdentity
    <3> QED
      BY <2>3, <3>1, <3>2 DEF ChallengeIdentity
  <2> QED
    BY <1>4, <2>1, <2>2, <2>3 DEF RecordVerificationChallenge
<1>5. ASSUME NEW r \in Requests, ExpireVerificationSession(r) PROVE TypeOK'
  <2>1. ASSUME NEW s \in Sessions, ExpireRead(r, s) PROVE TypeOK'
    <3>1. request' \in [Requests -> RequestState]
      BY <2>1, BeginType DEF ExpireRead, Ops, Pcs, Deadline, Never
    <3> QED
      BY <2>1, <3>1 DEF ExpireRead
  <2>2. ASSUME ExpireLateCompletion(r) PROVE TypeOK'
    <3>1. request' \in [Requests -> RequestState]
      BY <2>2, AdvanceType, FinishType DEF ExpireLateCompletion, At, Pcs
    <3> QED
      BY <2>2, <3>1 DEF ExpireLateCompletion
  <2>3. ASSUME ExpireSession(r) PROVE TypeOK'
    <3>1. request[r].session \in Sessions /\ request[r].pc # "idle"
      BY <2>3, LocalsType DEF ExpireSession, At
    <3>2. request' \in [Requests -> RequestState]
      BY <2>3, <3>1, AdvanceType DEF ExpireSession, Pcs
    <3>3. session' \in [Sessions -> SessionRow]
      BY <2>3, <3>1, SessionUpdate DEF ExpireSession, SetState
    <3> QED
      BY <2>3, <3>2, <3>3 DEF ExpireSession
  <2>4. ASSUME ExpireIdentity(r) PROVE TypeOK'
    <3>1. identity' \in IdentityRow
      BY <2>4, ChallengedType DEF ExpireIdentity
    <3>2. request' \in [Requests -> RequestState]
      BY <2>4, FinishType DEF ExpireIdentity
    <3> QED
      BY <2>4, <3>1, <3>2 DEF ExpireIdentity
  <2> QED
    BY <1>5, <2>1, <2>2, <2>3, <2>4 DEF ExpireVerificationSession
<1>6. ASSUME NEW r \in Requests, MarkVerified(r) PROVE TypeOK'
  <2>1. ASSUME NEW s \in Sessions, NEW until \in {Never, clock + 1},
               MarkVerifiedSession(r, s, until)
        PROVE  TypeOK'
    <3>1. request' \in [Requests -> RequestState]
      BY <2>1, BeginType DEF MarkVerifiedSession, Ops, Pcs, Deadline, Never
    <3>2. session' \in [Sessions -> SessionRow]
      BY <2>1 DEF MarkVerifiedSession, NewSession, SessionRow, Deadline
    <3> QED
      BY <2>1, <3>1, <3>2 DEF MarkVerifiedSession
  <2> QED
    BY <1>6, <2>1, CompletionTypeOK DEF MarkVerified
<1>7. CASE MarkChallenge
  <2>1. identity' \in IdentityRow
    BY <1>7, ChallengedType DEF MarkChallenge
  <2> QED
    BY <1>7, <2>1 DEF MarkChallenge
<1>8. CASE Tick
  BY <1>8 DEF Tick
<1>9. CASE Crash
  <2>1. request' \in [Requests -> RequestState]
    BY <1>9, FinishType DEF Crash
  <2> QED
    BY <1>9, <2>1 DEF Crash
<1> QED
  BY <1>1, <1>2, <1>3, <1>4, <1>5, <1>6, <1>7, <1>8, <1>9
     DEF Next, CompleteVerificationSession, CompleteManualVerificationSession

\* Every row and every local of a request keeps its type: no date is compared
\* with anything but a date, and no state outside the enumerations is stored.
THEOREM TypeCorrect == Spec => []TypeOK
<1>1. Init => TypeOK
  BY InitTypeOK
<1>2. TypeOK /\ [Next]_vars => TypeOK'
  BY NextTypeOK
<1> QED
  BY <1>1, <1>2, PTL DEF Spec

-----------------------------------------------------------------------------
(***************************************************************************)
(* A human confirms first.  The identity is verified by the second         *)
(* statement of a completion, so the invariant must speak of the requests  *)
(* that are between the two: a session is confirmed already.               *)
(***************************************************************************)
Confirmed == \E s \in Sessions : session[s].humanConfirmed
Completions == {"complete", "manual", "markVerified"}

ConfirmedExists ==
  \A s \in Sessions : session[s].humanConfirmed => session[s].state # "absent"

VerifiedAfterConfirmed == identity.status = "verified" => Confirmed

CompletingAfterConfirmed ==
  \A r \in Requests :
    request[r].pc = "identity" /\ request[r].op \in Completions => Confirmed

HumanInv == TypeOK /\ ConfirmedExists /\ VerifiedAfterConfirmed
            /\ CompletingAfterConfirmed

\* Sessions are appended and no column humanConfirmed is cleared.
LEMMA ConfirmedStays ==
  ASSUME HumanInv, [Next]_vars
  PROVE  ConfirmedExists' /\ (Confirmed => Confirmed')
<1> USE DEF HumanInv, TypeOK, ConfirmedExists, Confirmed
<1>1. ASSUME session' = session PROVE ConfirmedExists' /\ (Confirmed => Confirmed')
  BY <1>1
<1>2. ASSUME NEW s \in Sessions, session[s].state = "absent",
             NEW row \in SessionRow, row.state # "absent",
             session' = [session EXCEPT ![s] = row]
      PROVE  ConfirmedExists' /\ (Confirmed => Confirmed')
  BY <1>2
<1>3. ASSUME NEW s \in Sessions,
             NEW state \in {"completed", "challenge_detected", "expired"},
             \/ session' = [session EXCEPT ![s].state = state]
             \/ session' = [session EXCEPT ![s].state = state,
                                           ![s].humanConfirmed = TRUE]
      PROVE  ConfirmedExists' /\ (Confirmed => Confirmed')
  BY <1>3 DEF SessionRow
<1>4. ASSUME NEW r \in Requests, StartVerificationSession(r)
      PROVE  ConfirmedExists' /\ (Confirmed => Confirmed')
  <2>1. ASSUME NEW s \in Sessions, NEW t \in {clock, clock + SessionLifetime},
               StartSession(r, s, t)
        PROVE  ConfirmedExists' /\ (Confirmed => Confirmed')
    BY <2>1, <1>2 DEF StartSession, NextSession, NewSession, SessionRow, Deadline
  <2> QED
    BY <1>4, <2>1, <1>1 DEF StartVerificationSession, StartIdentity
<1>5. ASSUME NEW r \in Requests, NEW op \in Completions, CompletionSession(op, r)
      PROVE  ConfirmedExists' /\ (Confirmed => Confirmed')
  BY <1>5, <1>3, LocalsType DEF CompletionSession, At
<1>6. ASSUME NEW r \in Requests, RecordVerificationChallenge(r)
      PROVE  ConfirmedExists' /\ (Confirmed => Confirmed')
  <2>1. ASSUME ChallengeSession(r)
        PROVE  ConfirmedExists' /\ (Confirmed => Confirmed')
    BY <2>1, <1>3, LocalsType DEF ChallengeSession, At, SetState
  <2> QED
    BY <1>6, <2>1, <1>1
       DEF RecordVerificationChallenge, ChallengeRead, ChallengeIdentity
<1>7. ASSUME NEW r \in Requests, ExpireVerificationSession(r)
      PROVE  ConfirmedExists' /\ (Confirmed => Confirmed')
  <2>1. ASSUME ExpireSession(r)
        PROVE  ConfirmedExists' /\ (Confirmed => Confirmed')
    BY <2>1, <1>3, LocalsType DEF ExpireSession, At, SetState
  <2> QED
    BY <1>7, <2>1, <1>1
       DEF ExpireVerificationSession, ExpireRead, ExpireLateCompletion,
           ExpireIdentity
<1>8. ASSUME NEW r \in Requests, MarkVerified(r)
      PROVE  ConfirmedExists' /\ (Confirmed => Confirmed')
  <2>1. ASSUME NEW s \in Sessions, NEW until \in {Never, clock + 1},
               MarkVerifiedSession(r, s, until)
        PROVE  ConfirmedExists' /\ (Confirmed => Confirmed')
    BY <2>1, <1>2
       DEF MarkVerifiedSession, NextSession, NewSession, SessionRow, Deadline
  <2> QED
    BY <1>8, <2>1, <1>1 DEF MarkVerified, CompletionIdentity
<1> QED
  BY <1>1, <1>4, <1>5, <1>6, <1>7, <1>8
     DEF Next, vars, CompleteVerificationSession,
         CompleteManualVerificationSession, Completion, CompletionRead,
         CompletionIdentity, Completions, MarkChallenge, Tick, Crash

\* A request enters the statement that verifies the identity only by the one
\* that confirms its session.
LEMMA CompletingInv ==
  ASSUME HumanInv, [Next]_vars
  PROVE  CompletingAfterConfirmed'
<1> USE DEF HumanInv
<1> SUFFICES ASSUME NEW q \in Requests, (request[q].pc = "identity")',
                    (request[q].op \in Completions)'
             PROVE  Confirmed'
  BY DEF CompletingAfterConfirmed
<1>1. ASSUME request'[q] = request[q] PROVE Confirmed'
  BY <1>1, ConfirmedStays DEF CompletingAfterConfirmed
<1>2. ASSUME NEW r \in Requests, NEW op \in Completions, CompletionSession(op, r)
      PROVE  Confirmed'
  <2>1. request[r].session \in Sessions
    BY <1>2, LocalsType DEF CompletionSession, At, TypeOK
  <2>2. session'[request[r].session].humanConfirmed
    BY <1>2, <2>1 DEF CompletionSession, TypeOK, SessionRow
  <2> QED
    BY <2>1, <2>2 DEF Confirmed
<1>3. ASSUME NEW r \in Requests, MarkVerified(r) PROVE Confirmed'
  <2>1. ASSUME NEW s \in Sessions, NEW until \in {Never, clock + 1},
               MarkVerifiedSession(r, s, until)
        PROVE  Confirmed'
    BY <2>1 DEF MarkVerifiedSession, NewSession, Confirmed, TypeOK
  <2>2. ASSUME CompletionIdentity("markVerified", r) PROVE Confirmed'
    BY <2>2, <1>1 DEF CompletionIdentity, Finish, Idle, TypeOK
  <2> QED
    BY <1>3, <2>1, <2>2 DEF MarkVerified
<1>4. ASSUME NEW r \in Requests,
             \/ StartVerificationSession(r) \/ RecordVerificationChallenge(r)
             \/ ExpireVerificationSession(r)
      PROVE  Confirmed'
  <2>1. q = r => request'[q].op \notin Completions \/ request'[q] = Idle
    <3>1. ASSUME NEW op \in {"start", "challenge", "expire"}, NEW pc,
                 NEW s, NEW until, NEW review,
                 Begin(r, op, pc, s, until, review)
          PROVE  request'[r].op \notin Completions
      BY <3>1 DEF Begin, Completions, TypeOK
    <3>2. ASSUME NEW op \in {"challenge", "expire"}, request[r].op = op,
                 NEW pc \in Pcs, Advance(r, pc)
          PROVE  request'[r].op \notin Completions
      BY <3>2, AdvanceKeepsOp DEF Completions, TypeOK
    <3>3. Finish(r) => request'[r] = Idle
      BY DEF Finish, TypeOK
    <3> QED
      BY <1>4, <3>1, <3>2, <3>3
         DEF StartVerificationSession, StartSession, StartIdentity,
             RecordVerificationChallenge, ChallengeRead, ChallengeSession,
             ChallengeIdentity, ExpireVerificationSession, ExpireRead,
             ExpireLateCompletion, ExpireSession, ExpireIdentity, At, Pcs
  <2>2. q # r => request'[q] = request[q]
    BY <1>4
       DEF StartVerificationSession, StartSession, StartIdentity,
           RecordVerificationChallenge, ChallengeRead, ChallengeSession,
           ChallengeIdentity, ExpireVerificationSession, ExpireRead,
           ExpireLateCompletion, ExpireSession, ExpireIdentity, Begin, Advance,
           Finish, TypeOK
  <2> QED
    BY <2>1, <2>2, <1>1 DEF Idle
<1>5. ASSUME NEW r \in Requests, NEW op \in {"complete", "manual"},
             Completion(op, r)
      PROVE  Confirmed'
  <2>1. CASE CompletionSession(op, r)
    BY <2>1, <1>2 DEF Completions
  <2>2. ASSUME NEW s \in Sessions, NEW until \in {Never, clock + 1},
               CompletionRead(op, r, s, until)
        PROVE  Confirmed'
    BY <2>2, <1>1 DEF CompletionRead, Begin, TypeOK
  <2>3. CASE CompletionIdentity(op, r)
    BY <2>3, <1>1 DEF CompletionIdentity, Finish, Idle, TypeOK
  <2> QED
    BY <1>5, <2>1, <2>2, <2>3 DEF Completion
<1>6. CASE MarkChallenge \/ Tick \/ UNCHANGED vars
  BY <1>6, <1>1 DEF MarkChallenge, Tick, vars
<1>7. CASE Crash
  BY <1>7, <1>1 DEF Crash, Finish, Idle, TypeOK
<1> QED
  BY <1>3, <1>4, <1>5, <1>6, <1>7
     DEF Next, CompleteVerificationSession, CompleteManualVerificationSession

LEMMA VerifiedInv ==
  ASSUME HumanInv, [Next]_vars
  PROVE  VerifiedAfterConfirmed'
<1> USE DEF HumanInv, VerifiedAfterConfirmed
<1>1. ASSUME (identity.status)' = identity.status PROVE VerifiedAfterConfirmed'
  BY <1>1, ConfirmedStays
<1>2. ASSUME NEW r \in Requests, NEW op \in Completions, CompletionIdentity(op, r)
      PROVE  VerifiedAfterConfirmed'
  BY <1>2, ConfirmedStays DEF CompletionIdentity, At, CompletingAfterConfirmed
<1>3. ASSUME NEW r \in Requests, StartIdentity(r) PROVE VerifiedAfterConfirmed'
  BY <1>3 DEF StartIdentity, TypeOK, IdentityRow
<1>4. ASSUME NEW review, identity' = Challenged(review)
      PROVE  (identity.status)' = identity.status
  BY <1>4 DEF Challenged, TypeOK, IdentityRow
<1> QED
  BY <1>1, <1>2, <1>3, <1>4
     DEF Next, vars, StartVerificationSession, StartSession,
         CompleteVerificationSession, CompleteManualVerificationSession,
         Completion, CompletionRead, CompletionSession, Completions,
         RecordVerificationChallenge, ChallengeRead, ChallengeSession,
         ChallengeIdentity, ExpireVerificationSession, ExpireRead,
         ExpireLateCompletion, ExpireSession, ExpireIdentity, MarkVerified,
         MarkVerifiedSession, MarkChallenge, Tick, Crash

\* Whatever overlaps, is lost or comes late, nothing is automated for an
\* identity no human ever confirmed (the completions write the session before
\* the identity, bazos-identity.service.ts).
THEOREM HumanFirst == Spec => []HumanBeforeAutomation
<1>1. Init => HumanInv
  <2> SUFFICES ASSUME Init PROVE HumanInv
    OBVIOUS
  <2>1. \A s \in Sessions : ~session[s].humanConfirmed
    BY DEF Init, NewSession
  <2>2. identity.status = "draft" /\ \A r \in Requests : request[r].pc = "idle"
    BY DEF Init, Idle
  <2> QED
    BY <2>1, <2>2, InitTypeOK
       DEF HumanInv, ConfirmedExists, VerifiedAfterConfirmed,
           CompletingAfterConfirmed
<1>2. HumanInv /\ [Next]_vars => HumanInv'
  BY NextTypeOK, ConfirmedStays, CompletingInv, VerifiedInv DEF HumanInv
<1>3. HumanInv => HumanBeforeAutomation
  BY DEF HumanInv, VerifiedAfterConfirmed, HumanBeforeAutomation, Automatable,
         Confirmed
<1> QED
  BY <1>1, <1>2, <1>3, PTL DEF Spec

-----------------------------------------------------------------------------
(***************************************************************************)
(* The columns of the identity row agree.  applyIdentityChallengeState     *)
(* keeps the status and takes the review state from the request: the       *)
(* invariant adds that a request that records a challenge carries one.     *)
(***************************************************************************)
ChallengeCarried ==
  \A r \in Requests :
    request[r].op = "challenge" => request[r].review \in ChallengeStates

ReviewInv == TypeOK /\ ChallengeCarried /\ ColumnsAgree

LEMMA AdvanceKeepsReview ==
  ASSUME request \in [Requests -> RequestState], NEW r \in Requests,
         NEW pc \in Pcs, Advance(r, pc)
  PROVE  request'[r].review = request[r].review
BY DEF Advance, RequestState, Idle

LEMMA CarriedStep ==
  ASSUME TypeOK, ChallengeCarried, [Next]_vars
  PROVE  ChallengeCarried'
<1> USE DEF TypeOK
<1>1. ASSUME NEW r \in Requests, NEW op \in Ops, NEW pc \in Pcs, NEW s, NEW until,
             NEW review, op = "challenge" => review \in ChallengeStates,
             Begin(r, op, pc, s, until, review)
      PROVE  ChallengeCarried'
  BY <1>1 DEF Begin, ChallengeCarried
<1>2. ASSUME NEW r \in Requests, NEW pc \in Pcs, Advance(r, pc)
      PROVE  ChallengeCarried'
  <2>1. /\ request'[r].op = request[r].op
        /\ request'[r].review = request[r].review
    BY <1>2, AdvanceKeepsOp, AdvanceKeepsReview
  <2>2. \A q \in Requests : q # r => request'[q] = request[q]
    BY <1>2 DEF Advance
  <2> QED
    BY <2>1, <2>2 DEF ChallengeCarried
<1>3. ASSUME NEW r \in Requests, Finish(r) PROVE ChallengeCarried'
  BY <1>3 DEF Finish, Idle, ChallengeCarried
<1>4. ASSUME request' = request PROVE ChallengeCarried'
  BY <1>4 DEF ChallengeCarried
<1>5. ASSUME NEW r \in Requests,
             \/ StartVerificationSession(r) \/ ExpireVerificationSession(r)
             \/ MarkVerified(r)
      PROVE  ChallengeCarried'
  BY <1>5, <1>1, <1>2, <1>3
     DEF StartVerificationSession, StartSession, StartIdentity,
         ExpireVerificationSession, ExpireRead, ExpireLateCompletion,
         ExpireSession, ExpireIdentity, MarkVerified, MarkVerifiedSession,
         CompletionIdentity, Ops, Pcs
<1>6. ASSUME NEW r \in Requests, NEW op \in {"complete", "manual"},
             Completion(op, r)
      PROVE  ChallengeCarried'
  BY <1>6, <1>1, <1>2, <1>3
     DEF Completion, CompletionRead, CompletionSession, CompletionIdentity,
         Ops, Pcs
<1>7. ASSUME NEW r \in Requests, RecordVerificationChallenge(r)
      PROVE  ChallengeCarried'
  BY <1>7, <1>1, <1>2, <1>3
     DEF RecordVerificationChallenge, ChallengeRead, ChallengeSession,
         ChallengeIdentity, Ops, Pcs
<1>8. CASE MarkChallenge \/ Tick \/ Crash \/ UNCHANGED vars
  BY <1>8, <1>3, <1>4 DEF MarkChallenge, Tick, Crash, vars
<1> QED
  BY <1>5, <1>6, <1>7, <1>8
     DEF Next, CompleteVerificationSession, CompleteManualVerificationSession

LEMMA ReviewStepInv ==
  ASSUME ReviewInv, [Next]_vars
  PROVE  ColumnsAgree'
<1> USE DEF ReviewInv, TypeOK
<1>1. ASSUME identity' = identity PROVE ColumnsAgree'
  BY <1>1 DEF ColumnsAgree
<1>2. ASSUME NEW until, identity' = Verified(until) PROVE ColumnsAgree'
  BY <1>2 DEF Verified, ColumnsAgree
<1>3. ASSUME NEW review \in ChallengeStates,
             identity' = Challenged(review)
      PROVE  ColumnsAgree'
  BY <1>3 DEF Challenged, IdentityRow, ColumnsAgree
<1>4. ASSUME NEW r \in Requests, StartIdentity(r) PROVE ColumnsAgree'
  BY <1>4 DEF StartIdentity, IdentityRow, ColumnsAgree
<1>5. ASSUME NEW r \in Requests, ChallengeIdentity(r) PROVE ColumnsAgree'
  BY <1>5, <1>3 DEF ChallengeIdentity, At, ChallengeCarried
<1> QED
  BY <1>1, <1>2, <1>3, <1>4, <1>5
     DEF Next, vars, StartVerificationSession, StartSession,
         CompleteVerificationSession, CompleteManualVerificationSession,
         Completion, CompletionRead, CompletionSession, CompletionIdentity,
         RecordVerificationChallenge, ChallengeRead, ChallengeSession,
         ExpireVerificationSession, ExpireRead, ExpireLateCompletion,
         ExpireSession, ExpireIdentity, MarkVerified, MarkVerifiedSession,
         MarkChallenge, Tick, Crash

\* In whatever order completions, challenges and expiries write the identity
\* and whatever requests are lost, its three columns agree: gates 1, 2 and 4
\* never judge the same row differently.
THEOREM IdentityColumnsAgree == Spec => []ColumnsAgree
<1>1. Init => ReviewInv
  BY InitTypeOK
     DEF Init, ReviewInv, ChallengeCarried, ColumnsAgree, Idle
<1>2. ReviewInv /\ [Next]_vars => ReviewInv'
  BY NextTypeOK, CarriedStep, ReviewStepInv DEF ReviewInv
<1>3. ReviewInv => ColumnsAgree
  BY DEF ReviewInv
<1> QED
  BY <1>1, <1>2, <1>3, PTL DEF Spec

HIDE VerificationAssumption DEF ChallengeStates
USE ConsentAssumption

-----------------------------------------------------------------------------
(***************************************************************************)
(* Type correctness.                                                       *)
(***************************************************************************)
LEMMA StatusType == Status \in Shown
BY DEF Status, Shown

LEMMA RevokeActiveType ==
  ASSUME consent \in [Rows -> ConsentRow], RevokeActive
  PROVE  consent' \in [Rows -> ConsentRow]
BY DEF RevokeActive, ConsentRow

LEMMA ConsentInitTypeOK == ConsentInit => ConsentTypeOK
<1> SUFFICES ASSUME ConsentInit PROVE ConsentTypeOK
  OBVIOUS
<1>1. consent \in [Rows -> ConsentRow]
  BY DEF ConsentInit, ConsentRow
<1>2. page \in [Pages -> [shows: Shown, version: Versions \cup {NoVersion}]]
  BY DEF ConsentInit, Shown
<1> QED
  BY <1>1, <1>2 DEF ConsentInit, ConsentTypeOK

LEMMA ConsentNextTypeOK ==
  ASSUME ConsentTypeOK, [ConsentNext]_consentVars
  PROVE  ConsentTypeOK'
<1> USE DEF ConsentTypeOK
<1>1. ASSUME NEW p \in Pages, OpenPage(p) PROVE ConsentTypeOK'
  BY <1>1 DEF OpenPage, Shown
<1>2. ASSUME NEW p \in Pages, Refresh(p) PROVE ConsentTypeOK'
  BY <1>2, StatusType DEF Refresh
<1>3. ASSUME NEW p \in Pages, Revoke(p) PROVE ConsentTypeOK'
  BY <1>3, RevokeActiveType DEF Revoke
<1>4. ASSUME NEW p \in Pages, NEW r \in Grants, Grant(p, r)
      PROVE  ConsentTypeOK'
  BY <1>4, RevokeActiveType DEF Grant
<1>5. ASSUME NEW r \in Grants, Insert(r) PROVE ConsentTypeOK'
  <2>1. consent' \in [Rows -> ConsentRow]
    BY <1>5 DEF Insert, ConsentRow
  <2> QED
    BY <1>5, <2>1 DEF Insert
<1>6. CASE Deploy
  BY <1>6 DEF Deploy
<1>7. CASE LoseGrant
  BY <1>7 DEF LoseGrant
<1>8. CASE UNCHANGED consentVars
  BY <1>8 DEF consentVars
<1> QED
  BY <1>1, <1>2, <1>3, <1>4, <1>5, <1>6, <1>7, <1>8 DEF ConsentNext

\* Rows, tabs and requests keep their types: a tab shows one of the four
\* states, a row carries a wording that exists.
THEOREM ConsentTypeCorrect == ConsentSpec => []ConsentTypeOK
<1>1. ConsentInit => ConsentTypeOK
  BY ConsentInitTypeOK
<1>2. ConsentTypeOK /\ [ConsentNext]_consentVars => ConsentTypeOK'
  BY ConsentNextTypeOK
<1> QED
  BY <1>1, <1>2, PTL DEF ConsentSpec

-----------------------------------------------------------------------------
(***************************************************************************)
(* The terms were accepted.  A deployment may come between a tab's load,   *)
(* the grant and its insert, so the invariant follows the wording: whatever*)
(* a request carries and whatever a row ever stored was accepted.          *)
(***************************************************************************)
RequestsAccepted == \A r \in Grants : granting[r] \in accepted \cup {NoVersion}

RowsAccepted ==
  \A n \in Rows : consent[n].state # "absent" => consent[n].version \in accepted

TermsInv == ConsentTypeOK /\ RequestsAccepted /\ RowsAccepted

LEMMA RevokedKeepVersion ==
  ASSUME ConsentTypeOK, RevokeActive, NEW n \in Rows
  PROVE  /\ consent'[n].version = consent[n].version
         /\ consent'[n].state # "absent" <=> consent[n].state # "absent"
BY DEF ConsentTypeOK, RevokeActive, Active, ConsentRow

LEMMA TermsStep ==
  ASSUME TermsInv, [ConsentNext]_consentVars
  PROVE  RequestsAccepted' /\ RowsAccepted'
<1> USE DEF TermsInv, RequestsAccepted, RowsAccepted
<1>1. ASSUME NEW p \in Pages, OpenPage(p) \/ Refresh(p)
      PROVE  RequestsAccepted' /\ RowsAccepted'
  BY <1>1 DEF OpenPage, Refresh
<1>2. ASSUME NEW p \in Pages, Revoke(p)
      PROVE  RequestsAccepted' /\ RowsAccepted'
  BY <1>2, RevokedKeepVersion DEF Revoke
<1>3. ASSUME NEW p \in Pages, NEW r \in Grants, Grant(p, r)
      PROVE  RequestsAccepted' /\ RowsAccepted'
  <2>1. accepted' = accepted \cup {documentVersion}
    BY <1>3 DEF Grant
  <2>2. RequestsAccepted'
    BY <1>3, <2>1 DEF Grant, ConsentTypeOK
  <2>3. RowsAccepted'
    BY <1>3, <2>1, RevokedKeepVersion DEF Grant
  <2> QED
    BY <2>2, <2>3
<1>4. ASSUME NEW r \in Grants, Insert(r)
      PROVE  RequestsAccepted' /\ RowsAccepted'
  <2>1. RequestsAccepted'
    BY <1>4 DEF Insert, ConsentTypeOK
  <2>2. RowsAccepted'
    BY <1>4 DEF Insert, ConsentTypeOK
  <2> QED
    BY <2>1, <2>2
<1>5. CASE Deploy \/ UNCHANGED consentVars
  BY <1>5 DEF Deploy, consentVars
<1>6. CASE LoseGrant
  BY <1>6 DEF LoseGrant, ConsentTypeOK
<1> QED
  BY <1>1, <1>2, <1>3, <1>4, <1>5, <1>6 DEF ConsentNext

\* Gate 0 opens only under a wording the seller accepted, whatever is
\* deployed, overlaps, is lost or stays open in a tab: grant refuses a wording
\* other than the current one and inserts the one it checked.
THEOREM TermsAccepted == ConsentSpec => []TermsWereAccepted
<1>1. ConsentInit => TermsInv
  BY ConsentInitTypeOK DEF ConsentInit, TermsInv, RequestsAccepted, RowsAccepted
<1>2. TermsInv /\ [ConsentNext]_consentVars => TermsInv'
  BY ConsentNextTypeOK, TermsStep DEF TermsInv
<1>3. TermsInv => TermsWereAccepted
  BY DEF TermsInv, RowsAccepted, TermsWereAccepted, ConsentGate, Active
<1> QED
  BY <1>1, <1>2, <1>3, PTL DEF ConsentSpec

-----------------------------------------------------------------------------
\* Under every interleaving a row that exists is only ever stamped revoked:
\* inserts go to a new row and nothing else writes one.
THEOREM HistoryIsKept == ConsentSpec => HistoryKept
<1> DEFINE Kept == \A n \in Rows : consent[n].state # "absent" =>
                     \/ consent'[n] = consent[n]
                     \/ consent'[n] = [consent[n] EXCEPT !.state = "revoked"]
<1>1. ConsentTypeOK /\ [ConsentNext]_consentVars => Kept
  <2> SUFFICES ASSUME ConsentTypeOK, [ConsentNext]_consentVars PROVE Kept
    OBVIOUS
  <2>1. RevokeActive => Kept
    BY DEF RevokeActive, ConsentTypeOK
  <2>2. ASSUME NEW r \in Grants, Insert(r) PROVE Kept
    BY <2>2 DEF Insert, NextRow, ConsentTypeOK
  <2>3. consent' = consent => Kept
    OBVIOUS
  <2> QED
    BY <2>1, <2>2, <2>3
       DEF ConsentNext, consentVars, OpenPage, Refresh, Revoke, Grant, Deploy, LoseGrant
<1>2. ConsentTypeOK /\ [ConsentNext]_consentVars => [Kept]_consentVars
  BY <1>1
<1> QED
  BY <1>2, ConsentTypeCorrect, PTL DEF ConsentSpec, HistoryKept

-----------------------------------------------------------------------------
(***************************************************************************)
(* What holds until requests overlap, see IdentityMC.  Only finitely many  *)
(* requests are ever served at once, so their number tells whether one is. *)
(***************************************************************************)
LEMMA FiniteWithOneMore ==
  ASSUME NEW S, IsFiniteSet(S), NEW x, NEW T, T \subseteq S \cup {x}
  PROVE  IsFiniteSet(T)
<1>1. IsFiniteSet(S \cup {x})
  BY FS_AddElement
<1> QED
  BY <1>1, FS_Subset

LEMMA PositiveIfNotEmpty ==
  ASSUME NEW S, IsFiniteSet(S), ~(Cardinality(S) > 0)
  PROVE  S = {}
BY FS_EmptySet, FS_CardinalityType

LEMMA IdentityStep ==
  [IdentityNext]_IdentityVars =>
    [Next]_vars /\ [ConsentNext]_consentVars /\ overlapped \subseteq overlapped'
BY DEF IdentityNext, IdentityVars

\* Withdrawal: with no grant in flight nothing can become active again.
InFlight == {r \in Grants : granting[r] # NoVersion}

Withdrawn == withdrawn => Active = {} /\ InFlight = {}

WithdrawalInv ==
  /\ ConsentTypeOK
  /\ IsFiniteSet(InFlight)
  /\ "revocation" \notin overlapped => Withdrawn

LEMMA InFlightStep ==
  ASSUME ConsentTypeOK, IsFiniteSet(InFlight), [ConsentNext]_consentVars
  PROVE  IsFiniteSet(InFlight')
<1>1. ASSUME NEW r \in Grants, \A q \in Grants \ {r} : granting'[q] = granting[q]
      PROVE  IsFiniteSet(InFlight')
  <2>1. InFlight' \subseteq InFlight \cup {r}
    BY <1>1 DEF InFlight
  <2> QED
    BY <2>1, FiniteWithOneMore
<1>2. ASSUME granting' = granting PROVE IsFiniteSet(InFlight')
  BY <1>2 DEF InFlight
<1> QED
  BY <1>1, <1>2
     DEF ConsentNext, consentVars, ConsentTypeOK, OpenPage, Refresh, Revoke,
         Grant, Insert, Deploy, LoseGrant

LEMMA NothingActiveLeft ==
  ASSUME ConsentTypeOK, RevokeActive
  PROVE  Active' = {}
BY DEF ConsentTypeOK, RevokeActive, Active, ConsentRow

LEMMA WithdrawnStep ==
  ASSUME WithdrawalInv, [IdentityNext]_IdentityVars,
         "revocation" \notin overlapped'
  PROVE  Withdrawn'
<1>0. /\ ConsentTypeOK /\ IsFiniteSet(InFlight)
      /\ [ConsentNext]_consentVars /\ Withdrawn
  BY IdentityStep DEF WithdrawalInv
<1>1. ASSUME NEW p \in Pages, OpenPage(p) \/ Refresh(p) PROVE Withdrawn'
  BY <1>0, <1>1 DEF OpenPage, Refresh, Withdrawn, Active, InFlight
<1>2. ASSUME NEW p \in Pages, Revoke(p) PROVE Withdrawn'
  <2>1. Active' = {}
    BY <1>0, <1>2, NothingActiveLeft DEF Revoke
  <2>2. ASSUME ~withdrawn PROVE ~(Granting > 0)
    <3>1. consent' # consent \/ withdrawn' # withdrawn
      BY <1>2, <2>2 DEF Revoke
    <3>2. IdentityNext
      BY <3>1 DEF IdentityVars, consentVars
    <3>3. Overlap \subseteq overlapped'
      BY <3>2 DEF IdentityNext
    <3> QED
      BY <3>3, <1>2, <2>2 DEF Overlap, Revoke
  <2>3. InFlight = {}
    <3>1. CASE withdrawn
      BY <3>1, <1>0 DEF Withdrawn
    <3>2. CASE ~withdrawn
      BY <3>2, <2>2, <1>0, PositiveIfNotEmpty DEF Granting, InFlight
    <3> QED
      BY <3>1, <3>2
  <2> QED
    BY <1>2, <2>1, <2>3 DEF Revoke, Withdrawn, InFlight
<1>3. ASSUME NEW p \in Pages, NEW r \in Grants, Grant(p, r) PROVE Withdrawn'
  BY <1>3 DEF Grant, Withdrawn
<1>4. ASSUME NEW r \in Grants, Insert(r) PROVE Withdrawn'
  BY <1>0, <1>4 DEF Insert, Withdrawn, InFlight
<1>5. CASE Deploy \/ UNCHANGED consentVars
  BY <1>0, <1>5 DEF Deploy, consentVars, Withdrawn, Active, InFlight
<1>6. CASE LoseGrant
  BY <1>0, <1>6 DEF LoseGrant, Withdrawn, Active, InFlight
<1> QED
  BY <1>0, <1>1, <1>2, <1>3, <1>4, <1>5, <1>6 DEF ConsentNext

\* A revocation that no grant overlapped keeps gate 0 closed until the seller
\* grants again, whatever a double click left active: it stamps every row, and
\* a row is only inserted by a grant that began afterwards.
THEOREM WithdrawalStays == IdentitySpec => []WithdrawalHoldsAlone
<1>1. IdentityInit => WithdrawalInv
  <2> SUFFICES ASSUME IdentityInit PROVE WithdrawalInv
    OBVIOUS
  <2>1. ConsentTypeOK
    BY ConsentInitTypeOK DEF IdentityInit
  <2>2. InFlight = {}
    BY DEF IdentityInit, ConsentInit, InFlight
  <2> QED
    BY <2>1, <2>2, FS_EmptySet
       DEF WithdrawalInv, Withdrawn, IdentityInit, ConsentInit
<1>2. WithdrawalInv /\ [IdentityNext]_IdentityVars => WithdrawalInv'
  BY IdentityStep, ConsentNextTypeOK, InFlightStep, WithdrawnStep
     DEF WithdrawalInv
<1>3. WithdrawalInv => WithdrawalHoldsAlone
  BY DEF WithdrawalInv, Withdrawn, WithdrawalHoldsAlone, WithdrawalHolds,
         ConsentGate
<1> QED
  BY <1>1, <1>2, <1>3, PTL DEF IdentitySpec

-----------------------------------------------------------------------------
(***************************************************************************)
(* A challenge stops the identity.  Until requests overlap a recorded      *)
(* challenge finds no completion between its two statements, which would   *)
(* write the identity over it.                                             *)
(***************************************************************************)
Served == {r \in Requests : request[r].pc # "idle"}

Completing(r) ==
  request[r].op \in Completions /\ request[r].pc \in {"session", "identity"}

Stopped ==
  challenged => /\ identity.review # "clear"
                /\ \A r \in Requests : ~Completing(r)

StopInv ==
  /\ TypeOK /\ ChallengeCarried
  /\ IsFiniteSet(Served)
  /\ "verification" \notin overlapped => Running <= 1 /\ Stopped

LEMMA ServedStep ==
  ASSUME TypeOK, IsFiniteSet(Served), [Next]_vars
  PROVE  IsFiniteSet(Served')
<1>1. ASSUME NEW r \in Requests, \A q \in Requests \ {r} : request'[q] = request[q]
      PROVE  IsFiniteSet(Served')
  <2>1. Served' \subseteq Served \cup {r}
    BY <1>1 DEF Served
  <2> QED
    BY <2>1, FiniteWithOneMore
<1>2. ASSUME request' = request PROVE IsFiniteSet(Served')
  BY <1>2 DEF Served
<1>3. \/ request' = request
      \/ \E r \in Requests : \A q \in Requests \ {r} : request'[q] = request[q]
  <2>1. ASSUME NEW r \in Requests,
               \/ \E row : request' = [request EXCEPT ![r] = row]
               \/ \E pc : Advance(r, pc)
               \/ Finish(r)
        PROVE  \A q \in Requests \ {r} : request'[q] = request[q]
    BY <2>1 DEF TypeOK, Advance, Finish
  <2>2. ASSUME NEW r \in Requests,
               \/ StartVerificationSession(r) \/ RecordVerificationChallenge(r)
               \/ ExpireVerificationSession(r)
        PROVE  \A q \in Requests \ {r} : request'[q] = request[q]
    <3>1. CASE StartVerificationSession(r)
      BY <2>1, <3>1 DEF StartVerificationSession, StartSession, StartIdentity,
         Begin
    <3>2. CASE RecordVerificationChallenge(r)
      BY <2>1, <3>2 DEF RecordVerificationChallenge, ChallengeRead,
         ChallengeSession, ChallengeIdentity, Begin
    <3>3. CASE ExpireVerificationSession(r)
      BY <2>1, <3>3 DEF ExpireVerificationSession, ExpireRead,
         ExpireLateCompletion, ExpireSession, ExpireIdentity, Begin
    <3> QED
      BY <2>2, <3>1, <3>2, <3>3
  <2>3. ASSUME NEW r \in Requests,
               \/ CompleteVerificationSession(r)
               \/ CompleteManualVerificationSession(r) \/ MarkVerified(r)
        PROVE  \A q \in Requests \ {r} : request'[q] = request[q]
    BY <2>1, <2>3 DEF CompleteVerificationSession,
       CompleteManualVerificationSession, Completion, CompletionRead,
       CompletionSession, CompletionIdentity, MarkVerified,
       MarkVerifiedSession, Begin
  <2>4. ASSUME Crash
        PROVE  \E r \in Requests :
                 \A q \in Requests \ {r} : request'[q] = request[q]
    BY <2>1, <2>4 DEF Crash
  <2>5. ASSUME MarkChallenge \/ Tick PROVE request' = request
    BY <2>5 DEF MarkChallenge, Tick
  <2> QED
    BY <2>2, <2>3, <2>4, <2>5 DEF Next, vars
<1> QED
  BY <1>1, <1>2, <1>3

\* A request that is alone is the only one.
LEMMA NobodyElse ==
  ASSUME IsFiniteSet(Served), Running <= 1, NEW r \in Requests,
         request[r].pc # "idle", NEW q \in Requests, q # r
  PROVE  request[q].pc = "idle"
<1>1. Cardinality(Served) \in Nat /\ Cardinality(Served) <= 1 /\ r \in Served
  BY FS_CardinalityType DEF Running, Served
<1>2. Cardinality(Served) # 0
  BY <1>1, FS_EmptySet
<1>3. PICK x : Served = {x}
  BY <1>1, <1>2, FS_Singleton
<1> QED
  BY <1>1, <1>3 DEF Served

\* What a step does to the other requests: nothing.
LEMMA StoppedByIdentity ==
  ASSUME TypeOK, IsFiniteSet(Served), Running <= 1, NEW r \in Requests,
         request[r].pc # "idle", Finish(r), identity'.review # "clear"
  PROVE  Stopped'
<1>1. \A q \in Requests : request'[q].pc = "idle"
  BY NobodyElse DEF Finish, TypeOK, Idle
<1> QED
  BY <1>1 DEF Stopped, Completing

LEMMA StoppedByRequest ==
  ASSUME TypeOK, Stopped, NEW r \in Requests,
         \A q \in Requests \ {r} : request'[q] = request[q],
         ~Completing(r)', challenged' => challenged,
         identity'.review = identity.review
  PROVE  Stopped'
BY DEF Stopped, Completing

LEMMA BeginsAs ==
  ASSUME TypeOK, NEW r \in Requests, NEW op, NEW pc, NEW s, NEW until,
         NEW review, Begin(r, op, pc, s, until, review)
  PROVE  /\ request'[r].op = op /\ request'[r].pc = pc
         /\ \A q \in Requests \ {r} : request'[q] = request[q]
BY DEF TypeOK, Begin

LEMMA AdvancesAs ==
  ASSUME TypeOK, NEW r \in Requests, NEW pc \in Pcs, Advance(r, pc)
  PROVE  /\ request'[r].op = request[r].op
         /\ \A q \in Requests \ {r} : request'[q] = request[q]
BY AdvanceKeepsOp DEF TypeOK, Advance

LEMMA FinishesAs ==
  ASSUME TypeOK, NEW r \in Requests, Finish(r)
  PROVE  /\ request'[r] = Idle
         /\ \A q \in Requests \ {r} : request'[q] = request[q]
BY DEF TypeOK, Finish

LEMMA ChallengedReview ==
  ASSUME identity \in IdentityRow, NEW review
  PROVE  Challenged(review).review = review
BY DEF Challenged, IdentityRow

\* One step of a request that is alone.
LEMMA StoppedStep ==
  ASSUME TypeOK, ChallengeCarried, IsFiniteSet(Served), Running <= 1, Stopped,
         [Next]_vars, MarkChallenge => Running = 0
  PROVE  Stopped'
<1> USE VerificationAssumption
<1>i. Idle.pc = "idle" /\ identity \in IdentityRow
  BY DEF Idle, TypeOK
<1>1. ASSUME NEW r \in Requests, StartVerificationSession(r) PROVE Stopped'
  <2>1. ASSUME NEW s \in Sessions, NEW t \in {clock, clock + SessionLifetime},
               StartSession(r, s, t)
        PROVE  Stopped'
    <3>1. /\ request'[r].op = "start"
          /\ \A q \in Requests \ {r} : request'[q] = request[q]
      BY <2>1, BeginsAs DEF StartSession
    <3> QED
      BY <2>1, <3>1, StoppedByRequest DEF StartSession, Completing, Completions
  <2>2. ASSUME StartIdentity(r) PROVE Stopped'
    <3>1. identity'.review = "verification_required"
      BY <2>2, <1>i DEF StartIdentity, IdentityRow
    <3> QED
      BY <2>2, <3>1, StoppedByIdentity DEF StartIdentity, At
  <2> QED
    BY <1>1, <2>1, <2>2 DEF StartVerificationSession
<1>2. ASSUME NEW r \in Requests, NEW op \in {"complete", "manual"},
             Completion(op, r)
      PROVE  Stopped'
  <2>1. ASSUME NEW s \in Sessions, NEW until \in {Never, clock + 1},
               CompletionRead(op, r, s, until)
        PROVE  Stopped'
    <3>1. CASE Overdue(s)
      <4>1. /\ request'[r].op = "expire"
            /\ \A q \in Requests \ {r} : request'[q] = request[q]
        BY <2>1, <3>1, BeginsAs DEF CompletionRead
      <4> QED
        BY <2>1, <4>1, StoppedByRequest
           DEF CompletionRead, Completing, Completions
    <3>2. CASE ~Overdue(s)
      BY <2>1, <3>2 DEF CompletionRead, Stopped
    <3> QED
      BY <3>1, <3>2
  <2>2. ASSUME CompletionSession(op, r) PROVE Stopped'
    <3>1. Completing(r)
      BY <2>2 DEF CompletionSession, At, Completing, Completions
    <3> QED
      BY <2>2, <3>1 DEF CompletionSession, Stopped
  <2>3. ASSUME CompletionIdentity(op, r) PROVE Stopped'
    <3>1. Completing(r)
      BY <2>3 DEF CompletionIdentity, At, Completing, Completions
    <3> QED
      BY <2>3, <3>1 DEF CompletionIdentity, Stopped
  <2> QED
    BY <1>2, <2>1, <2>2, <2>3 DEF Completion
<1>3. ASSUME NEW r \in Requests, RecordVerificationChallenge(r) PROVE Stopped'
  <2>1. ASSUME NEW s \in Sessions,
               NEW review \in ChallengeStates,
               ChallengeRead(r, s, review)
        PROVE  Stopped'
    <3>1. /\ request'[r].op = "challenge"
          /\ \A q \in Requests \ {r} : request'[q] = request[q]
      BY <2>1, BeginsAs DEF ChallengeRead
    <3> QED
      BY <2>1, <3>1, StoppedByRequest DEF ChallengeRead, Completing, Completions
  <2>2. ASSUME ChallengeSession(r) PROVE Stopped'
    <3>1. /\ request'[r].op = "challenge"
          /\ \A q \in Requests \ {r} : request'[q] = request[q]
      BY <2>2, AdvancesAs DEF ChallengeSession, At, Pcs
    <3> QED
      BY <2>2, <3>1, StoppedByRequest
         DEF ChallengeSession, Completing, Completions
  <2>3. ASSUME ChallengeIdentity(r) PROVE Stopped'
    <3>1. identity'.review # "clear"
      BY <2>3, <1>i, ChallengedReview
         DEF ChallengeIdentity, At, ChallengeCarried, ChallengeStates
    <3> QED
      BY <2>3, <3>1, StoppedByIdentity DEF ChallengeIdentity, At
  <2> QED
    BY <1>3, <2>1, <2>2, <2>3 DEF RecordVerificationChallenge
<1>4. ASSUME NEW r \in Requests, ExpireVerificationSession(r) PROVE Stopped'
  <2>1. ASSUME NEW s \in Sessions, ExpireRead(r, s) PROVE Stopped'
    <3>1. /\ request'[r].op = "expire"
          /\ \A q \in Requests \ {r} : request'[q] = request[q]
      BY <2>1, BeginsAs DEF ExpireRead
    <3> QED
      BY <2>1, <3>1, StoppedByRequest DEF ExpireRead, Completing, Completions
  <2>2. ASSUME ExpireLateCompletion(r) \/ ExpireSession(r) PROVE Stopped'
    <3>1. /\ request'[r].op \in {"expire", "none"}
          /\ \A q \in Requests \ {r} : request'[q] = request[q]
      BY <2>2, AdvancesAs, FinishesAs
         DEF ExpireLateCompletion, ExpireSession, At, Pcs, Idle
    <3> QED
      BY <2>2, <3>1, StoppedByRequest
         DEF ExpireLateCompletion, ExpireSession, Completing, Completions
  <2>3. ASSUME ExpireIdentity(r) PROVE Stopped'
    <3>1. identity'.review # "clear"
      BY <2>3, <1>i, ChallengedReview DEF ExpireIdentity, ChallengeStates
    <3> QED
      BY <2>3, <3>1, StoppedByIdentity DEF ExpireIdentity, At
  <2> QED
    BY <1>4, <2>1, <2>2, <2>3 DEF ExpireVerificationSession
<1>5. ASSUME NEW r \in Requests, MarkVerified(r) PROVE Stopped'
  <2>1. ASSUME NEW s \in Sessions, NEW until \in {Never, clock + 1},
               MarkVerifiedSession(r, s, until)
        PROVE  Stopped'
    BY <2>1 DEF MarkVerifiedSession, Stopped
  <2>2. ASSUME CompletionIdentity("markVerified", r) PROVE Stopped'
    <3>1. Completing(r)
      BY <2>2 DEF CompletionIdentity, At, Completing, Completions
    <3> QED
      BY <2>2, <3>1 DEF CompletionIdentity, Stopped
  <2> QED
    BY <1>5, <2>1, <2>2 DEF MarkVerified
<1>6. CASE MarkChallenge
  <2>1. Served = {}
    BY <1>6, PositiveIfNotEmpty DEF Running, Served
  <2>2. identity'.review # "clear"
    BY <1>6, <1>i, ChallengedReview DEF MarkChallenge, ChallengeStates
  <2> QED
    BY <1>6, <2>1, <2>2 DEF MarkChallenge, Stopped, Completing, Served
<1>7. CASE Tick \/ UNCHANGED vars
  BY <1>7 DEF Tick, vars, Stopped, Completing
<1>8. CASE Crash
  <2>1. PICK r \in Requests : Finish(r)
    BY <1>8 DEF Crash
  <2> QED
    BY <1>8, <2>1, FinishesAs, StoppedByRequest DEF Crash, Completing, Idle
<1> QED
  BY <1>1, <1>2, <1>3, <1>4, <1>5, <1>6, <1>7, <1>8
     DEF Next, CompleteVerificationSession, CompleteManualVerificationSession

\* What did not overlap: at most one request is served, and a challenge that
\* is marked directly meets none.
LEMMA NotOverlapped ==
  ASSUME StopInv, [IdentityNext]_IdentityVars, "verification" \notin overlapped'
  PROVE  Running' <= 1 /\ (MarkChallenge => Running = 0 \/ Stopped')
<1>0. /\ TypeOK /\ IsFiniteSet(Served) /\ [Next]_vars
      /\ Running <= 1 /\ Stopped
  BY IdentityStep DEF StopInv
<1>1. IsFiniteSet(Served') /\ Running \in Nat /\ Running' \in Nat
  BY <1>0, ServedStep, FS_CardinalityType DEF Running, Served
<1>2. CASE UNCHANGED IdentityVars
  BY <1>0, <1>2
     DEF IdentityVars, vars, Running, Stopped, Completing
<1>3. CASE IdentityNext
  <2>1. Overlap \subseteq overlapped'
    BY <1>3 DEF IdentityNext
  <2>2. ~(Running' > 1)
    BY <2>1 DEF Overlap
  <2>3. ~(part = "verification" /\ Running > 0 /\ MarkChallenge)
    BY <2>1 DEF Overlap
  <2>4. CASE part = "verification"
    BY <1>1, <2>2, <2>3, <2>4
  <2>5. CASE UNCHANGED vars
    BY <1>0, <1>1, <2>2, <2>5 DEF vars, Stopped, Completing
  <2> QED
    BY <1>3, <2>4, <2>5 DEF IdentityNext
<1> QED
  BY <1>2, <1>3

\* "Challenge states stop automation and require human action" (SPEC.md:74):
\* until requests on the identity overlap, a recorded challenge or an expired
\* session keeps the gates closed until a human asks for a completion again,
\* also when requests are lost between their two statements.
THEOREM ChallengeStays == IdentitySpec => []ChallengeHoldsAlone
<1>1. IdentityInit => StopInv
  <2> SUFFICES ASSUME IdentityInit PROVE StopInv
    OBVIOUS
  <2>1. Init /\ TypeOK
    BY InitTypeOK DEF IdentityInit
  <2>2. Served = {}
    BY <2>1 DEF Init, Served, Idle
  <2>3. IsFiniteSet(Served) /\ Running = 0
    BY <2>2, FS_EmptySet DEF Running, Served
  <2> QED
    BY <2>1, <2>3 DEF StopInv, Stopped, ChallengeCarried, Init, Idle
<1>2. StopInv /\ [IdentityNext]_IdentityVars => StopInv'
  <2> SUFFICES ASSUME StopInv, [IdentityNext]_IdentityVars PROVE StopInv'
    OBVIOUS
  <2>0. /\ TypeOK /\ ChallengeCarried /\ IsFiniteSet(Served) /\ [Next]_vars
        /\ overlapped \subseteq overlapped'
    BY IdentityStep DEF StopInv
  <2>1. TypeOK' /\ IsFiniteSet(Served')
    BY <2>0, NextTypeOK, ServedStep
  <2>2. ChallengeCarried'
    BY <2>0, CarriedStep
  <2>3. ASSUME "verification" \notin overlapped' PROVE Running' <= 1 /\ Stopped'
    <3>1. Running <= 1 /\ Stopped
      BY <2>0, <2>3 DEF StopInv
    <3> QED
      BY <2>0, <2>3, <3>1, NotOverlapped, StoppedStep
  <2> QED
    BY <2>1, <2>2, <2>3 DEF StopInv
<1>3. StopInv => ChallengeHoldsAlone
  BY DEF StopInv, Stopped, ChallengeHoldsAlone, ChallengeHolds, Automatable
<1> QED
  BY <1>1, <1>2, <1>3, PTL DEF IdentitySpec
=============================================================================

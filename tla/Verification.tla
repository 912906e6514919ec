---------------------------- MODULE Verification ----------------------------
(***************************************************************************)
(* Human verification of one Bazos identity (shared/bazos/identity): the   *)
(* verification sessions an operator starts, completes, reports as         *)
(* challenged or lets expire, and the three columns of the identity they   *)
(* write.  A request updates the session row and then the identity row,    *)
(* in two statements with no transaction: other requests run in between    *)
(* and a crash can come between them.  Identities share nothing here, so   *)
(* one identity is enough.                                                 *)
(***************************************************************************)
EXTENDS Integers, FiniteSets

CONSTANTS
  Requests,          \* requests being served
  SessionLifetime,   \* DEFAULT_VERIFICATION_SESSION_MINUTES
  MaxSessions,       \* bound: verification sessions ever created
  MaxTime,           \* bound: the clock stops there
  MaxRunning,        \* bound: requests in flight at once; 1 is no overlap
  Crashes            \* may a request be lost between two statements?

ASSUME VerificationAssumption ==
  /\ SessionLifetime \in Nat
  /\ MaxSessions \in Nat
  /\ MaxTime \in Nat
  /\ MaxRunning \in Nat \ {0}
  /\ Crashes \in BOOLEAN

VARIABLES
  clock,
  identity,          \* the bazosIdentity row
  session,           \* its bazosVerificationSession rows, in creation order
  request,           \* locals of the requests
  challenged         \* history: Bazos or an expiry stopped the identity and
                     \* no completion was asked for since

vars == <<clock, identity, session, request, challenged>>

Sessions == 1 .. MaxSessions
Never == -1           \* a null expiresAt or verificationExpiresAt
Deadline == Nat \cup {Never}

\* assertChallengeState: a challenge may carry every review state but "clear".
\* "challenge" stands for those that nothing tells apart.
ChallengeStates == {"verification_required", "challenge", "session_expired"}

IdentityRow ==
  [status: {"draft", "verified"},
   review: {"clear"} \cup ChallengeStates,
   session: {"missing", "active", "expired", "challenge"},
   verifiedUntil: Deadline]

SessionRow ==
  [state: {"absent", "awaiting_human", "completed", "challenge_detected",
           "expired"},
   humanConfirmed: BOOLEAN, expiresAt: Deadline]

NewSession(state, humanConfirmed, expiresAt) ==
  [state |-> state, humanConfirmed |-> humanConfirmed, expiresAt |-> expiresAt]

Ops == {"start", "complete", "manual", "challenge", "expire", "markVerified"}

\* pc: the row the request writes next, "check" before a session is expired.
Idle == [op |-> "none", pc |-> "idle", session |-> 0, until |-> Never,
         review |-> "clear"]
RequestState ==
  [op: Ops, pc: {"check", "session", "identity"}, session: Sessions,
   until: Deadline, review: {"clear"} \cup ChallengeStates]
    \cup {Idle}

TypeOK ==
  /\ clock \in Nat
  /\ identity \in IdentityRow
  /\ session \in [Sessions -> SessionRow]
  /\ request \in [Requests -> RequestState]
  /\ challenged \in BOOLEAN

\* create: a new identity is a draft with nothing under review.
Init ==
  /\ clock = 0
  /\ identity = [status |-> "draft", review |-> "clear", session |-> "missing",
                 verifiedUntil |-> Never]
  /\ session = [s \in Sessions |-> NewSession("absent", FALSE, Never)]
  /\ request = [r \in Requests |-> Idle]
  /\ challenged = FALSE

\* Mutant: only the status is looked at.
AutomatableIfVerified == identity.status = "verified"

\* Gates 1 to 4 of the publish policy: may anything be done automatically?
Automatable ==
  /\ identity.status = "verified"
  /\ identity.review = "clear"
  /\ identity.verifiedUntil # Never => identity.verifiedUntil > clock
  /\ identity.session = "active"

-----------------------------------------------------------------------------
Running == Cardinality({r \in Requests : request[r].pc # "idle"})

MayStart(r) == request[r].pc = "idle" /\ Running < MaxRunning

At(r, op, pc) == request[r].op = op /\ request[r].pc = pc

Begin(r, op, pc, s, until, review) ==
  request' = [request EXCEPT ![r] =
    [op |-> op, pc |-> pc, session |-> s, until |-> until, review |-> review]]

Advance(r, pc) == request' = [request EXCEPT ![r].pc = pc]
Finish(r) == request' = [request EXCEPT ![r] = Idle]

\* create() appends the next row.
NextSession(s) ==
  /\ session[s].state = "absent"
  /\ \A t \in Sessions : t < s => session[t].state # "absent"

SetState(s, state) == session' = [session EXCEPT ![s].state = state]

\* The identity a human just confirmed.
Verified(until) ==
  [status |-> "verified", review |-> "clear", session |-> "active",
   verifiedUntil |-> until]

\* applyIdentityChallengeState: the status stays what it was.
Challenged(review) ==
  [identity EXCEPT !.review = review,
     !.session = IF review = "session_expired" THEN "expired" ELSE "challenge"]

-----------------------------------------------------------------------------
(***************************************************************************)
(* startVerificationSession.  The caller may ask for any expiry date.      *)
(***************************************************************************)
StartSession(r, s, expiresAt) ==
  /\ MayStart(r)
  /\ NextSession(s)
  /\ session' = [session EXCEPT ![s] =
                   NewSession("awaiting_human", FALSE, expiresAt)]
  /\ Begin(r, "start", "identity", s, Never, "clear")
  /\ UNCHANGED <<clock, identity, challenged>>

StartIdentity(r) ==
  /\ At(r, "start", "identity")
  /\ identity' = [identity EXCEPT !.status = "draft", !.session = "missing",
                                  !.review = "verification_required"]
  /\ Finish(r)
  /\ UNCHANGED <<clock, session, challenged>>

StartVerificationSession(r) ==
  \/ \E s \in Sessions, t \in {clock, clock + SessionLifetime} :
       StartSession(r, s, t)
  \/ StartIdentity(r)

-----------------------------------------------------------------------------
(***************************************************************************)
(* completeVerificationSession and completeManualVerificationSession.      *)
(* They differ in the columns they store besides, which no gate reads.     *)
(* The session read here is still awaiting; the two writes do not look     *)
(* again.  A session past its expiry is expired instead.                   *)
(***************************************************************************)
Overdue(s) == session[s].expiresAt # Never /\ session[s].expiresAt <= clock

CompletionRead(op, r, s, until) ==
  /\ MayStart(r)
  /\ session[s].state = "awaiting_human"
  /\ IF Overdue(s) THEN Begin(r, "expire", "check", s, Never, "session_expired")
                   ELSE Begin(r, op, "session", s, until, "clear")
  /\ challenged' = (challenged /\ Overdue(s))
  /\ UNCHANGED <<clock, identity, session>>

CompletionSession(op, r) ==
  /\ At(r, op, "session")
  /\ session' = [session EXCEPT ![request[r].session].state = "completed",
                                ![request[r].session].humanConfirmed = TRUE]
  /\ Advance(r, "identity")
  /\ UNCHANGED <<clock, identity, challenged>>

CompletionIdentity(op, r) ==
  /\ At(r, op, "identity")
  /\ identity' = Verified(request[r].until)
  /\ Finish(r)
  /\ UNCHANGED <<clock, session, challenged>>

Completion(op, r) ==
  \/ \E s \in Sessions, until \in {Never, clock + 1} :
       CompletionRead(op, r, s, until)
  \/ CompletionSession(op, r)
  \/ CompletionIdentity(op, r)

CompleteVerificationSession(r) == Completion("complete", r)
CompleteManualVerificationSession(r) == Completion("manual", r)

-----------------------------------------------------------------------------
(***************************************************************************)
(* recordVerificationChallenge                                             *)
(***************************************************************************)
ChallengeRead(r, s, review) ==
  /\ MayStart(r)
  /\ session[s].state = "awaiting_human"
  /\ Begin(r, "challenge", "session", s, Never, review)
  /\ UNCHANGED <<clock, identity, session, challenged>>

ChallengeSession(r) ==
  /\ At(r, "challenge", "session")
  /\ SetState(request[r].session, "challenge_detected")
  /\ Advance(r, "identity")
  /\ UNCHANGED <<clock, identity, challenged>>

ChallengeIdentity(r) ==
  /\ At(r, "challenge", "identity")
  /\ identity' = Challenged(request[r].review)
  /\ challenged' = TRUE
  /\ Finish(r)
  /\ UNCHANGED <<clock, session>>

RecordVerificationChallenge(r) ==
  \/ \E s \in Sessions, review \in ChallengeStates :
       ChallengeRead(r, s, review)
  \/ ChallengeSession(r)
  \/ ChallengeIdentity(r)

-----------------------------------------------------------------------------
(***************************************************************************)
(* expireVerificationSession, called by an operator or by a completion     *)
(* that came too late.                                                     *)
(***************************************************************************)

Expirable(s) == session[s].state \notin {"absent", "completed"}

ExpireRead(r, s) ==
  /\ MayStart(r)
  /\ Expirable(s)
  /\ Begin(r, "expire", "session", s, Never, "session_expired")
  /\ UNCHANGED <<clock, identity, session, challenged>>

ExpireLateCompletion(r) ==
  /\ At(r, "expire", "check")
  /\ IF Expirable(request[r].session) THEN Advance(r, "session") ELSE Finish(r)
  /\ UNCHANGED <<clock, identity, session, challenged>>

ExpireSession(r) ==
  /\ At(r, "expire", "session")
  /\ SetState(request[r].session, "expired")
  /\ Advance(r, "identity")
  /\ UNCHANGED <<clock, identity, challenged>>

\* Mutant: the review state is left as it was.
ExpireIdentityKeepsReview(r) ==
  /\ At(r, "expire", "identity")
  /\ identity' = [identity EXCEPT !.session = "expired"]
  /\ challenged' = TRUE
  /\ Finish(r)
  /\ UNCHANGED <<clock, session>>

ExpireIdentity(r) ==
  /\ At(r, "expire", "identity")
  /\ identity' = Challenged("session_expired")
  /\ challenged' = TRUE
  /\ Finish(r)
  /\ UNCHANGED <<clock, session>>

ExpireVerificationSession(r) ==
  \/ \E s \in Sessions : ExpireRead(r, s)
  \/ ExpireLateCompletion(r) \/ ExpireSession(r) \/ ExpireIdentity(r)

-----------------------------------------------------------------------------
(***************************************************************************)
(* markVerified creates a session that is completed from the start;        *)
(* markChallenge is a single statement.                                    *)
(***************************************************************************)
\* Mutant: humanConfirmed keeps the column's default.
MarkVerifiedUnconfirmed(r, s, until) ==
  /\ MayStart(r)
  /\ NextSession(s)
  /\ session' = [session EXCEPT ![s] = NewSession("completed", FALSE, Never)]
  /\ Begin(r, "markVerified", "identity", s, until, "clear")
  /\ challenged' = FALSE
  /\ UNCHANGED <<clock, identity>>

MarkVerifiedSession(r, s, until) ==
  /\ MayStart(r)
  /\ NextSession(s)
  /\ session' = [session EXCEPT ![s] = NewSession("completed", TRUE, Never)]
  /\ Begin(r, "markVerified", "identity", s, until, "clear")
  /\ challenged' = FALSE
  /\ UNCHANGED <<clock, identity>>

MarkVerified(r) ==
  \/ \E s \in Sessions, until \in {Never, clock + 1} :
       MarkVerifiedSession(r, s, until)
  \/ CompletionIdentity("markVerified", r)

MarkChallenge ==
  /\ Running < MaxRunning
  /\ \E review \in ChallengeStates :
       identity' = Challenged(review)
  /\ challenged' = TRUE
  /\ UNCHANGED <<clock, session, request>>

-----------------------------------------------------------------------------
Tick ==
  /\ clock < MaxTime
  /\ MaxRunning = 1 => Running = 0
  /\ clock' = clock + 1
  /\ UNCHANGED <<identity, session, request, challenged>>

Crash ==
  /\ Crashes
  /\ \E r \in Requests : request[r].pc # "idle" /\ Finish(r)
  /\ UNCHANGED <<clock, identity, session, challenged>>

Next ==
  \/ \E r \in Requests :
       \/ StartVerificationSession(r)
       \/ CompleteVerificationSession(r)
       \/ CompleteManualVerificationSession(r)
       \/ RecordVerificationChallenge(r)
       \/ ExpireVerificationSession(r)
       \/ MarkVerified(r)
  \/ MarkChallenge
  \/ Tick
  \/ Crash

Spec == Init /\ [][Next]_vars

-----------------------------------------------------------------------------
(***************************************************************************)
(* Properties.                                                             *)
(***************************************************************************)
\* Whatever overlaps or is lost, nothing is automated for an identity no
\* human ever confirmed: the session is confirmed before the identity is
\* verified.
HumanBeforeAutomation ==
  Automatable => \E s \in Sessions : session[s].humanConfirmed

\* "Verified identity state cannot mask an expired or missing session"
\* (gate 4).  However completions, challenges and expiries overlap and
\* whatever is lost, the columns of the identity row the gates read agree:
\* its session is active exactly when its status is verified with nothing
\* under review, and expired exactly when its review state says so.  Of the
\* session rows, which a lost request leaves behind, this says nothing.
ColumnsAgree ==
  /\ identity.session = "active" <=>
       identity.status = "verified" /\ identity.review = "clear"
  /\ identity.session = "expired" <=> identity.review = "session_expired"

\* Once Bazos presents a challenge or a session expires, nothing is automated
\* until a human asks for a completion again.
ChallengeHolds == challenged => ~Automatable
=============================================================================

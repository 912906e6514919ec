----------------------------- MODULE IdentityMC -----------------------------
(***************************************************************************)
(* Instances of Verification and SellerConsent for TLC.  The two share no  *)
(* row, so a behaviour is one of either part.  The history `overlapped`    *)
(* names what has overlapped another request so far: some properties hold  *)
(* until then only.                                                        *)
(***************************************************************************)
EXTENDS Verification, SellerConsent, TLC

CONSTANTS r1, r2, g1, g2, p1, p2

VARIABLES part, overlapped

IdentityVars == <<vars, consentVars, part, overlapped>>

\* The part that does not move stays in one initial state.
IdentityInit ==
  /\ Init /\ ConsentInit
  /\ part \in {"verification", "consent"}
  /\ part = "verification" => documentVersion = "v1"
  /\ overlapped = {}

\* A request of one statement overlaps with any that is in flight.
Overlap ==
  {kind \in {"verification", "revocation"} :
     CASE kind = "verification" ->
            \/ Running' > 1
            \/ part = "verification" /\ Running > 0 /\ MarkChallenge
       [] kind = "revocation" -> Granting > 0 /\ withdrawn' /\ ~withdrawn}

IdentityNext ==
  /\ \/ part = "verification" /\ Next /\ UNCHANGED consentVars
     \/ part = "consent" /\ ConsentNext /\ UNCHANGED vars
  /\ overlapped' = overlapped \cup Overlap
  /\ UNCHANGED part

IdentitySpec == IdentityInit /\ [][IdentityNext]_IdentityVars

\* Once Bazos presents a challenge or a session expires, nothing is automated
\* until a human asks for a completion again, as long as no two requests
\* overlapped: the two statements of each are never undone by another.
ChallengeHoldsAlone == "verification" \notin overlapped => ChallengeHolds

\* Once the seller revokes, gate 0 is closed until the seller grants again,
\* whatever a double click left active, unless a grant was in flight.
WithdrawalHoldsAlone == "revocation" \notin overlapped => WithdrawalHolds

\* Requests, tabs and grants differ in nothing but their names.
Symmetric ==
  Permutations(Requests) \cup Permutations(Grants) \cup Permutations(Pages)
=============================================================================

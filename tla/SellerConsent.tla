--------------------------- MODULE SellerConsent ---------------------------
(***************************************************************************)
(* The seller's consent to publish under one identity: the page that shows *)
(* its state and asks for it, the consent service, and gate 0 of the       *)
(* publish policy.  Granting is two statements: revoke what is active,     *)
(* then insert; the page does not disable its button while it waits, so    *)
(* two requests may overlap.  A deployment may change the wording; pages   *)
(* loaded before it stay open.                                             *)
(***************************************************************************)
EXTENDS Integers, FiniteSets, FiniteSetsExt

CONSTANTS
  Versions,          \* wordings of the terms
  Pages,             \* open browser tabs of the seller
  Grants,            \* grant requests being served
  MaxConsents,       \* bound: consent rows ever created
  MaxGrants,         \* bound: requests in flight at once; 1 is no overlap
  GrantsLost         \* may a request be lost between its two statements?

ASSUME ConsentAssumption ==
  /\ MaxConsents \in Nat
  /\ MaxGrants \in Nat \ {0}
  /\ GrantsLost \in BOOLEAN

VARIABLES
  documentVersion,   \* CONSENT_DOCUMENT_VERSION of the deployed service
  consent,           \* bazosIdentityConsent rows, in grantedAt order
  page,              \* what each tab shows
  granting,          \* version each grant request is about to insert
  accepted,          \* history: the wordings the seller agreed to
  withdrawn          \* history: the last thing the seller asked for is revoke

consentVars ==
  <<documentVersion, consent, page, granting, accepted, withdrawn>>

NoVersion == "none"
Rows == 1 .. MaxConsents
ConsentRow == [state: {"absent", "active", "revoked"},
               version: Versions \cup {NoVersion}]
Shown == {"loading", "granted", "needsRenewal", "missing"}

ConsentTypeOK ==
  /\ documentVersion \in Versions
  /\ consent \in [Rows -> ConsentRow]
  /\ page \in [Pages -> [shows: Shown, version: Versions \cup {NoVersion}]]
  /\ granting \in [Grants -> Versions \cup {NoVersion}]
  /\ accepted \subseteq Versions
  /\ withdrawn \in BOOLEAN

ConsentInit ==
  /\ documentVersion \in Versions
  /\ consent = [n \in Rows |-> [state |-> "absent", version |-> NoVersion]]
  /\ page = [p \in Pages |-> [shows |-> "loading", version |-> NoVersion]]
  /\ granting = [r \in Grants |-> NoVersion]
  /\ accepted = {}
  /\ withdrawn = FALSE

Active == {n \in Rows : consent[n].state = "active"}

NextRow(n) ==
  /\ consent[n].state = "absent"
  /\ \A k \in Rows : k < n => consent[k].state # "absent"

Granting == Cardinality({r \in Grants : granting[r] # NoVersion})
MayServe == Granting < MaxGrants

\* status: the latest active row, compared with the current wording.
Status ==
  IF Active = {} THEN "missing"
  ELSE IF consent[Max(Active)].version = documentVersion THEN "granted"
  ELSE "needsRenewal"

\* Gate 0 of the publish policy makes the same two checks.
ConsentGate ==
  \E n \in Active : /\ \A k \in Active : k <= n
                    /\ consent[n].version = documentVersion

-----------------------------------------------------------------------------
\* The tab is opened: the wording it shows is part of the page, the state of
\* the consent is fetched later (Refresh).
OpenPage(p) ==
  /\ page' = [page EXCEPT ![p] = [shows |-> "loading",
                                  version |-> documentVersion]]
  /\ UNCHANGED <<documentVersion, consent, granting, accepted, withdrawn>>

Refresh(p) ==
  /\ page[p].version # NoVersion
  /\ page' = [page EXCEPT ![p].shows = Status]
  /\ UNCHANGED <<documentVersion, consent, granting, accepted, withdrawn>>

\* consentPanelBody: which button the tab shows.
OffersGrant(p) == page[p].shows \in {"needsRenewal", "missing"}

\* updateMany: everything that is active.
RevokeActive ==
  consent' = [n \in Rows |-> IF n \in Active
                             THEN [consent[n] EXCEPT !.state = "revoked"]
                             ELSE consent[n]]

\* Mutant: the service stores its own wording whatever the page showed.
GrantWhateverShown(p, r) ==
  /\ MayServe
  /\ granting[r] = NoVersion
  /\ OffersGrant(p)
  /\ RevokeActive
  /\ granting' = [granting EXCEPT ![r] = documentVersion]
  /\ accepted' = accepted \cup {page[p].version}
  /\ withdrawn' = FALSE
  /\ UNCHANGED <<documentVersion, page>>

\* grant, first statement.  Another wording than the current is refused.
Grant(p, r) ==
  /\ MayServe
  /\ granting[r] = NoVersion
  /\ OffersGrant(p)
  /\ page[p].version = documentVersion
  /\ RevokeActive
  /\ granting' = [granting EXCEPT ![r] = documentVersion]
  /\ accepted' = accepted \cup {page[p].version}
  /\ withdrawn' = FALSE
  /\ UNCHANGED <<documentVersion, page>>

\* grant, second statement.
Insert(r) ==
  /\ granting[r] # NoVersion
  /\ \E n \in Rows :
       /\ NextRow(n)
       /\ consent' = [consent EXCEPT ![n] =
                        [state |-> "active", version |-> granting[r]]]
  /\ granting' = [granting EXCEPT ![r] = NoVersion]
  /\ UNCHANGED <<documentVersion, page, accepted, withdrawn>>

\* Mutant: only a consent to the current wording is revoked.
RevokeCurrentOnly(p) ==
  /\ MayServe
  /\ page[p].shows = "granted"
  /\ consent' = [n \in Rows |->
       IF n \in Active /\ consent[n].version = documentVersion
       THEN [consent[n] EXCEPT !.state = "revoked"] ELSE consent[n]]
  /\ withdrawn' = TRUE
  /\ UNCHANGED <<documentVersion, page, granting, accepted>>

Revoke(p) ==
  /\ MayServe
  /\ page[p].shows = "granted"
  /\ RevokeActive
  /\ withdrawn' = TRUE
  /\ UNCHANGED <<documentVersion, page, granting, accepted>>

\* Another wording is deployed, or an earlier one again; requests that are
\* being served are drained by the old process.
Deploy ==
  /\ documentVersion' \in Versions \ {documentVersion}
  /\ UNCHANGED <<consent, page, granting, accepted, withdrawn>>

LoseGrant ==
  /\ GrantsLost
  /\ \E r \in Grants : /\ granting[r] # NoVersion
                         /\ granting' = [granting EXCEPT ![r] = NoVersion]
  /\ UNCHANGED <<documentVersion, consent, page, accepted, withdrawn>>

ConsentNext ==
  \/ \E p \in Pages : OpenPage(p) \/ Refresh(p) \/ Revoke(p)
  \/ \E r \in Grants : Insert(r) \/ \E p \in Pages : Grant(p, r)
  \/ Deploy
  \/ LoseGrant

ConsentSpec == ConsentInit /\ [][ConsentNext]_consentVars

-----------------------------------------------------------------------------
(***************************************************************************)
(* Properties.                                                             *)
(***************************************************************************)

\* Nothing is published under a wording the seller was not shown and did not
\* accept, whatever is deployed, overlaps or stays open in a tab.
TermsWereAccepted == ConsentGate => documentVersion \in accepted

\* Once the seller revokes, gate 0 is closed until the seller grants again.
WithdrawalHolds == withdrawn => ~ConsentGate

\* The history stays reconstructable: a row is only ever stamped revoked.
HistoryKept ==
  [][\A n \in Rows : consent[n].state # "absent" =>
       \/ consent'[n] = consent[n]
       \/ consent'[n] = [consent[n] EXCEPT !.state = "revoked"]]_consentVars
=============================================================================

--------------------------- MODULE PublishPolicy ---------------------------
(***************************************************************************)
(* The publishing gates of shared/bazos/policy that are decided by the     *)
(* rows of one identity.  `evaluate` reads the identity with its category  *)
(* cadence in one query and then reads everything else (consent, local     *)
(* duplicates, Warehouse, Catalog, evidence, category mapping); the two    *)
(* groups of gates are two steps of the handlers that call it, because     *)
(* other requests run in between.                                          *)
(*                                                                         *)
(* Time is counted in ticks.  PacingMin..PacingMax stands for 60..180 s    *)
(* and CategoryCooldown for 24 h.                                          *)
(***************************************************************************)
EXTENDS Integers

CONSTANTS
  MaxActiveAds,      \* MAX_ACTIVE_ADS, 50 in the code
  PacingMin,         \* PACING_MIN_SECONDS
  PacingMax,         \* PACING_MAX_SECONDS
  CategoryCooldown   \* CATEGORY_COOLDOWN_HOURS

ASSUME PolicyAssumption ==
  /\ MaxActiveAds \in Nat \ {0}
  /\ PacingMin \in Nat \ {0}
  /\ PacingMax \in Nat
  /\ PacingMin <= PacingMax
  /\ CategoryCooldown \in Nat

Time == Nat

\* The category cadence row does not exist yet.
NoTime == -1

(***************************************************************************)
(* `standing` folds status, reviewState, verificationExpiresAt and         *)
(* sessionState into whether gates 1 to 4 all pass.                        *)
(* A null nextPublishNotBefore is 0: both pass gate 6 at every time.       *)
(***************************************************************************)
Standing == {"clear", "blocked"}

IdentityRow ==
  [standing: Standing, activeAdCount: Nat, nextPublishNotBefore: Time]

NewIdentity ==
  [standing |-> "clear", activeAdCount |-> 0, nextPublishNotBefore |-> 0]

\* Mutants of IdentityGates: the cap admits one ad too many; the cooldown ends
\* a tick early.
GatesCapOffByOne(row, lastPublishedAt, now) ==
  /\ row.standing = "clear"
  /\ row.activeAdCount <= MaxActiveAds
  /\ row.nextPublishNotBefore <= now
  /\ lastPublishedAt # NoTime => lastPublishedAt + CategoryCooldown <= now

GatesCooldownShort(row, lastPublishedAt, now) ==
  /\ row.standing = "clear"
  /\ row.activeAdCount < MaxActiveAds
  /\ row.nextPublishNotBefore <= now
  /\ lastPublishedAt # NoTime => lastPublishedAt + CategoryCooldown <= now + 1

\* Gates 1 to 7, on the row read and the instant `now` taken before the read.
IdentityGates(row, lastPublishedAt, now) ==
  /\ row.standing = "clear"
  /\ row.activeAdCount < MaxActiveAds
  /\ row.nextPublishNotBefore <= now
  /\ lastPublishedAt # NoTime => lastPublishedAt + CategoryCooldown <= now

\* Mutant: the delay is drawn from 0 .. PacingMax.
SlotsFromZero(evaluatedAt) == {evaluatedAt + delay : delay \in 0 .. PacingMax}

\* evaluatedAt + selectPacingDelaySeconds(): any delay of the inclusive range.
Slots(evaluatedAt) == {evaluatedAt + delay : delay \in PacingMin .. PacingMax}
=============================================================================

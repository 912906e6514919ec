-------------------------- MODULE SellActionProofs --------------------------
(***************************************************************************)
(* Theorems about the sell action and the gates, for every set of titles   *)
(* and requests, any number of rows, faults and overlapping requests.      *)
(***************************************************************************)
EXTENDS SellActionMC, FiniteSetTheorems, TLAPS

USE SellAssumption

-----------------------------------------------------------------------------
(***************************************************************************)
(* The inductive invariant.  A request that works on a row works on one    *)
(* that exists and has the product it carries: rows are never removed and  *)
(* their product never changes.  A row is chosen once a claim of it passed *)
(* the gates: no other row of its product was on sale.  One inserted later *)
(* sees it and is not chosen, unless it was taken off sale meanwhile.      *)
(***************************************************************************)
RowsHaveProduct ==
  \A n \in AdIds : Exists(n) => ad[n].product \in Products

CarriesProduct ==
  \A r \in Requests :
    Busy(r) /\ request[r].pc \notin {"search", "product"} =>
      request[r].product \in Products

HoldsRow(r) ==
  /\ Busy(r)
  /\ \/ request[r].pc \in {"update", "enqueue", "gate", "queue", "recheck",
                           "block", "submit"}
     \/ request[r].pc = "quality" /\ request[r].job # "prepare"

CarriesRow ==
  \A r \in Requests : HoldsRow(r) =>
    /\ request[r].ad \in AdIds
    /\ Exists(request[r].ad)
    /\ ad[request[r].ad].product = request[r].product

AttemptExists ==
  \A n \in AdIds : attempt[n] # "none" \/ ad[n].listed => Exists(n)

Chosen(n) ==
  Listed(n) \/ \E r \in Requests : At(r, "submit") /\ request[r].ad = n

ChosenAlone ==
  \A n, m \in AdIds :
    /\ n # m /\ Chosen(n) /\ Chosen(m)
    /\ ad[n].product = ad[m].product
    => <<n, m>> \in overlooked \/ <<m, n>> \in overlooked

SellInv == TypeOK /\ RowsHaveProduct /\ CarriesProduct /\ CarriesRow
           /\ AttemptExists

LEMMA IdleIsNoJob == Idle \notin Locals
<1> SUFFICES ASSUME Idle \in Locals PROVE FALSE
  OBVIOUS
<1>1. Idle.job \in {"create", "prepare", "confirm", "claim"}
  BY DEF Locals
<1> QED
  BY <1>1 DEF Idle

LEMMA InitInv == Init => SellInv
<1> SUFFICES ASSUME Init PROVE SellInv
  OBVIOUS
<1>1. /\ ad \in [AdIds -> AdRow]
      /\ \A n \in AdIds : ad[n].status = "absent" /\ ~ad[n].listed
  BY DEF Init, AdRow, Statuses
<1>2. \A r \in Requests : ~Busy(r)
  BY DEF Init, Busy
<1>3. fact \in [Products -> Facts] /\ prepared \in Answer
  BY DEF Init, Facts, Answer
<1>4. catalog \subseteq Products
  BY DEF Init, Products, Copies
<1>5. \A bound \in {MaxRequests, MaxFaults, MaxChanges} : 0 \in 0 .. bound
  OBVIOUS
<1>6. TypeOK
  BY <1>1, <1>3, <1>4, <1>5 DEF Init, TypeOK
<1> QED
  BY <1>1, <1>2, <1>6
     DEF Init, SellInv, RowsHaveProduct, CarriesProduct, HoldsRow, CarriesRow,
         Exists, AttemptExists

-----------------------------------------------------------------------------
(***************************************************************************)
(* What a step of request r may do to rows and requests.                   *)
(***************************************************************************)
\* Rows stay with their product; a new one has a product and is not listed;
\* attempts are of rows.
RowsStay ==
  \A n \in AdIds :
    /\ Exists(n) => Exists(n)' /\ ad'[n].product = ad[n].product
    /\ ~Exists(n) /\ Exists(n)' => ad'[n].product \in Products
    /\ ~Exists(n) => ~Listed(n)'
    /\ attempt'[n] # "none" \/ ad'[n].listed => Exists(n)'

\* A row becomes listed by the claim that chose it.
ListedBy(r) ==
  \A n \in AdIds :
    Listed(n)' => Listed(n) \/ (At(r, "submit") /\ request[r].ad = n)

\* What request r carries into its next step is right.
Carries(r) ==
  /\ Busy(r)' /\ request'[r].pc \notin {"search", "product"} =>
       request'[r].product \in Products
  /\ HoldsRow(r)' =>
       /\ request'[r].ad \in AdIds
       /\ Exists(request'[r].ad)
       /\ ad[request'[r].ad].product = request'[r].product

\* It comes to its submission by a claim that found no other row on sale.
ChoosesAlone(r) ==
  At(r, "submit")' =>
    /\ PassesClaim(r)
    /\ request'[r].ad = request[r].ad
    /\ Duplicates(request[r].product, request[r].ad) = {}

\* What a step leaves: the invariant, and no row is chosen but by such a claim.
ChosenBy(r, n) ==
  /\ PassesClaim(r) /\ request[r].ad = n /\ Exists(n)
  /\ Duplicates(ad[n].product, n) = {}

StepIsRight ==
  /\ SellInv' /\ RowsStay
  /\ \A n \in AdIds :
       Chosen(n)' => Chosen(n) \/ \E r \in Requests : ChosenBy(r, n)

LEMMA InvStep ==
  ASSUME SellInv, TypeOK', NEW r \in Requests,
         \A q \in Requests \ {r} : request'[q] = request[q],
         RowsStay, ListedBy(r), Carries(r), ChoosesAlone(r)
  PROVE  StepIsRight
<1>1. RowsHaveProduct'
  BY DEF SellInv, RowsHaveProduct, RowsStay, Exists
<1>2. \A q \in Requests : q # r => Busy(q)' = Busy(q)
  BY DEF Busy
<1>3. CarriesProduct'
  BY <1>2 DEF SellInv, CarriesProduct, Carries
<1>4. CarriesRow'
  <2> SUFFICES ASSUME NEW q \in Requests, HoldsRow(q)'
               PROVE  /\ request'[q].ad \in AdIds
                      /\ Exists(request[q].ad)'
                      /\ ad'[request'[q].ad].product = request'[q].product
    BY DEF CarriesRow
  <2>1. CASE q = r
    BY <2>1 DEF Carries, RowsStay, Exists
  <2>2. CASE q # r
    BY <2>2, <1>2 DEF HoldsRow, SellInv, CarriesRow, RowsStay, Exists
  <2> QED
    BY <2>1, <2>2
<1>5. AttemptExists'
  BY DEF AttemptExists, RowsStay, Exists
<1>6. ASSUME NEW n \in AdIds, Chosen(n)', ~Chosen(n)
      PROVE  ChosenBy(r, n)
  <2>1. ~Listed(n)'
    BY <1>6 DEF ListedBy, Chosen
  <2>2. PICK q \in Requests : At(q, "submit")' /\ request'[q].ad = n
    BY <1>6, <2>1 DEF Chosen
  <2>3. q = r
    BY <1>2, <1>6, <2>2 DEF Chosen, At
  <2>4. /\ PassesClaim(r) /\ request[r].ad = n
        /\ Duplicates(request[r].product, n) = {}
    BY <2>2, <2>3 DEF ChoosesAlone
  <2>5. Exists(n) /\ ad[n].product = request[r].product
    BY <2>4 DEF PassesClaim, At, SellInv, CarriesRow, HoldsRow
  <2> QED
    BY <2>4, <2>5 DEF ChosenBy
<1> QED
  BY <1>1, <1>3, <1>4, <1>5, <1>6 DEF SellInv, StepIsRight

-----------------------------------------------------------------------------
(***************************************************************************)
(* How requests move.                                                      *)
(***************************************************************************)
Pcs == {"search", "product", "quality", "stock", "find", "update", "insert",
        "evaluate", "enqueue", "gate", "queue", "recheck", "block", "submit"}

LEMMA Fields ==
  ASSUME TypeOK, NEW r \in Requests, Busy(r)
  PROVE  /\ request[r] \in Locals
         /\ request[r].pc \in Pcs
         /\ request[r].title \in Titles
         /\ request[r].product \in Products \cup {NoProduct}
         /\ request[r].ad \in AdIds \cup {NoAd}
<1>1. request[r] \in Locals
  BY DEF TypeOK, Busy
<1> QED
  BY <1>1 DEF Locals, Pcs

\* A request goes on with a product or with a row.
LEMMA TakesProduct ==
  ASSUME TypeOK, NEW r \in Requests, Busy(r), NEW pc \in Pcs,
         NEW p \in Products \cup {NoProduct},
         request' = [request EXCEPT ![r].pc = pc, ![r].product = p]
  PROVE  /\ request' \in [Requests -> Locals \cup {Idle}]
         /\ request'[r].pc = pc
         /\ request'[r].product = p
         /\ \A q \in Requests \ {r} : request'[q] = request[q]
<1>1. request[r] \in Locals
  BY Fields
<1> DEFINE c == [request[r] EXCEPT !.pc = pc, !.product = p]
<1>2. c \in Locals /\ c.pc = pc /\ c.product = p
  BY <1>1 DEF Locals, Pcs
<1>3. request' = [request EXCEPT ![r] = c]
  BY DEF TypeOK
<1> HIDE DEF c
<1> QED
  BY <1>2, <1>3 DEF TypeOK

LEMMA TakesRow ==
  ASSUME TypeOK, NEW r \in Requests, Busy(r), NEW pc \in Pcs,
         NEW n \in AdIds \cup {NoAd},
         request' = [request EXCEPT ![r].pc = pc, ![r].ad = n]
  PROVE  /\ request' \in [Requests -> Locals \cup {Idle}]
         /\ request'[r].pc = pc
         /\ request'[r].product = request[r].product
         /\ request'[r].ad = n
         /\ \A q \in Requests \ {r} : request'[q] = request[q]
<1>1. request[r] \in Locals
  BY Fields
<1> DEFINE c == [request[r] EXCEPT !.pc = pc, !.ad = n]
<1>2. c \in Locals /\ c.pc = pc /\ c.product = request[r].product /\ c.ad = n
  BY <1>1 DEF Locals, Pcs
<1>3. request' = [request EXCEPT ![r] = c]
  BY DEF TypeOK
<1> HIDE DEF c
<1> QED
  BY <1>2, <1>3 DEF TypeOK

LEMMA GotoMoves ==
  ASSUME TypeOK, NEW r \in Requests, Busy(r), NEW pc \in Pcs, Goto(r, pc)
  PROVE  /\ request' \in [Requests -> Locals \cup {Idle}]
         /\ request'[r].pc = pc
         /\ request'[r].product = request[r].product
         /\ request'[r].ad = request[r].ad
         /\ request'[r].job = request[r].job
         /\ \A q \in Requests \ {r} : request'[q] = request[q]
<1>1. request[r] \in Locals
  BY Fields
<1> DEFINE c == [request[r] EXCEPT !.pc = pc]
<1>2. c \in Locals /\ c.pc = pc /\ c.product = request[r].product
      /\ c.ad = request[r].ad /\ c.job = request[r].job
  BY <1>1 DEF Locals, Pcs
<1>3. request' = [request EXCEPT ![r] = c]
  BY DEF Goto
<1> HIDE DEF c
<1> QED
  BY <1>2, <1>3 DEF TypeOK

LEMMA Renews ==
  ASSUME TypeOK, NEW r \in Requests, Busy(r), NEW renews \in BOOLEAN,
         request' = [request EXCEPT ![r].pc = "gate", ![r].renews = renews]
  PROVE  /\ request' \in [Requests -> Locals \cup {Idle}]
         /\ request'[r].pc = "gate"
         /\ request'[r].product = request[r].product
         /\ request'[r].ad = request[r].ad
         /\ \A q \in Requests \ {r} : request'[q] = request[q]
<1>1. request[r] \in Locals
  BY Fields
<1> DEFINE c == [request[r] EXCEPT !.pc = "gate", !.renews = renews]
<1>2. c \in Locals /\ c.pc = "gate" /\ c.product = request[r].product
      /\ c.ad = request[r].ad
  BY <1>1 DEF Locals
<1>3. request' = [request EXCEPT ![r] = c]
  BY DEF TypeOK
<1> HIDE DEF c
<1> QED
  BY <1>2, <1>3 DEF TypeOK

LEMMA EndMoves ==
  ASSUME TypeOK, NEW r \in Requests, End(r)
  PROVE  /\ request' \in [Requests -> Locals \cup {Idle}]
         /\ ~Busy(r)'
         /\ \A q \in Requests \ {r} : request'[q] = request[q]
BY DEF TypeOK, End, Busy

\* Steps that leave the rows alone.
LEMMA StayStep ==
  ASSUME SellInv, NEW r \in Requests,
         ad' = ad, attempt' = attempt,
         request' \in [Requests -> Locals \cup {Idle}],
         \A q \in Requests \ {r} : request'[q] = request[q],
         catalog' \subseteq Products, fact' = fact, prepared' \in Answer,
         served' \in 0 .. MaxRequests, faults' \in 0 .. MaxFaults,
         changes' \in 0 .. MaxChanges,
         Carries(r), ChoosesAlone(r)
  PROVE  StepIsRight
<1>1. TypeOK'
  BY DEF SellInv, TypeOK
<1>2. RowsStay /\ ListedBy(r)
  BY DEF SellInv, AttemptExists, RowsStay, ListedBy, Listed, Exists
<1> QED
  BY <1>1, <1>2, InvStep

\* Request r ends, or goes on at a step that needs no more than it carried.
LEMMA EndStep ==
  ASSUME SellInv, NEW r \in Requests, End(r), ad' = ad, attempt' = attempt,
         catalog' = catalog, fact' = fact, prepared' \in Answer,
         served' = served, faults' \in 0 .. MaxFaults, changes' = changes
  PROVE  StepIsRight
<1>1. Carries(r) /\ ChoosesAlone(r)
  BY EndMoves DEF SellInv, Carries, ChoosesAlone, HoldsRow, At
<1> QED
  BY <1>1, EndMoves, StayStep DEF SellInv, TypeOK

LEMMA GotoStep ==
  ASSUME SellInv, NEW r \in Requests, Busy(r), NEW pc \in Pcs, Goto(r, pc),
         request[r].pc # "search" \/ pc = "product",
         request[r].pc # "product",
         pc \in {"update", "enqueue", "gate", "queue", "recheck", "block",
                 "submit"} => HoldsRow(r),
         pc # "quality",
         pc = "submit" =>
           /\ request[r].pc = "recheck"
           /\ Duplicates(request[r].product, request[r].ad) = {},
         UNCHANGED <<external, ad, attempt, prepared, counters>>
  PROVE  StepIsRight
<1> USE DEF external, counters
<1>0. TypeOK
  BY DEF SellInv
<1>1. /\ request' \in [Requests -> Locals \cup {Idle}]
      /\ request'[r].pc = pc
      /\ request'[r].product = request[r].product
      /\ request'[r].ad = request[r].ad
      /\ \A q \in Requests \ {r} : request'[q] = request[q]
  BY <1>0, GotoMoves
<1>2. request[r].pc \in Pcs
  BY <1>0, Fields
<1>3. Carries(r)
  BY <1>1, <1>2
     DEF Carries, SellInv, CarriesProduct, CarriesRow, HoldsRow, Exists
<1>4. ChoosesAlone(r)
  BY <1>1 DEF ChoosesAlone, PassesClaim, At
<1> QED
  BY <1>0, <1>1, <1>3, <1>4, StayStep DEF TypeOK

\* A request begins.
LEMMA StartStep ==
  ASSUME SellInv, NEW r \in Requests,
         NEW job \in {"create", "prepare", "confirm", "claim"},
         NEW pc \in {"search", "quality", "recheck"},
         NEW t \in Titles, NEW p \in Products \cup {NoProduct},
         NEW n \in AdIds \cup {NoAd},
         Start(r, job, pc, t, p, n),
         pc # "search" => p \in Products,
         pc = "recheck" \/ (pc = "quality" /\ job # "prepare") =>
           n \in AdIds /\ Exists(n) /\ ad[n].product = p
  PROVE  StepIsRight
<1> USE DEF external
<1> DEFINE c == [job |-> job, pc |-> pc, title |-> t, product |-> p, ad |-> n,
                renews |-> FALSE]
<1>1. c \in Locals
  BY DEF Locals
<1>2. c # Idle
  BY <1>1, IdleIsNoJob
<1>3. request' = [request EXCEPT ![r] = c]
  BY DEF Start
<1>4. request' \in [Requests -> Locals \cup {Idle}] /\ request'[r] = c
      /\ \A q \in Requests \ {r} : request'[q] = request[q]
  BY <1>1, <1>3 DEF SellInv, TypeOK
<1>5. Carries(r)
  BY <1>4 DEF Carries, HoldsRow
<1>6. ChoosesAlone(r)
  BY <1>4 DEF ChoosesAlone, At
<1>7. /\ ad' = ad /\ attempt' = attempt /\ catalog' \subseteq Products
      /\ fact' = fact /\ prepared' \in Answer
      /\ served' \in 0 .. MaxRequests /\ faults' \in 0 .. MaxFaults
      /\ changes' \in 0 .. MaxChanges
  BY DEF Start, SellInv, TypeOK
<1> HIDE DEF c
<1> QED
  BY <1>4, <1>5, <1>6, <1>7, StayStep

LEMMA CreateDraftStep ==
  ASSUME SellInv, NEW r \in Requests, NEW t \in Titles, CreateDraft(r, t)
  PROVE  StepIsRight
BY StartStep DEF CreateDraft

LEMMA PrepareStep ==
  ASSUME SellInv, NEW r \in Requests, NEW p \in Products, Prepare(r, p)
  PROVE  StepIsRight
<1>1. p[1] \in Titles
  BY DEF Products
<1> QED
  BY <1>1, StartStep DEF Prepare

LEMMA ConfirmStep ==
  ASSUME SellInv, NEW r \in Requests, NEW n \in AdIds, Confirm(r, n)
  PROVE  StepIsRight
<1>1. Exists(n) /\ ad[n].product \in Products /\ ad[n].product[1] \in Titles
  BY DEF Confirm, SellInv, RowsHaveProduct, Exists, Products
<1> QED
  BY <1>1, StartStep DEF Confirm

LEMMA ClaimStep ==
  ASSUME SellInv, NEW r \in Requests, NEW n \in AdIds, Claim(r, n)
  PROVE  StepIsRight
<1>1. Exists(n)
  BY DEF Claim, SellInv, AttemptExists
<1>2. ad[n].product \in Products /\ ad[n].product[1] \in Titles
  BY <1>1 DEF SellInv, RowsHaveProduct, Products
<1> QED
  BY <1>1, <1>2, StartStep DEF Claim

-----------------------------------------------------------------------------
(***************************************************************************)
(* The handlers.                                                           *)
(***************************************************************************)
LEMMA SearchStep ==
  ASSUME SellInv, NEW r \in Requests, Search(r)
  PROVE  StepIsRight
<1> USE DEF external, counters
<1>0. TypeOK /\ Busy(r) /\ request[r].pc = "search"
  BY DEF SellInv, Search, At
<1>1. ASSUME NEW p \in Similar(request[r].title),
             request' = [request EXCEPT ![r].pc = "insert", ![r].product = p]
      PROVE  StepIsRight
  <2>1. p \in Products
    BY <1>0 DEF Similar, TypeOK
  <2>2. /\ request' \in [Requests -> Locals \cup {Idle}]
        /\ request'[r].pc = "insert" /\ request'[r].product = p
        /\ \A q \in Requests \ {r} : request'[q] = request[q]
    BY <1>0, <1>1, <2>1, TakesProduct DEF Pcs
  <2>3. Carries(r) /\ ChoosesAlone(r)
    BY <2>1, <2>2 DEF Carries, ChoosesAlone, HoldsRow, At
  <2> QED
    BY <1>0, <2>2, <2>3, StayStep DEF Search, TypeOK
<1>2. CASE Goto(r, "product")
  BY <1>0, <1>2, GotoStep DEF Search, Pcs
<1> QED
  BY <1>1, <1>2 DEF Search

LEMMA CreateProductStep ==
  ASSUME SellInv, NEW r \in Requests, CreateProduct(r)
  PROVE  StepIsRight
<1> USE DEF counters
<1>0. TypeOK /\ Busy(r) /\ request[r].pc = "product"
  BY DEF SellInv, CreateProduct, At
<1>1. PICK p \in Products :
        /\ catalog' = catalog \cup {p}
        /\ request' = [request EXCEPT ![r].pc = "insert", ![r].product = p]
  BY DEF CreateProduct
<1>2. /\ request' \in [Requests -> Locals \cup {Idle}]
      /\ request'[r].pc = "insert" /\ request'[r].product = p
      /\ \A q \in Requests \ {r} : request'[q] = request[q]
  <2>1. "insert" \in Pcs
    BY DEF Pcs
  <2> QED
    BY ONLY <1>0, <1>1, <2>1, TakesProduct, r \in Requests, p \in Products
<1>3. Carries(r) /\ ChoosesAlone(r)
  BY <1>2 DEF Carries, ChoosesAlone, HoldsRow, At
<1>4. catalog' \subseteq Products
  BY <1>0, <1>1 DEF TypeOK
<1> QED
  BY <1>0, <1>2, <1>3, <1>4, StayStep DEF CreateProduct, TypeOK

LEMMA JudgeStep ==
  ASSUME SellInv, NEW r \in Requests,
         \/ CheckQuality(r) \/ ResolveStock(r) \/ EvaluatePrepared(r)
         \/ EnqueueRead(r) \/ EnqueueGate(r) \/ ClaimGate(r) \/ Fail(r)
  PROVE  StepIsRight
<1> USE DEF external, counters
<1>0. TypeOK
  BY DEF SellInv
<1>1. CASE CheckQuality(r)
  <2>1. CASE End(r)
    BY <1>0, <1>1, <2>1, EndStep DEF CheckQuality, TypeOK
  <2>2. CASE request[r].job = "prepare" /\ Goto(r, "stock")
    BY <1>1, <2>2, GotoStep DEF CheckQuality, At, Pcs
  <2>3. CASE request[r].job # "prepare" /\ Goto(r, "enqueue")
    BY <1>1, <2>3, GotoStep DEF CheckQuality, At, Pcs, HoldsRow
  <2> QED
    BY <1>1, <2>1, <2>2, <2>3 DEF CheckQuality
<1>2. CASE ResolveStock(r)
  BY <1>2, GotoStep DEF ResolveStock, At, Pcs
<1>3. CASE EvaluatePrepared(r)
  <2>1. request[r].ad \in AdIds \cup {NoAd}
    BY <1>0, <1>3, Fields DEF EvaluatePrepared, At
  <2>2. prepared' \in Answer
    BY <1>3, <2>1 DEF EvaluatePrepared, Answer, CanQueueAfterConfirmation
  <2> QED
    BY <1>0, <1>3, <2>2, EndStep DEF EvaluatePrepared, TypeOK
<1>4. CASE EnqueueRead(r)
  <2>1. CASE End(r)
    BY <1>0, <1>4, <2>1, EndStep DEF EnqueueRead, TypeOK
  <2>2. ASSUME NEW renews \in BOOLEAN,
               request' = [request EXCEPT ![r].pc = "gate", ![r].renews = renews]
        PROVE  StepIsRight
    <3>1. Busy(r) /\ request[r].pc = "enqueue"
      BY <1>4 DEF EnqueueRead, At
    <3>2. /\ request' \in [Requests -> Locals \cup {Idle}]
          /\ request'[r].pc = "gate"
          /\ request'[r].product = request[r].product
          /\ request'[r].ad = request[r].ad
          /\ \A q \in Requests \ {r} : request'[q] = request[q]
      BY <1>0, <2>2, <3>1, Renews
    <3>3. Carries(r) /\ ChoosesAlone(r)
      BY <3>1, <3>2
         DEF Carries, ChoosesAlone, At, HoldsRow, SellInv, CarriesProduct,
             CarriesRow
    <3> QED
      BY <1>0, <1>4, <3>2, <3>3, StayStep DEF EnqueueRead, TypeOK
  <2> QED
    BY <1>4, <2>1, <2>2 DEF EnqueueRead
<1>5. CASE EnqueueGate(r)
  <2>1. CASE End(r)
    BY <1>0, <1>5, <2>1, EndStep DEF EnqueueGate, TypeOK
  <2>2. CASE Goto(r, "queue")
    BY <1>5, <2>2, GotoStep DEF EnqueueGate, At, Pcs, HoldsRow
  <2> QED
    BY <1>5, <2>1, <2>2 DEF EnqueueGate
<1>6. CASE ClaimGate(r)
  <2>1. CASE /\ Failures(request[r].product, request[r].ad, TRUE) = {}
             /\ Goto(r, "submit")
    <3>1. Duplicates(request[r].product, request[r].ad) = {}
      BY <2>1 DEF Failures
    <3> QED
      BY <1>6, <2>1, <3>1, GotoStep DEF ClaimGate, At, Pcs, HoldsRow
  <2>2. CASE Goto(r, "block")
    BY <1>6, <2>2, GotoStep DEF ClaimGate, At, Pcs, HoldsRow
  <2> QED
    BY <1>6, <2>1, <2>2 DEF ClaimGate
<1>7. CASE Fail(r)
  BY <1>0, <1>7, EndStep DEF Fail, TypeOK
<1> QED
  BY <1>1, <1>2, <1>3, <1>4, <1>5, <1>6, <1>7

LEMMA FindDraftStep ==
  ASSUME SellInv, NEW r \in Requests, FindDraft(r)
  PROVE  StepIsRight
<1> USE DEF external, counters
<1>0. TypeOK /\ Busy(r) /\ request[r].pc = "find"
  BY DEF SellInv, FindDraft, At
<1>1. CASE Goto(r, "insert")
  BY <1>0, <1>1, GotoStep DEF FindDraft, Pcs
<1>2. ASSUME NEW n \in AdsOf(request[r].product),
             request' = [request EXCEPT ![r].pc = "update", ![r].ad = n]
      PROVE  StepIsRight
  <2>1. n \in AdIds /\ Exists(n) /\ ad[n].product = request[r].product
    BY DEF AdsOf, Exists
  <2>2. /\ request' \in [Requests -> Locals \cup {Idle}]
        /\ request'[r].pc = "update"
        /\ request'[r].product = request[r].product
        /\ request'[r].ad = n
        /\ \A q \in Requests \ {r} : request'[q] = request[q]
    BY <1>0, <1>2, <2>1, TakesRow DEF Pcs
  <2>3. Carries(r) /\ ChoosesAlone(r)
    BY <1>0, <2>1, <2>2
       DEF Carries, ChoosesAlone, At, SellInv, CarriesProduct
  <2> QED
    BY <1>0, <2>2, <2>3, StayStep DEF FindDraft, TypeOK
<1> QED
  BY <1>1, <1>2 DEF FindDraft

\* A new row is a draft without an attempt.
LEMMA InsertRows ==
  ASSUME SellInv, NEW n \in AdIds, NEW p \in Products, Insert(n, p),
         attempt' = attempt
  PROVE  /\ ad' \in [AdIds -> AdRow]
         /\ RowsStay
         /\ Exists(n)' /\ ad'[n].product = p
         /\ \A m \in AdIds : Listed(m)' => Listed(m)
<1> DEFINE row == [status |-> "draft", product |-> p, active |-> TRUE,
                   listed |-> FALSE]
<1>1. row \in AdRow
  BY DEF AdRow, Statuses, Reusable
<1>2. ad' = [ad EXCEPT ![n] = row] /\ ~Exists(n)
  BY DEF Insert, NewAd, Exists
<1>3. row.status = "draft" /\ row.product = p /\ ~row.listed
  OBVIOUS
<1> HIDE DEF row
<1>4. ad' \in [AdIds -> AdRow] /\ ad'[n] = row
      /\ \A m \in AdIds \ {n} : ad'[m] = ad[m]
  BY <1>1, <1>2 DEF SellInv, TypeOK
<1>5. RowsStay
  BY <1>2, <1>3, <1>4
     DEF RowsStay, Exists, Listed, SellInv, AttemptExists
<1> QED
  BY <1>3, <1>4, <1>5 DEF Exists, Listed

LEMMA InsertDraftStep ==
  ASSUME SellInv, NEW r \in Requests, InsertDraft(r)
  PROVE  StepIsRight
<1> USE DEF external, counters
<1>0. TypeOK /\ Busy(r) /\ request[r].pc = "insert"
  BY DEF SellInv, InsertDraft, At
<1>1. request[r].product \in Products
  BY <1>0 DEF SellInv, CarriesProduct
<1>2. ad' \in [AdIds -> AdRow] /\ RowsStay /\ ListedBy(r)
  BY <1>1, InsertRows DEF InsertDraft, ListedBy
<1>3. /\ request' \in [Requests -> Locals \cup {Idle}] /\ ~Busy(r)'
      /\ \A q \in Requests \ {r} : request'[q] = request[q]
  BY <1>0, EndMoves DEF InsertDraft
<1>4. Carries(r) /\ ChoosesAlone(r)
  BY <1>3 DEF Carries, ChoosesAlone, HoldsRow, At
<1>5. TypeOK'
  BY <1>0, <1>2, <1>3 DEF InsertDraft, TypeOK
<1> QED
  BY <1>2, <1>3, <1>4, <1>5, InvStep

LEMMA PrepareInsertStep ==
  ASSUME SellInv, NEW r \in Requests, PrepareInsert(r)
  PROVE  StepIsRight
<1> USE DEF external, counters
<1>0. TypeOK /\ Busy(r) /\ request[r].pc = "insert"
  BY DEF SellInv, PrepareInsert, At
<1>1. request[r].product \in Products
  BY <1>0 DEF SellInv, CarriesProduct
<1>2. PICK n \in AdIds :
        /\ Insert(n, request[r].product)
        /\ request' = [request EXCEPT ![r].pc = "evaluate", ![r].ad = n]
  BY DEF PrepareInsert
<1>3. ad' \in [AdIds -> AdRow] /\ RowsStay /\ ListedBy(r)
  BY <1>1, <1>2, InsertRows DEF PrepareInsert, ListedBy
<1>4. /\ request' \in [Requests -> Locals \cup {Idle}]
      /\ request'[r].pc = "evaluate"
      /\ request'[r].product = request[r].product
      /\ \A q \in Requests \ {r} : request'[q] = request[q]
  BY <1>0, <1>2, TakesRow DEF Pcs
<1>5. Carries(r) /\ ChoosesAlone(r)
  BY <1>1, <1>4 DEF Carries, ChoosesAlone, HoldsRow, At
<1>6. TypeOK'
  BY <1>0, <1>3, <1>4 DEF PrepareInsert, TypeOK
<1> QED
  BY <1>3, <1>4, <1>5, <1>6, InvStep

\* A write of a row that exists.
LEMMA WrittenRows ==
  ASSUME SellInv, NEW n \in AdIds, Exists(n),
         NEW row \in AdRow, row.status # "absent",
         row.product = ad[n].product, ad' = [ad EXCEPT ![n] = row]
  PROVE  /\ ad' \in [AdIds -> AdRow] /\ ad'[n] = row
         /\ \A m \in AdIds : /\ ad'[m].product = ad[m].product
                             /\ Exists(m)' = Exists(m)
                             /\ m # n => ad'[m] = ad[m]
<1>1. /\ ad' \in [AdIds -> AdRow] /\ ad'[n] = row
      /\ \A m \in AdIds \ {n} : ad'[m] = ad[m]
  BY DEF SellInv, TypeOK
<1> QED
  BY <1>1 DEF Exists

LEMMA RewriteDraftStep ==
  ASSUME SellInv, NEW r \in Requests, RewriteDraft(r)
  PROVE  StepIsRight
<1> USE DEF external, counters
<1>0. TypeOK /\ Busy(r) /\ request[r].pc = "update"
  BY DEF SellInv, RewriteDraft, At
<1>1. request[r].ad \in AdIds /\ Exists(request[r].ad)
      /\ request[r].product \in Products
  BY <1>0 DEF SellInv, CarriesRow, HoldsRow, CarriesProduct
<1> DEFINE n == request[r].ad
           row == [ad[n] EXCEPT !.status = "draft", !.listed = FALSE]
<1>2. /\ row \in AdRow /\ row.product = ad[n].product
      /\ row.status = "draft" /\ ~row.listed /\ ad' = [ad EXCEPT ![n] = row]
  BY <1>0, <1>1 DEF RewriteDraft, TypeOK, AdRow, Statuses, Reusable
<1> HIDE DEF row
<1>6. /\ ad' \in [AdIds -> AdRow] /\ ad'[n] = row
      /\ \A m \in AdIds :
           /\ ad'[m].product = ad[m].product /\ Exists(m)' = Exists(m)
           /\ m # n => ad'[m] = ad[m]
  BY <1>1, <1>2, WrittenRows
<1>3. RowsStay /\ ListedBy(r)
  BY <1>2, <1>6 DEF RewriteDraft, RowsStay, ListedBy, Listed, SellInv,
              AttemptExists, Exists
<1>4. /\ request' \in [Requests -> Locals \cup {Idle}]
      /\ request'[r].pc = "evaluate"
      /\ request'[r].product = request[r].product
      /\ \A q \in Requests \ {r} : request'[q] = request[q]
  BY <1>0, GotoMoves DEF RewriteDraft, Pcs
<1>5. Carries(r) /\ ChoosesAlone(r)
  BY <1>1, <1>4 DEF Carries, ChoosesAlone, HoldsRow, At
<1>7. TypeOK'
  BY <1>0, <1>6, <1>4 DEF RewriteDraft, TypeOK
<1> QED
  BY <1>3, <1>4, <1>5, <1>7, InvStep

LEMMA EnqueueWriteStep ==
  ASSUME SellInv, NEW r \in Requests, EnqueueWrite(r)
  PROVE  StepIsRight
<1> USE DEF external, counters
<1>0. TypeOK /\ Busy(r) /\ request[r].pc = "queue"
  BY DEF SellInv, EnqueueWrite, At
<1>1. request[r].ad \in AdIds /\ Exists(request[r].ad)
  BY <1>0 DEF SellInv, CarriesRow, HoldsRow
<1> DEFINE n == request[r].ad
           listed == ad[n].listed /\ ~request[r].renews
           row == [ad[n] EXCEPT !.status = "queued", !.listed = listed]
<1>8. ad[n] \in AdRow /\ request[r] \in Locals
  BY <1>0, <1>1, Fields DEF TypeOK
<1>9. row \in AdRow /\ row.product = ad[n].product /\ row.status = "queued"
      /\ (row.listed => ad[n].listed)
  BY <1>8 DEF AdRow, Statuses, Reusable, Locals
<1>10. ad' = [ad EXCEPT ![n] = row]
  BY <1>0, <1>1 DEF EnqueueWrite, TypeOK
<1> HIDE DEF row
<1>2. /\ ad' \in [AdIds -> AdRow] /\ ad'[n] = row
      /\ \A m \in AdIds :
           /\ ad'[m].product = ad[m].product /\ Exists(m)' = Exists(m)
           /\ m # n => ad'[m] = ad[m]
  BY <1>1, <1>9, <1>10, WrittenRows
<1>3. /\ attempt' \in [AdIds -> {"none", "queued", "submitting"}]
      /\ \A m \in AdIds : /\ attempt'[m] = "submitting" => attempt[m] = attempt'[m]
                          /\ m # request[r].ad => attempt'[m] = attempt[m]
  BY <1>0, <1>1 DEF EnqueueWrite, TypeOK
<1>4. RowsStay /\ ListedBy(r)
  BY <1>1, <1>2, <1>3, <1>9
     DEF RowsStay, ListedBy, Listed, SellInv, AttemptExists, Exists
<1>5. /\ request' \in [Requests -> Locals \cup {Idle}] /\ ~Busy(r)'
      /\ \A q \in Requests \ {r} : request'[q] = request[q]
  BY <1>0, EndMoves DEF EnqueueWrite
<1>6. Carries(r) /\ ChoosesAlone(r)
  BY <1>5 DEF Carries, ChoosesAlone, HoldsRow, At
<1>7. TypeOK'
  BY <1>0, <1>2, <1>3, <1>5 DEF EnqueueWrite, TypeOK
<1> QED
  BY <1>4, <1>5, <1>6, <1>7, InvStep

LEMMA ClaimWriteStep ==
  ASSUME SellInv, NEW r \in Requests, ClaimWrite(r)
  PROVE  StepIsRight
<1> USE DEF external, counters
<1> DEFINE n == request[r].ad
           status == IF request[r].pc = "submit" THEN "publishing"
                     ELSE "blocked_policy"
<1>0. TypeOK /\ Busy(r) /\ request[r].pc \in {"submit", "block"}
  BY DEF SellInv, ClaimWrite, At
<1>1. n \in AdIds /\ Exists(n)
  BY <1>0 DEF SellInv, CarriesRow, HoldsRow
<1>2. status \in Statuses \ {"absent"}
  BY DEF Statuses, Reusable
<1> DEFINE row == [ad[n] EXCEPT !.status = status]
<1>3. /\ row \in AdRow /\ row.product = ad[n].product /\ row.status = status
      /\ row.listed = ad[n].listed /\ ad' = [ad EXCEPT ![n] = row]
  BY <1>0, <1>1, <1>2 DEF ClaimWrite, TypeOK, AdRow
<1>4. /\ attempt' \in [AdIds -> {"none", "queued", "submitting"}]
      /\ attempt'[n] = "submitting" => request[r].pc = "submit"
      /\ \A m \in AdIds : m # n => attempt'[m] = attempt[m]
  BY <1>0, <1>1 DEF ClaimWrite, TypeOK
<1>5. status = "publishing" => request[r].pc = "submit"
  OBVIOUS
<1>6. status # "published"
  OBVIOUS
<1> HIDE DEF status, row
<1>7. /\ ad' \in [AdIds -> AdRow] /\ ad'[n] = row
      /\ \A m \in AdIds : /\ ad'[m].product = ad[m].product
                          /\ Exists(m)' = Exists(m)
                          /\ m # n => ad'[m] = ad[m]
  BY <1>1, <1>2, <1>3, WrittenRows
<1>8. RowsStay /\ ListedBy(r)
  BY <1>0, <1>1, <1>3, <1>4, <1>5, <1>6, <1>7
     DEF RowsStay, ListedBy, Listed, SellInv, AttemptExists, Exists, At
<1>9. /\ request' \in [Requests -> Locals \cup {Idle}] /\ ~Busy(r)'
      /\ \A q \in Requests \ {r} : request'[q] = request[q]
  BY <1>0, EndMoves DEF ClaimWrite
<1>10. Carries(r) /\ ChoosesAlone(r)
  BY <1>9 DEF Carries, ChoosesAlone, HoldsRow, At
<1>11. TypeOK'
  BY <1>0, <1>4, <1>7, <1>9 DEF ClaimWrite, TypeOK
<1> QED
  BY <1>8, <1>9, <1>10, <1>11, InvStep

\* Steps of no request: rows keep their product and none becomes listed.
LEMMA QuietStep ==
  ASSUME SellInv, TypeOK', request' = request, RowsStay,
         \A n \in AdIds : Listed(n)' => Listed(n)
  PROVE  StepIsRight
<1>1. RowsHaveProduct'
  BY DEF SellInv, RowsHaveProduct, RowsStay, Exists
<1>2. CarriesProduct' /\ CarriesRow'
  BY DEF SellInv, CarriesProduct, CarriesRow, HoldsRow, Busy, RowsStay, Exists
<1>3. AttemptExists'
  BY DEF AttemptExists, RowsStay, Exists
<1>4. \A n \in AdIds : Chosen(n)' => Chosen(n)
  BY DEF Chosen, At, Busy
<1> QED
  BY <1>1, <1>2, <1>3, <1>4 DEF SellInv, StepIsRight

LEMMA ResultStep ==
  ASSUME SellInv, NEW n \in AdIds, Result(n)
  PROVE  StepIsRight
<1> USE DEF external, counters
<1>0. TypeOK /\ attempt[n] = "submitting" /\ Exists(n)
  BY DEF SellInv, Result, AttemptExists
<1>1. PICK status \in {"published", "failed", "challenge"} :
        ad' = [ad EXCEPT ![n].status = status,
                         ![n].listed = @ \/ status = "published"]
  BY DEF Result
<1> DEFINE listed == ad[n].listed \/ status = "published"
           row == [ad[n] EXCEPT !.status = status, !.listed = listed]
<1>2. ad[n] \in AdRow
  BY <1>0 DEF TypeOK
<1>3. row \in AdRow /\ row.product = ad[n].product /\ row.status = status
  BY <1>2 DEF AdRow, Statuses, Reusable
<1>4. ad' = [ad EXCEPT ![n] = row]
  BY <1>0, <1>1 DEF TypeOK
<1> HIDE DEF row
<1>5. /\ ad' \in [AdIds -> AdRow]
      /\ \A m \in AdIds : /\ ad'[m].product = ad[m].product
                          /\ Exists(m)' = Exists(m)
                          /\ m # n => ad'[m] = ad[m]
  BY <1>0, <1>3, <1>4, WrittenRows
<1>6. attempt' = [attempt EXCEPT ![n] = "none"]
  BY DEF Result
<1>7. RowsStay /\ \A m \in AdIds : Listed(m)' => Listed(m)
  BY <1>0, <1>5, <1>6
     DEF RowsStay, Listed, SellInv, AttemptExists, TypeOK, Exists
<1>8. TypeOK'
  BY <1>0, <1>5, <1>6 DEF Result, TypeOK
<1> QED
  BY <1>7, <1>8, QuietStep DEF Result

LEMMA TurnStep ==
  ASSUME SellInv, NEW n \in AdIds, Withdraw(n) \/ Restore(n)
  PROVE  StepIsRight
<1> USE DEF external
<1>0. TypeOK /\ Turn(n) /\ Exists(n) /\ ad[n] \in AdRow
  BY DEF SellInv, TypeOK, Withdraw, Restore, Turn
<1>1. PICK active \in BOOLEAN, status \in {ad[n].status, "deleted", "draft"} :
        ad' = [ad EXCEPT ![n].active = active, ![n].status = status]
  BY DEF Withdraw, Restore
<1> DEFINE row == [ad[n] EXCEPT !.active = active, !.status = status]
<1>2. /\ row \in AdRow /\ row.product = ad[n].product
      /\ row.status = status /\ row.listed = ad[n].listed
  BY <1>0, <1>1 DEF AdRow, Statuses, Reusable
<1>3. status # "absent"
  BY <1>0 DEF Exists
<1>4. ad' = [ad EXCEPT ![n] = row]
  BY <1>0, <1>1 DEF TypeOK
<1> HIDE DEF row
<1>5. /\ ad' \in [AdIds -> AdRow] /\ ad'[n] = row
      /\ \A m \in AdIds : /\ ad'[m].product = ad[m].product
                          /\ Exists(m)' = Exists(m)
                          /\ m # n => ad'[m] = ad[m]
  BY <1>0, <1>2, <1>3, <1>4, WrittenRows
<1>6. attempt' = attempt /\ request' = request
  BY <1>0 DEF Turn
<1>7. \A m \in AdIds : Listed(m)' => Listed(m)
  BY <1>1, <1>2, <1>5, <1>6 DEF Listed
<1>8. RowsStay
  BY <1>0, <1>2, <1>5, <1>6 DEF RowsStay, Listed, SellInv, AttemptExists, Exists
<1>9. TypeOK'
  BY <1>0, <1>5, <1>6 DEF Turn, Change, TypeOK
<1> QED
  BY <1>6, <1>7, <1>8, <1>9, QuietStep

\* Nothing an invariant is about changes.
LEMMA UnseenStep ==
  ASSUME SellInv, TypeOK', UNCHANGED <<ad, attempt, request>>
  PROVE  StepIsRight
<1>1. RowsStay /\ \A n \in AdIds : Listed(n)' => Listed(n)
  BY DEF RowsStay, Listed, SellInv, AttemptExists, Exists
<1> QED
  BY <1>1, QuietStep

LEMMA ChangeStep ==
  ASSUME SellInv, NEW p \in Products, ChangeProduct(p)
  PROVE  StepIsRight
<1>1. TypeOK'
  BY DEF SellInv, TypeOK, ChangeProduct, Change
<1> QED
  BY <1>1, UnseenStep DEF ChangeProduct

LEMMA NextIsRight == SellInv /\ [Next]_vars => StepIsRight
<1> SUFFICES ASSUME SellInv, [Next]_vars PROVE StepIsRight
  OBVIOUS
<1>1. ASSUME NEW r \in Requests, NEW t \in Titles, CreateDraft(r, t)
      PROVE  StepIsRight
  BY <1>1, CreateDraftStep
<1>2. ASSUME NEW r \in Requests, NEW p \in Products, Prepare(r, p)
      PROVE  StepIsRight
  BY <1>2, PrepareStep
<1>3. ASSUME NEW r \in Requests, NEW n \in AdIds, Confirm(r, n) \/ Claim(r, n)
      PROVE  StepIsRight
  BY <1>3, ConfirmStep, ClaimStep
<1>4. ASSUME NEW r \in Requests, Handle(r)
      PROVE  StepIsRight
  BY <1>4, SearchStep, CreateProductStep, InsertDraftStep, JudgeStep,
     FindDraftStep, RewriteDraftStep, PrepareInsertStep, EnqueueWriteStep,
     ClaimWriteStep DEF Handle
<1>5. ASSUME NEW n \in AdIds, Result(n) \/ Withdraw(n) \/ Restore(n)
      PROVE  StepIsRight
  BY <1>5, ResultStep, TurnStep
<1>6. ASSUME NEW p \in Products, ChangeProduct(p) PROVE StepIsRight
  BY <1>6, ChangeStep
<1>7. CASE UNCHANGED vars
  <2>1. TypeOK'
    BY <1>7 DEF SellInv, TypeOK, vars, external, counters, Busy
  <2> QED
    BY <1>7, <2>1, UnseenStep DEF vars
<1> QED
  BY <1>1, <1>2, <1>3, <1>4, <1>5, <1>6, <1>7 DEF Next

LEMMA NextInv == SellInv /\ [Next]_vars => SellInv'
BY NextIsRight DEF StepIsRight

LEMMA Invariance == Spec => []SellInv
BY InitInv, NextInv, PTL DEF Spec

-----------------------------------------------------------------------------
(***************************************************************************)
(* The theorems.                                                           *)
(***************************************************************************)
\* Rows and requests keep their types, whatever overlaps or fails.
THEOREM TypeCorrect == Spec => []TypeOK
<1>1. SellInv => TypeOK
  BY DEF SellInv
<1> QED
  BY <1>1, Invariance, PTL

\* A set whose members are equal has at most one.
LEMMA AtMostOne ==
  ASSUME NEW S, \A x, y \in S : x = y
  PROVE  Cardinality(S) <= 1
<1>1. CASE S = {}
  BY <1>1, FS_EmptySet
<1>2. ASSUME NEW x \in S PROVE Cardinality(S) <= 1
  <2>1. S = {x}
    OBVIOUS
  <2> QED
    BY <2>1, FS_Singleton
<1> QED
  BY <1>1, <1>2

-----------------------------------------------------------------------------
(***************************************************************************)
(* Listings: a claim passes its gates because no other row of the product  *)
(* is on sale; one that exists and is off sale goes into `overlooked`.     *)
(***************************************************************************)
ListedInv == SellInv /\ ChosenAlone

LEMMA InitListed == SellInit => ListedInv
<1> SUFFICES ASSUME SellInit PROVE ListedInv
  OBVIOUS
<1>1. Init /\ SellInv
  BY InitInv DEF SellInit
<1>2. \A n \in AdIds : ~Chosen(n)
  BY <1>1 DEF Init, Chosen, Listed, At, Busy
<1> QED
  BY <1>1, <1>2 DEF ListedInv, ChosenAlone

\* What is chosen exists.
LEMMA ChosenExists ==
  ASSUME SellInv, NEW n \in AdIds, Chosen(n)
  PROVE  Exists(n)
BY DEF Chosen, Listed, SellInv, AttemptExists, CarriesRow, HoldsRow, At, Exists

LEMMA OverlooksOthers ==
  ASSUME NEW r \in Requests, NEW n \in AdIds, NEW m \in AdIds,
         ChosenBy(r, n), Exists(m), m # n, ad[m].product = ad[n].product
  PROVE  <<n, m>> \in Overlooks
<1>1. ~ad[m].active
  BY DEF ChosenBy, Duplicates, AdsOf
<1> QED
  BY <1>1 DEF ChosenBy, Overlooks

LEMMA ChosenStep ==
  ASSUME ListedInv, StepIsRight, overlooked \cup Overlooks \subseteq overlooked'
  PROVE  ChosenAlone'
<1> SUFFICES ASSUME NEW n \in AdIds, NEW m \in AdIds, n # m,
                    Chosen(n)', Chosen(m)', ad'[n].product = ad'[m].product
             PROVE  <<n, m>> \in overlooked' \/ <<m, n>> \in overlooked'
  BY DEF ChosenAlone
<1>0. \A k \in AdIds : Chosen(k)' => Chosen(k) \/ \E r \in Requests : ChosenBy(r, k)
  BY DEF StepIsRight
<1>1. Exists(n) /\ Exists(m)
  BY <1>0, ChosenExists DEF ListedInv, ChosenBy
<1>2. ad[n].product = ad[m].product
  BY <1>1 DEF StepIsRight, RowsStay
<1>3. CASE Chosen(n) /\ Chosen(m)
  BY <1>2, <1>3 DEF ListedInv, ChosenAlone
<1>4. CASE \E r \in Requests : ChosenBy(r, n)
  BY <1>1, <1>2, <1>4, OverlooksOthers
<1>5. CASE \E r \in Requests : ChosenBy(r, m)
  BY <1>1, <1>2, <1>5, OverlooksOthers
<1> QED
  BY <1>0, <1>3, <1>4, <1>5

LEMMA NextListed == ListedInv /\ [SellNext]_<<vars, histories>> => ListedInv'
<1> SUFFICES ASSUME ListedInv, [SellNext]_<<vars, histories>> PROVE ListedInv'
  OBVIOUS
<1>1. SellInv /\ [Next]_vars
  BY DEF ListedInv, SellNext
<1>2. overlooked \cup Overlooks \subseteq overlooked'
  <2>1. CASE SellNext
    BY <2>1 DEF SellNext
  <2>2. CASE UNCHANGED <<vars, histories>>
    <3>1. request' = request /\ overlooked' = overlooked
      BY <2>2 DEF vars, histories
    <3>2. \A r \in Requests : ~PassesClaim(r)
      BY <3>1 DEF PassesClaim, At
    <3>3. Overlooks = {}
      BY <3>2 DEF Overlooks
    <3> QED
      BY <3>1, <3>3
  <2> QED
    BY <2>1, <2>2
<1> QED
  BY <1>1, <1>2, NextIsRight, ChosenStep DEF ListedInv, StepIsRight

\* However creations, preparations, confirmations, claims and withdrawals
\* overlap and fail, two ads of a product are submitted or listed on Bazos
\* together only if one was off sale when the claim of the other passed its
\* gates, which look at active ads alone.
THEOREM ListedOnce == SellSpec => []OneListingPerProduct
<1>1. ListedInv => OneListingPerProduct
  BY DEF ListedInv, ChosenAlone, Chosen, OneListingPerProduct
<1> QED
  BY <1>1, InitListed, NextListed, PTL DEF SellSpec

-----------------------------------------------------------------------------
(***************************************************************************)
(* One product of a title, until requests overlap, see SellActionMC.  A    *)
(* request that is about to create a product found none, and is alone.     *)
(***************************************************************************)
Served == {r \in Requests : Busy(r)}

OneSimilar == \A t \in Titles : \A p, q \in Similar(t) : p = q

FoundNone == \A r \in Requests : At(r, "product") => Similar(request[r].title) = {}

AloneInv ==
  /\ SellInv
  /\ IsFiniteSet(Served)
  /\ ~overlapped => Running <= 1 /\ OneSimilar /\ FoundNone

LEMMA OtherRequestsStay ==
  ASSUME TypeOK, [Next]_vars
  PROVE  \/ request' = request
         \/ \E r \in Requests : \A q \in Requests \ {r} : request'[q] = request[q]
<1>1. ASSUME NEW r \in Requests, Handle(r)
      PROVE  \A q \in Requests \ {r} : request'[q] = request[q]
  BY <1>1
     DEF Handle, Search, CreateProduct, InsertDraft, CheckQuality, ResolveStock,
         FindDraft, RewriteDraft, PrepareInsert, EvaluatePrepared, EnqueueRead,
         EnqueueGate, EnqueueWrite, ClaimGate, ClaimWrite, Fail, Goto, End,
         TypeOK
<1>2. ASSUME NEW r \in Requests, NEW job, NEW pc, NEW t, NEW p, NEW n,
             Start(r, job, pc, t, p, n)
      PROVE  \A q \in Requests \ {r} : request'[q] = request[q]
  BY <1>2 DEF Start, TypeOK
<1> QED
  BY <1>1, <1>2
     DEF Next, vars, CreateDraft, Prepare, Confirm, Claim, Result, Turn, Withdraw, Restore,
         ChangeProduct

LEMMA ServedStep ==
  ASSUME TypeOK, IsFiniteSet(Served), [Next]_vars
  PROVE  IsFiniteSet(Served')
<1>1. ASSUME NEW r \in Requests, \A q \in Requests \ {r} : request'[q] = request[q]
      PROVE  IsFiniteSet(Served')
  <2>1. Served' \subseteq Served \cup {r}
    BY <1>1 DEF Served, Busy
  <2>2. IsFiniteSet(Served \cup {r})
    BY FS_AddElement
  <2> QED
    BY <2>1, <2>2, FS_Subset
<1>2. ASSUME request' = request PROVE IsFiniteSet(Served')
  BY <1>2 DEF Served, Busy
<1> QED
  BY <1>1, <1>2, OtherRequestsStay

LEMMA NobodyElse ==
  ASSUME IsFiniteSet(Served), Running <= 1, NEW r \in Requests, Busy(r),
         NEW q \in Requests, Busy(q)
  PROVE  q = r
<1>1. Cardinality(Served) \in Nat /\ Cardinality(Served) <= 1 /\ r \in Served
  BY FS_CardinalityType DEF Running, Served
<1>2. Cardinality(Served) # 0
  BY <1>1, FS_EmptySet
<1>3. PICK x : Served = {x}
  BY <1>1, <1>2, FS_Singleton
<1> QED
  BY <1>1, <1>3 DEF Served

\* Only CreateProduct adds to Catalog, and only Search sends there.
LEMMA CatalogStays ==
  ASSUME TypeOK, [Next]_vars
  PROVE  \/ catalog' = catalog
         \/ \E r \in Requests : CreateProduct(r)
BY DEF Next, vars, external, counters, CreateDraft, Prepare, Confirm, Claim,
       Start, Result, Turn, Withdraw, Restore, ChangeProduct, Handle, Search, InsertDraft, CheckQuality,
       ResolveStock, FindDraft, RewriteDraft, PrepareInsert, EvaluatePrepared,
       EnqueueRead, EnqueueGate, EnqueueWrite, ClaimGate, ClaimWrite, Fail

LEMMA ComesFromSearch ==
  ASSUME TypeOK, [Next]_vars, NEW q \in Requests, At(q, "product")'
  PROVE  \/ request'[q] = request[q]
         \/ /\ Busy(q) /\ Similar(request[q].title) = {}
            /\ request'[q].title = request[q].title /\ catalog' = catalog
<1>0. request' \in [Requests -> Locals \cup {Idle}] => request'[q].pc = "product"
  BY DEF At
<1>1. ASSUME NEW r \in Requests, Handle(r), r = q
      PROVE  /\ Busy(q) /\ Similar(request[q].title) = {}
             /\ request'[q].title = request[q].title /\ catalog' = catalog
  <2>1. Busy(q) => request[q] \in Locals
    BY DEF TypeOK, Busy
  <2>2. CASE Search(q)
    <3>1. Busy(q) /\ request[q] \in Locals /\ catalog' = catalog
      BY <2>1, <2>2 DEF Search, At, external
    <3>2. ASSUME NEW p \in Similar(request[q].title),
                 request' = [request EXCEPT ![q].pc = "insert", ![q].product = p]
          PROVE  FALSE
      BY <3>1, <3>2 DEF TypeOK, At, Locals
    <3>3. Similar(request[q].title) = {} /\ Goto(q, "product")
      BY <2>2, <3>2 DEF Search
    <3> QED
      BY <3>1, <3>3 DEF Goto, TypeOK, Locals
  <2>3. ASSUME End(q) PROVE FALSE
    BY <2>3, EndMoves DEF At
  <2>4. ASSUME Busy(q), NEW pc \in Pcs \ {"product"}, Goto(q, pc) PROVE FALSE
    BY <2>4, GotoMoves DEF At
  <2>5. ASSUME Busy(q), NEW pc \in Pcs \ {"product"}, NEW p \in Products,
               request' = [request EXCEPT ![q].pc = pc, ![q].product = p]
        PROVE  FALSE
    BY <2>5, TakesProduct DEF At
  <2>6. ASSUME Busy(q), NEW pc \in Pcs \ {"product"}, NEW n \in AdIds,
               request' = [request EXCEPT ![q].pc = pc, ![q].ad = n]
        PROVE  FALSE
    BY <2>6, TakesRow DEF At
  <2>7. ~CreateProduct(q)
    <3>1. ASSUME CreateProduct(q)
          PROVE  \E p \in Products :
                   request' = [request EXCEPT ![q].pc = "insert", ![q].product = p]
      BY <3>1 DEF CreateProduct
    <3> QED
      BY <3>1, <2>5 DEF CreateProduct, At, Pcs
  <2>8. ~PrepareInsert(q)
    BY <2>6 DEF PrepareInsert, At, Pcs
  <2>9. ~FindDraft(q)
    BY <2>4, <2>6 DEF FindDraft, AdsOf, At, Pcs
  <2>10. ~InsertDraft(q) /\ ~EvaluatePrepared(q) /\ ~EnqueueWrite(q)
         /\ ~ClaimWrite(q) /\ ~Fail(q)
    BY <2>3 DEF InsertDraft, EvaluatePrepared, EnqueueWrite, ClaimWrite, Fail
  <2>11. ~CheckQuality(q) /\ ~ResolveStock(q) /\ ~RewriteDraft(q)
         /\ ~EnqueueGate(q) /\ ~ClaimGate(q)
    BY <2>3, <2>4
       DEF CheckQuality, ResolveStock, RewriteDraft, EnqueueGate, ClaimGate, At,
           Pcs
  <2>12. ~EnqueueRead(q)
    <3>1. ASSUME Busy(q), NEW renews \in BOOLEAN,
                 request' = [request EXCEPT ![q].pc = "gate", ![q].renews = renews]
          PROVE  FALSE
      BY <3>1, Renews DEF At
    <3> QED
      BY <2>3, <3>1 DEF EnqueueRead, At
  <2> QED
    BY <1>1, <2>2, <2>7, <2>8, <2>9, <2>10, <2>11, <2>12 DEF Handle
<1>2. ASSUME NEW r \in Requests, Handle(r), r # q
      PROVE  request'[q] = request[q]
  BY <1>2
     DEF Handle, Search, CreateProduct, InsertDraft, CheckQuality, ResolveStock,
         FindDraft, RewriteDraft, PrepareInsert, EvaluatePrepared, EnqueueRead,
         EnqueueGate, EnqueueWrite, ClaimGate, ClaimWrite, Fail, Goto, End,
         TypeOK
<1>3. ASSUME NEW r \in Requests, NEW job, NEW pc \in Pcs \ {"product"}, NEW t,
             NEW p, NEW n, Start(r, job, pc, t, p, n)
      PROVE  request'[q] = request[q]
  BY <1>3 DEF Start, TypeOK, At
<1> QED
  BY <1>1, <1>2, <1>3
     DEF Next, vars, CreateDraft, Prepare, Confirm, Claim, Result, Turn,
         Withdraw, Restore, ChangeProduct, Pcs

\* The product that is created is the first of its title, and nobody else is
\* about to create one.
LEMMA OneSimilarStep ==
  ASSUME SellInv, IsFiniteSet(Served), Running <= 1, OneSimilar, FoundNone,
         [Next]_vars
  PROVE  OneSimilar' /\ FoundNone'
<1>0. TypeOK
  BY DEF SellInv
<1>1. CASE catalog' = catalog
  <2>1. \A t : Similar(t)' = Similar(t)
    BY <1>1 DEF Similar
  <2>2. FoundNone'
    BY <1>0, <2>1, ComesFromSearch DEF FoundNone, At, Busy
  <2> QED
    BY <2>1, <2>2 DEF OneSimilar
<1>2. ASSUME NEW r \in Requests, CreateProduct(r)
      PROVE  OneSimilar' /\ FoundNone'
  <2> DEFINE t == request[r].title
  <2>1. Busy(r) /\ Similar(t) = {}
    BY <1>2 DEF CreateProduct, At, FoundNone
  <2>2. PICK p \in Products : catalog' = catalog \cup {p} /\ p[1] = t
    BY <1>2 DEF CreateProduct
  <2>3. OneSimilar'
    <3> SUFFICES ASSUME NEW u \in Titles, NEW x \in Similar(u)',
                        NEW y \in Similar(u)'
                 PROVE  x = y
      BY DEF OneSimilar
    <3>1. CASE u = t
      BY <2>1, <2>2, <3>1 DEF Similar
    <3>2. CASE u # t
      BY <2>2, <3>2 DEF Similar, OneSimilar
    <3> QED
      BY <3>1, <3>2
  <2>4. PICK x \in Products :
          request' = [request EXCEPT ![r].pc = "insert", ![r].product = x]
    BY <1>2 DEF CreateProduct
  <2>5. request'[r].pc = "insert" /\ \A q \in Requests \ {r} : request'[q] = request[q]
    BY <1>0, <2>1, <2>4, TakesProduct DEF Pcs
  <2>6. \A q \in Requests : ~At(q, "product")'
    BY <2>1, <2>5, NobodyElse DEF At, Busy
  <2> QED
    BY <2>3, <2>6 DEF FoundNone
<1> QED
  BY <1>0, <1>1, <1>2, CatalogStays

LEMMA InitAlone == SellInit => AloneInv
<1> SUFFICES ASSUME SellInit PROVE AloneInv
  OBVIOUS
<1>1. Init /\ SellInv
  BY InitInv DEF SellInit
<1>2. Served = {}
  BY <1>1 DEF Init, Served, Busy
<1>3. IsFiniteSet(Served) /\ Running = 0
  BY <1>2, FS_EmptySet DEF Running, Served
<1>4. OneSimilar /\ FoundNone
  BY <1>1 DEF Init, OneSimilar, FoundNone, Similar, At, Busy
<1> QED
  BY <1>1, <1>3, <1>4 DEF AloneInv

LEMMA NextAlone == AloneInv /\ [SellNext]_<<vars, histories>> => AloneInv'
<1> SUFFICES ASSUME AloneInv, [SellNext]_<<vars, histories>> PROVE AloneInv'
  OBVIOUS
<1>0. /\ SellInv /\ TypeOK /\ IsFiniteSet(Served) /\ [Next]_vars
  BY DEF AloneInv, SellInv, SellNext
<1>1. SellInv' /\ IsFiniteSet(Served')
  BY <1>0, NextInv, ServedStep
<1>2. Running' \in Nat
  BY <1>1, FS_CardinalityType DEF Running, Served
<1>3. ASSUME ~overlapped' PROVE ~overlapped /\ Running' <= 1
  <2>1. CASE SellNext
    <3>1. ~overlapped /\ ~(Running' > 1)
      BY <1>3, <2>1, Zenon DEF SellNext
    <3> QED
      BY <1>2, <3>1
  <2>2. CASE UNCHANGED <<vars, histories>>
    <3>1. request' = request /\ overlapped' = overlapped
      BY <2>2 DEF vars, histories
    <3>2. Running' = Running
      BY <3>1 DEF Running, Busy
    <3> QED
      BY <1>3, <3>1, <3>2 DEF AloneInv
  <2> QED
    BY <2>1, <2>2
<1>4. ASSUME ~overlapped' PROVE OneSimilar' /\ FoundNone'
  BY <1>0, <1>3, <1>4, OneSimilarStep DEF AloneInv
<1> QED
  BY <1>1, <1>3, <1>4 DEF AloneInv

\* Until requests overlap a title gets one Catalog product, whatever is
\* prepared, confirmed, claimed and refused in between and whichever request
\* fails: createDraft creates one only after a search that found none.
THEOREM OneProductAlone == SellSpec => []OneProductPerTitleAlone
<1>1. AloneInv => OneProductPerTitleAlone
  BY AtMostOne
     DEF AloneInv, OneSimilar, OneProductPerTitleAlone, OneProductPerTitle
<1> QED
  BY <1>1, InitAlone, NextAlone, PTL DEF SellSpec
=============================================================================

--------------------------- MODULE OrderForwarding ---------------------------
(***************************************************************************)
(* Ingestion of Bazos orders and their forwarding to the central Orders    *)
(* service.  A webhook may be repeated; each delivery creates a row, maps  *)
(* the order's lines to Catalog products through the ads, one query per    *)
(* line, stores the mapped items, calls Orders and records the id it       *)
(* answers.  The answer may get lost, and nothing forwards a row again.    *)
(* Orders is external: it keeps one order per external id ("idempotency    *)
(* fields"), answers a repetition with the order it has, or with a         *)
(* conflict.                                                               *)
(* The lines of a purchase are those extractSourceLines keeps: what is no  *)
(* object in the webhook is dropped before anything is mapped.             *)
(***************************************************************************)
EXTENDS Integers, FiniteSets

CONSTANTS
  Purchases,         \* orders made by customers
  Listings,          \* ads an order line may name
  Direct,            \* the line that brings product and warehouse itself
  Products,
  Requests,          \* create requests being served
  MaxRows,           \* bound: bazosOrder rows
  MaxAdChanges       \* bound: changes of the ads' product or warehouse

NoPurchase == 0

ASSUME OrderAssumption ==
  /\ Purchases \subseteq Nat \ {NoPurchase}
  /\ Direct \notin Listings
  /\ MaxRows \in Nat
  /\ MaxAdChanges \in Nat

VARIABLES
  purchase,          \* what the webhook of each purchase says
  listing,           \* what an order line finds out through an ad
  adChanges,
  row,               \* bazosOrder rows
  request,           \* locals of the create requests
  central            \* orders of the Orders service, by external id

orderVars == <<purchase, listing, adChanges, row, request, central>>

Lines == Listings \cup {Direct}
OrderRows == 1 .. MaxRows
NoRow == 0
NoKey == <<"none", 0>>

Unmapped == {"noAd", "noProduct", "noWarehouse"}
AdState == Products \cup Unmapped

\* numbered: the payload carries bazosOrderId or externalOrderId.
Payload == [numbered: BOOLEAN, paid: BOOLEAN, lines: SUBSET Lines]

Item == [line: Lines, product: Products]

\* The key Orders knows an order by, also the id it answers.
NumberKey(m) == <<"bazosOrderId", m>>
RowKey(n) == <<"id", n>>
Keys == {NumberKey(m) : m \in Purchases} \cup {RowKey(n) : n \in OrderRows}

OrderRow == [purchase: Purchases \cup {NoPurchase}, snapshots: SUBSET Item,
             orderId: Keys \cup {NoKey}, forwarded: BOOLEAN]
NoOrder == [purchase |-> NoPurchase, snapshots |-> {}, orderId |-> NoKey,
            forwarded |-> FALSE]

IdleRequest == [pc |-> "idle", row |-> NoRow, todo |-> {}, items |-> {},
                answer |-> NoKey]
RequestState ==
  [pc: {"lines", "snapshot", "forward", "record"}, row: OrderRows,
   todo: SUBSET Lines, items: SUBSET Item, answer: Keys \cup {NoKey}]
    \cup {IdleRequest}

OrderTypeOK ==
  /\ purchase \in [Purchases -> Payload]
  /\ listing \in [Listings -> AdState]
  /\ adChanges \in 0 .. MaxAdChanges
  /\ row \in [OrderRows -> OrderRow]
  /\ request \in [Requests -> RequestState]
  /\ \A k \in DOMAIN central : k \in Keys /\ central[k] \subseteq Item

OrderInit ==
  /\ purchase \in [Purchases -> Payload]
  /\ listing \in [Listings -> AdState]
  /\ adChanges = 0
  /\ row = [n \in OrderRows |-> NoOrder]
  /\ request = [r \in Requests |-> IdleRequest]
  /\ central = << >>

Created == {n \in OrderRows : row[n].purchase # NoPurchase}
LinesOf(n) == purchase[row[n].purchase].lines

\* Mutant: the local id is sent for an order that has a number, too.
ExternalOrderIdLocal(n) == RowKey(n)

ExternalOrderId(n) ==
  IF purchase[row[n].purchase].numbered THEN NumberKey(row[n].purchase)
                                        ELSE RowKey(n)

-----------------------------------------------------------------------------
(***************************************************************************)
(* create and handleWebhook, statement by statement.                       *)
(***************************************************************************)
Create(r, m, n) ==
  /\ request[r] = IdleRequest
  /\ row[n] = NoOrder /\ \A k \in OrderRows : k < n => row[k] # NoOrder
  /\ row' = [row EXCEPT ![n].purchase = m]
  /\ request' = [request EXCEPT ![r] = [IdleRequest EXCEPT
       !.pc = "lines", !.row = n, !.todo = purchase[m].lines]]
  /\ UNCHANGED <<purchase, listing, adChanges, central>>

\* What one line is mapped to; Unmapped when the order is not forwarded.
Mapping(line) == IF line = Direct THEN Products ELSE {listing[line]}

\* Mutant: a line that cannot be mapped is left out.
MapLineOrSkip(r) ==
  /\ request[r].pc = "lines"
  /\ \E line \in request[r].todo : \E product \in Mapping(line) :
       request' = [request EXCEPT ![r].todo = @ \ {line},
         ![r].items = IF product \in Unmapped THEN @
                      ELSE @ \cup {[line |-> line, product |-> product]}]
  /\ UNCHANGED <<purchase, listing, adChanges, row, central>>

\* buildCentralOrderItems: one line, its ad looked up by findBazosAdForLine.
MapLine(r) ==
  /\ request[r].pc = "lines"
  /\ \E line \in request[r].todo : \E product \in Mapping(line) :
       request' = [request EXCEPT ![r] =
         IF product \in Unmapped THEN IdleRequest
         ELSE [request[r] EXCEPT !.todo = @ \ {line},
                 !.items = @ \cup {[line |-> line, product |-> product]}]]
  /\ UNCHANGED <<purchase, listing, adChanges, row, central>>

MapDone(r) ==
  /\ request[r].pc = "lines" /\ request[r].todo = {}
  /\ request' = [request EXCEPT ![r] =
       IF request[r].items = {} THEN IdleRequest
        ELSE [@ EXCEPT !.pc = "snapshot"]]
  /\ UNCHANGED <<purchase, listing, adChanges, row, central>>

Snapshot(r) ==
  /\ request[r].pc = "snapshot"
  /\ row' = [row EXCEPT ![request[r].row].snapshots = request[r].items]
  /\ request' = [request EXCEPT ![r].pc = "forward"]
  /\ UNCHANGED <<purchase, listing, adChanges, central>>

\* Orders takes a new order, or finds the one it has: the same items are the
\* same order, other items a conflict.
Accepts(key, items) ==
  /\ key \in DOMAIN central => central[key] = items
  /\ central' = [k \in DOMAIN central \cup {key} |->
                   IF k = key THEN items ELSE central[k]]

\* OrderClientService.createOrder.  NoKey is an answer without an id.
Forward(r) ==
  LET key == ExternalOrderId(request[r].row) IN
  /\ request[r].pc = "forward"
  /\ Accepts(key, request[r].items)
  /\ \E answer \in {key, NoKey} :
       request' = [request EXCEPT ![r].pc = "record", ![r].answer = answer]
  /\ UNCHANGED <<purchase, listing, adChanges, row>>

\* The call throws: refused, never sent, or the answer got lost.
ForwardFails(r) ==
  /\ request[r].pc = "forward"
  /\ \/ Accepts(ExternalOrderId(request[r].row), request[r].items)
     \/ UNCHANGED central
  /\ request' = [request EXCEPT ![r] = IdleRequest]
  /\ UNCHANGED <<purchase, listing, adChanges, row>>

\* Mutant: the items are mapped again when the answer is there.
RecordRemapped(r) ==
  /\ request[r].pc = "record"
  /\ row' = [row EXCEPT ![request[r].row] =
       [@ EXCEPT !.orderId = request[r].answer, !.forwarded = TRUE,
          !.snapshots = {[i EXCEPT !.product =
               IF i.line = Direct \/ listing[i.line] \in Unmapped
               THEN i.product ELSE listing[i.line]] : i \in request[r].items}]]
  /\ request' = [request EXCEPT ![r] = IdleRequest]
  /\ UNCHANGED <<purchase, listing, adChanges, central>>

Record(r) ==
  /\ request[r].pc = "record"
  /\ row' = [row EXCEPT ![request[r].row] =
       [@ EXCEPT !.orderId = request[r].answer, !.forwarded = TRUE,
                 !.snapshots = request[r].items]]
  /\ request' = [request EXCEPT ![r] = IdleRequest]
  /\ UNCHANGED <<purchase, listing, adChanges, central>>

\* The process dies, or a statement throws.
Lose(r) ==
  /\ request[r] # IdleRequest
  /\ request' = [request EXCEPT ![r] = IdleRequest]
  /\ UNCHANGED <<purchase, listing, adChanges, row, central>>

\* Ads come and go, and the policy evidence their warehouse is found in is
\* overwritten by other services.
ChangeAd(l) ==
  /\ adChanges < MaxAdChanges
  /\ adChanges' = adChanges + 1
  /\ \E s \in AdState : listing' = [listing EXCEPT ![l] = s]
  /\ UNCHANGED <<purchase, row, request, central>>

OrderNext ==
  \/ \E r \in Requests : \/ \E m \in Purchases, n \in OrderRows :
                              Create(r, m, n)
                         \/ MapLine(r) \/ MapDone(r) \/ Snapshot(r)
                         \/ Forward(r) \/ ForwardFails(r)
                         \/ Record(r) \/ Lose(r)
  \/ \E l \in Listings : ChangeAd(l)

OrderSpec == OrderInit /\ [][OrderNext]_orderVars

-----------------------------------------------------------------------------
(***************************************************************************)
(* What is read of it: the order list and the order-affinity replay.       *)
(***************************************************************************)
CentralOrderRead(n) ==
  IF row[n].orderId = NoKey
  THEN IF row[n].forwarded THEN "unknown" ELSE "unforwarded"
  ELSE IF row[n].forwarded THEN "ok" ELSE "unforwarded"

\* toOrderAffinityReplayEvent, over the paid rows.
Replayed(n) ==
  /\ row[n].purchase # NoPurchase
  /\ purchase[row[n].purchase].paid
  /\ Cardinality({i.product : i \in row[n].snapshots}) >= 2

(***************************************************************************)
(* Properties.                                                             *)
(***************************************************************************)
\* "Idempotency fields so callers can retry safely": however often the webhook
\* of a numbered order is delivered, overlaps itself or is lost half way,
\* Orders has it once.
OncePerPurchase ==
  \A m \in Purchases : purchase[m].numbered =>
    Cardinality({k \in DOMAIN central :
      \/ k = NumberKey(m)
      \/ \E n \in Created : row[n].purchase = m /\ k = RowKey(n)}) <= 1

\* What a row calls forwarded Orders has, under its purchase's number or its
\* own id, with the very items the row replays to Marketing.
ForwardedAgrees ==
  \A n \in Created : row[n].forwarded =>
    /\ ExternalOrderId(n) \in DOMAIN central
    /\ central[ExternalOrderId(n)] = row[n].snapshots
    /\ CentralOrderRead(n) = "ok" => row[n].orderId = ExternalOrderId(n)

\* "Fail closed on missing source facts": an order is forwarded or replayed
\* with all the lines read from its webhook or with none, although each is
\* mapped by a query of its own.
WholeOrder ==
  \A n \in Created :
    (row[n].forwarded \/ Replayed(n) \/ row[n].snapshots # {}) =>
      {i.line : i \in row[n].snapshots} = LinesOf(n)
=============================================================================

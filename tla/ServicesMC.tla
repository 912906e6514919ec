----------------------------- MODULE ServicesMC -----------------------------
(***************************************************************************)
(* Instances of OrderForwarding and CatalogRecord for TLC: what the        *)
(* service makes of its calls to Orders, and to Catalog and Warehouse.     *)
(* The two share no row, so a behaviour is one of either part.  The        *)
(* history `overlapped` tells whether two requests on the product have     *)
(* been served at once.                                                    *)
(***************************************************************************)
EXTENDS OrderForwarding, CatalogRecord, TLC

CONSTANTS r1, r2, l1, l2, p1, p2, a1, a2, w1, w2

VARIABLES part, overlapped

ServicesVars == <<orderVars, vars, part, overlapped>>

\* The part that does not move stays in one initial state.
ServicesInit ==
  /\ OrderInit /\ Init
  /\ part \in {"orders", "record"}
  /\ part = "orders" => product.exists /\ product.priced /\ stocked
  /\ part = "record" => /\ purchase \in [Purchases -> {[numbered |-> TRUE,
                                             paid |-> TRUE, lines |-> {}]}]
                         /\ listing \in [Listings -> {"noAd"}]
  /\ overlapped = FALSE

Busy == {w \in Workers : job[w].pc # "idle"}

ServicesNext ==
  /\ \/ part = "orders" /\ OrderNext /\ UNCHANGED vars
     \/ part = "record" /\ Next /\ UNCHANGED orderVars
  /\ overlapped' = (overlapped \/ Cardinality(Busy') > 1)
  /\ UNCHANGED part

ServicesSpec == ServicesInit /\ [][ServicesNext]_ServicesVars

\* As long as no two requests overlapped, the product keeps the tag of every
\* draft that was tagged, through the drafts, failures and reuses that follow.
TagsKeptAlone == ~overlapped => TagsKept

\* Requests, listings and products differ in nothing but their names.
Symmetric == Permutations(Requests) \cup Permutations(Listings)
               \cup Permutations(Products)
=============================================================================

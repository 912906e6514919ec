---------------------------- MODULE SellActionMC ----------------------------
(***************************************************************************)
(* Instances of SellAction for TLC.  The history `overlapped` tells        *)
(* whether two requests have been served at once; `overlooked` pairs each  *)
(* ad that passed the gates of a claim with the ads of its product that    *)
(* were off sale at that time, which those gates do not look at.           *)
(***************************************************************************)
EXTENDS SellAction, TLC

CONSTANTS t1, r1, r2

VARIABLES overlapped, overlooked

SellInit == Init /\ overlapped = FALSE /\ overlooked = {}

histories == <<overlapped, overlooked>>

PassesClaim(r) == At(r, "recheck") /\ At(r, "submit")'

\* Pairs of a claimed ad and one off sale that its claim did not see.
Overlooks ==
  {pair \in AdIds \X AdIds :
     LET claimed == pair[1]  off == pair[2] IN
     /\ \E r \in Requests : PassesClaim(r) /\ request[r].ad = claimed
     /\ Exists(off) /\ ~ad[off].active
     /\ ad[off].product = ad[claimed].product}

SellNext ==
  /\ Next
  /\ overlapped' = (overlapped \/ Running' > 1)
  /\ overlooked' = overlooked \cup Overlooks

SellSpec == SellInit /\ [][SellNext]_<<vars, histories>>

\* Two ads of one product are submitted or listed on Bazos together only if one
\* was off sale, its listing left alone, when the claim of the other passed the
\* gates: however requests overlap, are lost or rewrite a row they read before,
\* an ad is visible to the judgement of every other before it is judged.
OneListingPerProduct ==
  \A n, m \in AdIds :
    /\ n # m /\ Listed(n) /\ Listed(m)
    /\ ad[n].product = ad[m].product
    => <<n, m>> \in overlooked \/ <<m, n>> \in overlooked

\* One title gets one Catalog product as long as no two requests overlapped,
\* also when searches fail and requests are lost: the next one finds what was
\* created.
OneProductPerTitleAlone == ~overlapped => OneProductPerTitle

\* Requests differ in nothing but their names.
Symmetric == Permutations(Requests)
=============================================================================

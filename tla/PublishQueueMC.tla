--------------------------- MODULE PublishQueueMC ---------------------------
(***************************************************************************)
(* Instances of PublishQueue for TLC: one identity, a few of its ads.      *)
(***************************************************************************)
EXTENDS PublishQueue, TLC

CONSTANTS i1, d1, d2, d3, shoes, books, c1, c2

\* Two ads share a category, so that the category cooldown can bite.
MCOwner == [d \in Ads |-> i1]
MCCategoryOf == [d \in Ads |-> IF d = d3 THEN books ELSE shoes]

\* d1 and d2 differ in nothing but their names.
SameCategoryAds == Permutations({d1, d2})

\* So do the claim requests c1 and c2.
AdsAndClaimers == SameCategoryAds \cup Permutations({c1, c2})
=============================================================================

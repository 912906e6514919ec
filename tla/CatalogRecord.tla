--------------------------- MODULE CatalogRecord ---------------------------
(***************************************************************************)
(* What bazos-service reads from Catalog and Warehouse about one product   *)
(* and what it writes back: the lookups of the two clients and what they   *)
(* make of a failure, a draft saved to Catalog (the product reused or      *)
(* made, its photos, the draft's tag), and the sync of offers from         *)
(* Catalog.  Every call is a step; every call may fail.                    *)
(***************************************************************************)
EXTENDS Integers, FiniteSets

CONSTANTS
  Ads,
  Workers,           \* requests being served
  MaxFaults          \* bound: calls that fail

ASSUME CatalogRecordAssumption == MaxFaults \in Nat

VARIABLES
  product,           \* is it in Catalog, is it priced, the tags it carries
  stocked,           \* has Warehouse stock of it?
  ad,                \* bazosAd rows
  job,               \* the request of each worker
  tagged,            \* ads whose tag Catalog took
  faults

external == <<product, stocked>>
vars == <<product, stocked, ad, job, tagged, faults>>

NoAd == "noAd"
Kinds == {"draft", "upload", "sync", "lookup"}
Steps == {"idle", "search", "mark", "make", "media", "upload", "insert",
          "fetch", "tag", "stock", "find", "price", "write", "told"}
Row == [linked : BOOLEAN, photos : BOOLEAN,
        price : {"own", "zero", "catalog"},
        stock : {"own", "none", "some", "absent"}]
Absent == [linked |-> FALSE, photos |-> FALSE, price |-> "own",
           stock |-> "absent"]
Idle == [kind |-> "lookup", pc |-> "idle", ad |-> NoAd, seen |-> {},
         photos |-> FALSE, stock |-> "null", price |-> "null",
         answer |-> "none"]

TypeOK ==
  /\ product \in [exists : BOOLEAN, priced : BOOLEAN, tags : SUBSET Ads]
  /\ stocked \in BOOLEAN
  /\ ad \in [Ads -> Row]
  /\ job \in [Workers ->
       [kind : Kinds, pc : Steps, ad : Ads \cup {NoAd}, seen : SUBSET Ads,
        photos : BOOLEAN, stock : {"null", "value"}, price : {"null", "value"},
        answer : {"none", "value", "notFound"}]]
  /\ tagged \subseteq {a \in Ads : ad[a] # Absent}
  /\ faults \in 0 .. MaxFaults

Init ==
  /\ \E exists, priced \in BOOLEAN :
       product = [exists |-> exists, priced |-> priced, tags |-> {}]
  /\ stocked \in BOOLEAN
  /\ ad = [a \in Ads |-> Absent]
  /\ job = [w \in Workers |-> Idle]
  /\ tagged = {} /\ faults = 0

-----------------------------------------------------------------------------
(***************************************************************************)
(* The clients: a lookup returns, throws, or says there is no such record  *)
(***************************************************************************)
Fault(fails) ==
  /\ fails \in BOOLEAN
  /\ fails => faults < MaxFaults
  /\ faults' = faults + (IF fails THEN 1 ELSE 0)

\* Mutant: a failure reads like an absent record.
MaskingLookup(there, fails) == IF there /\ ~fails THEN "value" ELSE "null"

\* getProductPricing: only a 404 is "no price".
PricingLookup(there, fails) ==
  IF fails THEN "thrown" ELSE IF there THEN "value" ELSE "null"

\* getTotalAvailable: only a 404, or a total of zero, is "no stock".
StockLookup(there, fails) ==
  IF fails THEN "thrown" ELSE IF there THEN "value" ELSE "null"

\* getProductById: whatever goes wrong is "Product not found".
ProductLookup(there, fails) == IF there /\ ~fails THEN "value" ELSE "notFound"

-----------------------------------------------------------------------------
At(w, pc) == job[w].pc = pc
Move(w, pc) == job' = [job EXCEPT ![w].pc = pc]
Finish(w) == job' = [job EXCEPT ![w] = Idle]
Start(w, kind, pc) ==
  /\ At(w, "idle")
  /\ job' = [job EXCEPT ![w] = [Idle EXCEPT !.kind = kind, !.pc = pc]]
  /\ UNCHANGED <<external, ad, tagged, faults>>

\* createDraft with saveToCatalog, and createDraftWithUploadedMedia.
CreateDraft(w) == Start(w, "draft", "search")
CreateWithUploads(w) == Start(w, "upload", "search")

\* findSimilarCatalogProduct; the draft goes on with what the search showed.
Search(w) ==
  /\ At(w, "search")
  /\ \E fails \in BOOLEAN :
       /\ Fault(fails)
       /\ IF fails THEN Finish(w)
          ELSE job' = [job EXCEPT ![w].pc = IF product.exists THEN "mark"
                                            ELSE "make",
                                  ![w].seen = product.tags]
  /\ UNCHANGED <<external, ad, tagged>>

\* Mutant: the tags are set, not merged.
SetTags(old, new) == new

mergeTags(old, new) == old \cup new

\* markCatalogProductAsBazosVersion writes the tags of the search back.
Mark(w) ==
  /\ At(w, "mark")
  /\ \E fails \in BOOLEAN :
       /\ Fault(fails)
       /\ IF fails THEN Finish(w) /\ UNCHANGED product
          ELSE /\ product' = [product EXCEPT !.tags = mergeTags(job[w].seen, {})]
               /\ Move(w, "media")
  /\ UNCHANGED <<stocked, ad, tagged>>

Make(w) ==
  /\ At(w, "make")
  /\ \E fails \in BOOLEAN :
       /\ Fault(fails)
       /\ IF fails THEN Finish(w) /\ UNCHANGED product
          ELSE /\ product' = [product EXCEPT !.exists = TRUE]
               /\ Move(w, "media")
  /\ UNCHANGED <<stocked, ad, tagged>>

\* syncCatalogMedia: the draft's photos go to Catalog, and one that fails is
\* only logged.  The upload variant has no photo of its own yet.
Media(w) ==
  /\ At(w, "media")
  /\ \E fails \in BOOLEAN : Fault(fails)
  /\ job' = [job EXCEPT ![w].photos = job[w].kind = "draft",
                        ![w].pc = IF job[w].kind = "draft" THEN "insert"
                                  ELSE "upload"]
  /\ UNCHANGED <<external, ad, tagged>>

\* uploadMedia: a file that fails is left out.
Upload(w) ==
  /\ At(w, "upload")
  /\ \E fails \in BOOLEAN :
       /\ Fault(fails)
       /\ job' = [job EXCEPT ![w].photos = ~fails, ![w].pc = "insert"]
  /\ UNCHANGED <<external, ad, tagged>>

HasPhotos(w) == job[w].photos

Insert(w) ==
  /\ At(w, "insert")
  /\ IF ~HasPhotos(w) THEN Finish(w) /\ UNCHANGED ad
     ELSE \E a \in Ads :
            /\ ad[a] = Absent
            /\ ad' = [ad EXCEPT ![a] = [linked |-> TRUE,
                 photos |-> job[w].photos, price |-> "own", stock |-> "own"]]
            /\ job' = [job EXCEPT ![w].ad = a, ![w].pc = "fetch"]
  /\ UNCHANGED <<external, tagged, faults>>

\* attachBazosDraftTag: the product is read again, then written; a failure of
\* either is only logged.
Fetch(w) ==
  /\ At(w, "fetch")
  /\ \E fails \in BOOLEAN :
       /\ Fault(fails)
       /\ IF ProductLookup(product.exists, fails) = "notFound" THEN Finish(w)
          ELSE job' = [job EXCEPT ![w].seen = product.tags, ![w].pc = "tag"]
  /\ UNCHANGED <<external, ad, tagged>>

AttachTag(w) ==
  /\ At(w, "tag")
  /\ \E fails \in BOOLEAN :
       /\ Fault(fails)
       /\ IF fails THEN UNCHANGED <<product, tagged>>
          ELSE /\ product' = [product EXCEPT
                    !.tags = mergeTags(job[w].seen, {job[w].ad})]
               /\ tagged' = tagged \cup {job[w].ad}
  /\ Finish(w)
  /\ UNCHANGED <<stocked, ad>>

-----------------------------------------------------------------------------
(***************************************************************************)
(* syncFromCatalog, for one product of the list                            *)
(***************************************************************************)
SyncStart(w) == product.exists /\ Start(w, "sync", "stock")

\* A lookup that throws counts the product as failed and leaves its ad alone.
SyncStock(w) ==
  /\ At(w, "stock")
  /\ \E fails \in BOOLEAN :
       /\ Fault(fails)
       /\ LET answer == StockLookup(stocked, fails) IN
          IF answer = "thrown" THEN Finish(w)
          ELSE job' = [job EXCEPT ![w].stock = answer, ![w].pc = "find"]
  /\ UNCHANGED <<external, ad, tagged>>

SyncFind(w) ==
  /\ At(w, "find")
  /\ LET linked == {a \in Ads : ad[a] # Absent /\ ad[a].linked} IN
     IF linked = {} THEN Move(w, "price")
     ELSE \E a \in linked : job' = [job EXCEPT ![w].ad = a, ![w].pc = "price"]
  /\ UNCHANGED <<external, ad, tagged, faults>>

SyncPrice(w) ==
  /\ At(w, "price")
  /\ \E fails \in BOOLEAN :
       /\ Fault(fails)
       /\ LET answer == PricingLookup(product.priced, fails) IN
          IF answer = "thrown" THEN Finish(w)
          ELSE job' = [job EXCEPT ![w].price = answer, ![w].pc = "write"]
  /\ UNCHANGED <<external, ad, tagged>>

\* The row of an ad found is updated; otherwise a new one is made.
SyncWrite(w) ==
  /\ At(w, "write")
  /\ \E a \in Ads :
       /\ IF job[w].ad # NoAd THEN a = job[w].ad ELSE ad[a] = Absent
       /\ ad' = [ad EXCEPT ![a] =
            [linked |-> TRUE,
             photos |-> ad[a].photos,
             price |-> IF job[w].price = "null" THEN "zero" ELSE "catalog",
             stock |-> IF job[w].stock = "null" THEN "none" ELSE "some"]]
  /\ Finish(w)
  /\ UNCHANGED <<external, tagged, faults>>

\* The catalog page and the offer page ask for one product.
LookUp(w) ==
  /\ At(w, "idle")
  /\ \E fails \in BOOLEAN :
       /\ Fault(fails)
       /\ job' = [job EXCEPT ![w] = [Idle EXCEPT !.pc = "told",
            !.answer = ProductLookup(product.exists, fails)]]
  /\ UNCHANGED <<external, ad, tagged>>

Told(w) ==
  /\ At(w, "told")
  /\ Finish(w)
  /\ UNCHANGED <<external, ad, tagged, faults>>

Next == \E w \in Workers :
  \/ CreateDraft(w) \/ CreateWithUploads(w) \/ Search(w) \/ Mark(w) \/ Make(w)
  \/ Media(w) \/ Upload(w) \/ Insert(w) \/ Fetch(w) \/ AttachTag(w)
  \/ SyncStart(w) \/ SyncStock(w) \/ SyncFind(w) \/ SyncPrice(w) \/ SyncWrite(w)
  \/ LookUp(w) \/ Told(w)

Spec == Init /\ [][Next]_vars
-----------------------------------------------------------------------------
(***************************************************************************)
(* Properties.                                                             *)
(***************************************************************************)
Rows == {a \in Ads : ad[a] # Absent}

\* A sync never zeroes the price, or empties the stock, of an ad whose product
\* has a price in Catalog, or stock in Warehouse, however many lookups fail.
OutageZeroesNothing ==
  \A a \in Rows : /\ ad[a].price = "zero" => ~product.priced
                  /\ ad[a].stock = "none" => ~stocked

\* Without overlapping requests the product keeps the tag of every draft that
\* was tagged, through the drafts, failures and reuses that follow.
TagsKept == tagged \subseteq product.tags

\* A draft has a photo, also when its photos are uploads and uploads fail: the
\* check of createDraft comes after them.
DraftsHavePhotos ==
  \A a \in Rows : ad[a].price = "own" => ad[a].photos
=============================================================================

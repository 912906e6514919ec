--------------------------- MODULE ServicesProofs ---------------------------
(***************************************************************************)
(* Theorems about what is read from Catalog and Warehouse, for every set   *)
(* of ads and workers and any number of failing calls, and about the       *)
(* forwarding of orders, for every set of purchases, listings, products    *)
(* and requests, lost answers and requests included.                       *)
(***************************************************************************)
EXTENDS ServicesMC, FiniteSetTheorems, TLAPS

USE CatalogRecordAssumption

-----------------------------------------------------------------------------
(***************************************************************************)
(* The inductive invariant.  A sync writes what earlier steps looked up:   *)
(* what it carries as "no price" or "no stock" was true when it was read,  *)
(* and stays true.  A draft that is being tagged has a row.                *)
(***************************************************************************)
JobRow ==
  [kind : Kinds, pc : Steps, ad : Ads \cup {NoAd}, seen : SUBSET Ads,
   photos : BOOLEAN, stock : {"null", "value"}, price : {"null", "value"},
   answer : {"none", "value", "notFound"}]

TaggedHasRow ==
  \A w \in Workers : job[w].pc \in {"fetch", "tag"} =>
    job[w].ad \in Ads /\ ad[job[w].ad] # Absent

NoStockIsTrue ==
  \A w \in Workers :
    job[w].pc \in {"find", "price", "write"} /\ job[w].stock = "null" => ~stocked

NoPriceIsTrue ==
  \A w \in Workers :
    job[w].pc = "write" /\ job[w].price = "null" => ~product.priced

RecordInv == TypeOK /\ TaggedHasRow /\ NoStockIsTrue /\ NoPriceIsTrue
             /\ OutageZeroesNothing /\ DraftsHavePhotos

LEMMA IdleType == Idle \in JobRow
BY DEF Idle, JobRow, Kinds, Steps

LEMMA AbsentType == Absent \in Row
BY DEF Absent, Row

LEMMA TagsUpdate ==
  ASSUME product \in [exists : BOOLEAN, priced : BOOLEAN, tags : SUBSET Ads],
         NEW tags \in SUBSET Ads
  PROVE  /\ [product EXCEPT !.tags = tags] \in
              [exists : BOOLEAN, priced : BOOLEAN, tags : SUBSET Ads]
         /\ [product EXCEPT !.tags = tags].priced = product.priced
         /\ [product EXCEPT !.exists = TRUE] \in
              [exists : BOOLEAN, priced : BOOLEAN, tags : SUBSET Ads]
         /\ [product EXCEPT !.exists = TRUE].priced = product.priced
OBVIOUS

LEMMA FaultType ==
  ASSUME faults \in 0 .. MaxFaults, NEW fails, Fault(fails)
  PROVE  faults' \in 0 .. MaxFaults
BY DEF Fault

LEMMA InitInv == Init => RecordInv
<1> SUFFICES ASSUME Init PROVE RecordInv
  OBVIOUS
<1>1. product \in [exists : BOOLEAN, priced : BOOLEAN, tags : SUBSET Ads]
  BY DEF Init
<1>2. ad \in [Ads -> Row] /\ \A a \in Ads : ad[a] = Absent
  BY AbsentType DEF Init
<1>3. job \in [Workers -> JobRow] /\ \A w \in Workers : job[w].pc = "idle"
  BY IdleType DEF Init, Idle
<1>4. TypeOK
  BY <1>1, <1>2, <1>3 DEF Init, TypeOK, JobRow
<1> QED
  BY <1>2, <1>3, <1>4
     DEF RecordInv, TaggedHasRow, NoStockIsTrue, NoPriceIsTrue,
         OutageZeroesNothing, DraftsHavePhotos, Rows

-----------------------------------------------------------------------------
(***************************************************************************)
(* One lemma per kind of step.                                             *)
(***************************************************************************)
\* Worker w alone moves; rows, prices and stocks stay; w does not carry a
\* "null" into a later step unless it is true, nor an ad without a row.
LEMMA LocalStep ==
  ASSUME RecordInv, NEW w \in Workers, NEW j \in JobRow,
         job' = [job EXCEPT ![w] = j],
         j.pc \in {"fetch", "tag"} => j.ad \in Ads /\ ad[j.ad] # Absent,
         j.pc \in {"find", "price", "write"} /\ j.stock = "null" => ~stocked,
         j.pc = "write" /\ j.price = "null" => ~product.priced,
         ad' = ad, stocked' = stocked, product' \in
           [exists : BOOLEAN, priced : BOOLEAN, tags : SUBSET Ads],
         product'.priced = product.priced,
         tagged' \subseteq {a \in Ads : ad[a] # Absent},
         faults' \in 0 .. MaxFaults
  PROVE  RecordInv'
<1>1. job' \in [Workers -> JobRow]
  BY DEF RecordInv, TypeOK, JobRow
<1>2. TypeOK'
  BY <1>1 DEF RecordInv, TypeOK, JobRow
<1>3. \A v \in Workers : job'[v] = IF v = w THEN j ELSE job[v]
  BY DEF RecordInv, TypeOK
<1>4. TaggedHasRow' /\ NoStockIsTrue' /\ NoPriceIsTrue'
  BY <1>3 DEF RecordInv, TaggedHasRow, NoStockIsTrue, NoPriceIsTrue
<1>5. OutageZeroesNothing' /\ DraftsHavePhotos'
  BY DEF RecordInv, OutageZeroesNothing, DraftsHavePhotos, Rows
<1> QED
  BY <1>2, <1>4, <1>5 DEF RecordInv

\* Worker w writes the row of an ad.
LEMMA RowStep ==
  ASSUME RecordInv, NEW w \in Workers, NEW j \in JobRow,
         job' = [job EXCEPT ![w] = j],
         NEW a \in Ads, NEW written \in Row, written # Absent,
         ad' = [ad EXCEPT ![a] = written],
         written.price = "zero" => ~product.priced,
         written.stock = "none" => ~stocked,
         written.price = "own" => written.photos,
         j.pc \in {"idle", "fetch"}, j.pc = "fetch" => j.ad = a,
         product' = product, stocked' = stocked, tagged' = tagged,
         faults' \in 0 .. MaxFaults
  PROVE  RecordInv'
<1>1. /\ job' \in [Workers -> JobRow] /\ ad' \in [Ads -> Row]
      /\ \A v \in Workers : job'[v] = IF v = w THEN j ELSE job[v]
      /\ \A b \in Ads : ad'[b] = IF b = a THEN written ELSE ad[b]
  BY DEF RecordInv, TypeOK, JobRow
<1>2. TypeOK'
  BY <1>1 DEF RecordInv, TypeOK, JobRow
<1>3. TaggedHasRow' /\ NoStockIsTrue' /\ NoPriceIsTrue'
  BY <1>1 DEF RecordInv, TaggedHasRow, NoStockIsTrue, NoPriceIsTrue
<1>4. OutageZeroesNothing' /\ DraftsHavePhotos'
  BY <1>1 DEF RecordInv, OutageZeroesNothing, DraftsHavePhotos, Rows
<1> QED
  BY <1>2, <1>3, <1>4 DEF RecordInv

\* The fields LocalStep and RowStep ask for.
LEMMA InvFields ==
  ASSUME RecordInv
  PROVE  /\ product \in [exists : BOOLEAN, priced : BOOLEAN, tags : SUBSET Ads]
         /\ job \in [Workers -> JobRow]
         /\ tagged \subseteq {a \in Ads : ad[a] # Absent}
         /\ faults \in 0 .. MaxFaults
BY DEF RecordInv, TypeOK, JobRow

LEMMA FinishStep ==
  ASSUME RecordInv, NEW w \in Workers, Finish(w),
         ad' = ad, stocked' = stocked, tagged' = tagged, product' = product,
         faults' \in 0 .. MaxFaults
  PROVE  RecordInv'
BY IdleType, LocalStep, InvFields DEF Finish, Idle

LEMMA DraftStep ==
  ASSUME RecordInv, NEW w \in Workers,
         \/ CreateDraft(w) \/ CreateWithUploads(w) \/ Search(w) \/ Mark(w)
         \/ Make(w) \/ Media(w) \/ Upload(w)
  PROVE  RecordInv'
<1> USE DEF external
<1>0. /\ product.tags \in SUBSET Ads /\ job[w] \in JobRow
      /\ faults \in 0 .. MaxFaults
      /\ tagged \subseteq {a \in Ads : ad[a] # Absent}
      /\ product \in [exists : BOOLEAN, priced : BOOLEAN, tags : SUBSET Ads]
  BY InvFields
<1>1. ASSUME NEW kind \in Kinds, NEW pc \in {"search"}, Start(w, kind, pc)
      PROVE  RecordInv'
  <2>1. [Idle EXCEPT !.kind = kind, !.pc = pc] \in JobRow
    BY DEF Idle, JobRow, Kinds, Steps
  <2> QED
    BY <1>0, <1>1, <2>1, LocalStep DEF Start, Idle
<1>2. CASE Search(w)
  <2>1. PICK fails \in BOOLEAN :
          /\ Fault(fails)
          /\ IF fails THEN Finish(w)
             ELSE job' = [job EXCEPT
                    ![w].pc = IF product.exists THEN "mark" ELSE "make",
                    ![w].seen = product.tags]
    BY <1>2 DEF Search
  <2>2. CASE fails
    BY <1>0, <1>2, <2>1, <2>2, FaultType, FinishStep DEF Search
  <2>3. CASE ~fails
    <3> DEFINE pc == IF product.exists THEN "mark" ELSE "make"
               j == [job[w] EXCEPT !.pc = pc, !.seen = product.tags]
    <3>1. j \in JobRow /\ j.pc = pc
      BY <1>0 DEF Steps, JobRow
    <3>2. job' = [job EXCEPT ![w] = j]
      BY <2>1, <2>3
    <3> HIDE DEF j
    <3> QED
      BY <1>0, <1>2, <2>1, <3>1, <3>2, FaultType, LocalStep DEF Search
  <2> QED
    BY <2>2, <2>3
<1>3. ASSUME Mark(w) \/ Make(w) PROVE RecordInv'
  <2>1. PICK fails \in BOOLEAN :
          /\ Fault(fails)
          /\ IF fails THEN Finish(w) /\ UNCHANGED product
             ELSE /\ product' \in
                       [exists : BOOLEAN, priced : BOOLEAN, tags : SUBSET Ads]
                  /\ product'.priced = product.priced
                  /\ Move(w, "media")
    <3>1. CASE Mark(w)
      <4>1. mergeTags(job[w].seen, {}) \in SUBSET Ads
        BY <1>0 DEF mergeTags, JobRow
      <4> QED
        BY <1>0, <3>1, <4>1, TagsUpdate DEF Mark
    <3>2. CASE Make(w)
      BY <1>0, <3>2, TagsUpdate DEF Make
    <3> QED
      BY <1>3, <3>1, <3>2
  <2>2. CASE fails
    BY <1>0, <1>3, <2>1, <2>2, FaultType, FinishStep DEF Mark, Make
  <2>3. CASE ~fails
    <3> DEFINE j == [job[w] EXCEPT !.pc = "media"]
    <3>1. j \in JobRow /\ j.pc = "media"
      BY <1>0 DEF Steps, JobRow
    <3>2. job' = [job EXCEPT ![w] = j]
      BY <2>1, <2>3 DEF Move
    <3> HIDE DEF j
    <3> QED
      BY <1>0, <1>3, <2>1, <2>3, <3>1, <3>2, FaultType, LocalStep DEF Mark, Make
  <2> QED
    BY <2>2, <2>3
<1>4. ASSUME Media(w) \/ Upload(w) PROVE RecordInv'
  <2>1. PICK photos \in BOOLEAN, pc \in {"insert", "upload"} :
          job' = [job EXCEPT ![w].photos = photos, ![w].pc = pc]
    <3>1. CASE Media(w)
      BY <3>1 DEF Media
    <3>2. CASE Upload(w)
      BY <3>2 DEF Upload
    <3> QED
      BY <1>4, <3>1, <3>2
  <2> DEFINE j == [job[w] EXCEPT !.photos = photos, !.pc = pc]
  <2>2. j \in JobRow /\ j.pc = pc
    BY <1>0 DEF Steps, JobRow
  <2>3. job' = [job EXCEPT ![w] = j]
    BY <2>1
  <2> HIDE DEF j
  <2> QED
    BY <1>0, <1>4, <2>2, <2>3, FaultType, LocalStep DEF Media, Upload
<1> QED
  BY <1>1, <1>2, <1>3, <1>4 DEF CreateDraft, CreateWithUploads, Kinds

LEMMA InsertStep ==
  ASSUME RecordInv, NEW w \in Workers, Insert(w)
  PROVE  RecordInv'
<1> USE DEF external
<1>0. job[w] \in JobRow /\ faults \in 0 .. MaxFaults
  BY InvFields
<1>1. CASE ~HasPhotos(w)
  BY <1>0, <1>1, FinishStep DEF Insert
<1>2. CASE HasPhotos(w)
  <2> DEFINE written == [linked |-> TRUE, photos |-> job[w].photos,
                     price |-> "own", stock |-> "own"]
  <2>1. PICK a \in Ads :
          /\ ad' = [ad EXCEPT ![a] = written]
          /\ job' = [job EXCEPT ![w].ad = a, ![w].pc = "fetch"]
    BY <1>2 DEF Insert
  <2> DEFINE j == [job[w] EXCEPT !.ad = a, !.pc = "fetch"]
  <2>2. j \in JobRow /\ j.pc = "fetch" /\ j.ad = a
    BY <1>0 DEF Steps, JobRow
  <2>3. written \in Row /\ written # Absent /\ written.photos /\ written.price = "own"
        /\ written.stock = "own"
    BY <1>0, <1>2 DEF Row, Absent, JobRow, HasPhotos
  <2>4. job' = [job EXCEPT ![w] = j]
    BY <2>1
  <2> HIDE DEF j, written
  <2> QED
    BY <1>0, <1>2, <2>1, <2>2, <2>3, <2>4, RowStep DEF Insert
<1> QED
  BY <1>1, <1>2

LEMMA TagStep ==
  ASSUME RecordInv, NEW w \in Workers, Fetch(w) \/ AttachTag(w)
  PROVE  RecordInv'
<1> USE DEF external
<1>0. /\ product.tags \in SUBSET Ads /\ job[w] \in JobRow
      /\ faults \in 0 .. MaxFaults
      /\ tagged \subseteq {a \in Ads : ad[a] # Absent}
      /\ product \in [exists : BOOLEAN, priced : BOOLEAN, tags : SUBSET Ads]
  BY InvFields
<1>1. job[w].ad \in Ads /\ ad[job[w].ad] # Absent
  BY DEF Fetch, AttachTag, At, RecordInv, TaggedHasRow
<1>2. CASE Fetch(w)
  <2>1. faults' \in 0 .. MaxFaults
    BY <1>0, <1>2, FaultType DEF Fetch
  <2>2. CASE Finish(w)
    BY <1>2, <2>1, <2>2, FinishStep DEF Fetch
  <2> DEFINE j == [job[w] EXCEPT !.seen = product.tags, !.pc = "tag"]
  <2>3. CASE job' = [job EXCEPT ![w] = j]
    <3>1. j \in JobRow /\ j.pc = "tag" /\ j.ad = job[w].ad
      BY <1>0 DEF Steps, JobRow
    <3> HIDE DEF j
    <3> QED
      BY <1>0, <1>1, <1>2, <2>1, <2>3, <3>1, LocalStep DEF Fetch
  <2> QED
    BY <1>2, <2>2, <2>3 DEF Fetch
<1>3. CASE AttachTag(w)
  <2>1. faults' \in 0 .. MaxFaults
    BY <1>0, <1>3, FaultType DEF AttachTag
  <2>2. mergeTags(job[w].seen, {job[w].ad}) \in SUBSET Ads
    BY <1>0, <1>1 DEF mergeTags, JobRow
  <2>3. product' \in [exists : BOOLEAN, priced : BOOLEAN, tags : SUBSET Ads]
        /\ product'.priced = product.priced
    BY <1>0, <1>3, <2>2, TagsUpdate DEF AttachTag
  <2>4. tagged' \subseteq {a \in Ads : ad[a] # Absent}
    BY <1>0, <1>1, <1>3 DEF AttachTag
  <2>5. job' = [job EXCEPT ![w] = Idle] /\ Idle \in JobRow /\ Idle.pc = "idle"
    BY <1>3, IdleType DEF AttachTag, Finish, Idle
  <2> QED
    BY <1>0, <1>3, <2>1, <2>3, <2>4, <2>5, LocalStep DEF AttachTag
<1> QED
  BY <1>2, <1>3

LEMMA SyncLookup ==
  ASSUME RecordInv, NEW w \in Workers, SyncStock(w) \/ SyncFind(w) \/ SyncPrice(w)
  PROVE  RecordInv'
<1> USE DEF external
<1>0. /\ job[w] \in JobRow /\ faults \in 0 .. MaxFaults
      /\ tagged \subseteq {a \in Ads : ad[a] # Absent}
      /\ product \in [exists : BOOLEAN, priced : BOOLEAN, tags : SUBSET Ads]
  BY InvFields
<1>1. CASE SyncStock(w)
  <2>1. PICK fails \in BOOLEAN :
          /\ Fault(fails)
          /\ IF StockLookup(stocked, fails) = "thrown" THEN Finish(w)
             ELSE job' = [job EXCEPT ![w].stock = StockLookup(stocked, fails),
                                     ![w].pc = "find"]
    BY <1>1 DEF SyncStock
  <2>2. faults' \in 0 .. MaxFaults
    BY <1>0, <2>1, FaultType
  <2>3. CASE fails
    BY <1>1, <2>1, <2>2, <2>3, FinishStep DEF SyncStock, StockLookup
  <2>4. CASE ~fails
    <3> DEFINE found == IF stocked THEN "value" ELSE "null"
               j == [job[w] EXCEPT !.stock = found, !.pc = "find"]
    <3>1. j \in JobRow /\ j.pc = "find" /\ j.stock = found
      BY <1>0 DEF Steps, JobRow
    <3>2. job' = [job EXCEPT ![w] = j]
      BY <2>1, <2>4 DEF StockLookup
    <3> HIDE DEF j
    <3> QED
      BY <1>0, <1>1, <2>2, <3>1, <3>2, LocalStep DEF SyncStock
  <2> QED
    BY <2>3, <2>4
<1>2. CASE SyncFind(w)
  <2>1. PICK a \in Ads \cup {NoAd} :
          \/ job' = [job EXCEPT ![w].ad = a, ![w].pc = "price"]
          \/ job' = [job EXCEPT ![w].pc = "price"]
    BY <1>2 DEF SyncFind, Move
  <2>2. job[w].stock = "null" => ~stocked
    BY <1>2 DEF SyncFind, At, RecordInv, NoStockIsTrue
  <2>3. PICK j \in JobRow : /\ job' = [job EXCEPT ![w] = j] /\ j.pc = "price"
                            /\ j.stock = job[w].stock
    <3>1. /\ [job[w] EXCEPT !.ad = a, !.pc = "price"] \in JobRow
          /\ [job[w] EXCEPT !.pc = "price"] \in JobRow
      BY <1>0 DEF Steps, JobRow
    <3> QED
      BY <1>0, <2>1, <3>1 DEF JobRow
  <2> QED
    BY <1>0, <1>2, <2>2, <2>3, LocalStep DEF SyncFind
<1>3. CASE SyncPrice(w)
  <2>1. PICK fails \in BOOLEAN :
          /\ Fault(fails)
          /\ IF PricingLookup(product.priced, fails) = "thrown" THEN Finish(w)
             ELSE job' = [job EXCEPT
                    ![w].price = PricingLookup(product.priced, fails),
                    ![w].pc = "write"]
    BY <1>3 DEF SyncPrice
  <2>2. faults' \in 0 .. MaxFaults
    BY <1>0, <2>1, FaultType
  <2>3. CASE fails
    BY <1>3, <2>1, <2>2, <2>3, FinishStep DEF SyncPrice, PricingLookup
  <2>4. CASE ~fails
    <3> DEFINE found == IF product.priced THEN "value" ELSE "null"
               j == [job[w] EXCEPT !.price = found, !.pc = "write"]
    <3>1. j \in JobRow /\ j.pc = "write" /\ j.price = found
          /\ j.stock = job[w].stock
      BY <1>0 DEF Steps, JobRow
    <3>2. job' = [job EXCEPT ![w] = j]
      BY <2>1, <2>4 DEF PricingLookup
    <3>3. job[w].stock = "null" => ~stocked
      BY <1>3 DEF SyncPrice, At, RecordInv, NoStockIsTrue
    <3> HIDE DEF j
    <3> QED
      BY <1>0, <1>3, <2>2, <3>1, <3>2, <3>3, LocalStep DEF SyncPrice
  <2> QED
    BY <2>3, <2>4
<1> QED
  BY <1>1, <1>2, <1>3

LEMMA SyncWriteStep ==
  ASSUME RecordInv, NEW w \in Workers, SyncWrite(w)
  PROVE  RecordInv'
<1> DEFINE written(a) ==
      [linked |-> TRUE, photos |-> ad[a].photos,
       price |-> IF job[w].price = "null" THEN "zero" ELSE "catalog",
       stock |-> IF job[w].stock = "null" THEN "none" ELSE "some"]
<1>1. PICK a \in Ads : ad' = [ad EXCEPT ![a] = written(a)]
  BY DEF SyncWrite
<1>2. written(a) \in Row /\ written(a) # Absent
  BY DEF Row, Absent, RecordInv, TypeOK
<1>3. /\ written(a).price = "zero" => ~product.priced
      /\ written(a).stock = "none" => ~stocked
      /\ written(a).price # "own"
  BY DEF SyncWrite, At, RecordInv, NoStockIsTrue, NoPriceIsTrue
<1>4. job' = [job EXCEPT ![w] = Idle] /\ Idle \in JobRow /\ Idle.pc = "idle"
  BY IdleType DEF SyncWrite, Finish, Idle
<1> HIDE DEF written
<1> QED
  BY <1>1, <1>2, <1>3, <1>4, RowStep, InvFields DEF SyncWrite, external

LEMMA OtherStep ==
  ASSUME RecordInv, NEW w \in Workers, SyncStart(w) \/ LookUp(w) \/ Told(w)
  PROVE  RecordInv'
<1> USE DEF external
<1>0. /\ faults \in 0 .. MaxFaults
      /\ tagged \subseteq {a \in Ads : ad[a] # Absent}
      /\ product \in [exists : BOOLEAN, priced : BOOLEAN, tags : SUBSET Ads]
  BY InvFields
<1>1. CASE SyncStart(w)
  <2> DEFINE j == [Idle EXCEPT !.kind = "sync", !.pc = "stock"]
  <2>1. j \in JobRow /\ j.pc = "stock"
    BY DEF Idle, JobRow, Kinds, Steps
  <2>2. job' = [job EXCEPT ![w] = j]
    BY <1>1 DEF SyncStart, Start
  <2> HIDE DEF j
  <2> QED
    BY <1>0, <1>1, <2>1, <2>2, LocalStep DEF SyncStart, Start
<1>2. CASE LookUp(w)
  <2>1. PICK fails \in BOOLEAN :
          /\ Fault(fails)
          /\ job' = [job EXCEPT ![w] = [Idle EXCEPT !.pc = "told",
               !.answer = ProductLookup(product.exists, fails)]]
    BY <1>2 DEF LookUp
  <2> DEFINE j == [Idle EXCEPT !.pc = "told",
                     !.answer = ProductLookup(product.exists, fails)]
  <2>2. j \in JobRow /\ j.pc = "told"
    BY DEF Idle, JobRow, Kinds, Steps, ProductLookup
  <2>3. job' = [job EXCEPT ![w] = j]
    BY <2>1
  <2>4. faults' \in 0 .. MaxFaults
    BY <1>0, <2>1, FaultType
  <2> HIDE DEF j
  <2> QED
    BY <1>0, <1>2, <2>2, <2>3, <2>4, LocalStep DEF LookUp
<1>3. CASE Told(w)
  BY <1>0, <1>3, FinishStep DEF Told
<1> QED
  BY <1>1, <1>2, <1>3

LEMMA NextInv ==
  ASSUME RecordInv, [Next]_vars
  PROVE  RecordInv'
<1>1. CASE UNCHANGED vars
  BY <1>1
     DEF vars, external, RecordInv, TypeOK, TaggedHasRow, NoStockIsTrue,
         NoPriceIsTrue, OutageZeroesNothing, DraftsHavePhotos, Rows
<1>2. CASE Next
  BY <1>2, DraftStep, InsertStep, TagStep, SyncLookup, SyncWriteStep, OtherStep
     DEF Next
<1> QED
  BY <1>1, <1>2

-----------------------------------------------------------------------------
\* Rows and locals keep their types, and what Catalog took a tag of has a row.
THEOREM TypeCorrect == Spec => []TypeOK
<1>1. RecordInv => TypeOK
  BY DEF RecordInv
<1> QED
  BY <1>1, InitInv, NextInv, PTL DEF Spec

\* However many lookups fail and however requests overlap, a sync never zeroes
\* a price or empties a stock that is there: a lookup that throws ends the
\* sync of its product, and only a 404 is a null.
THEOREM OutageIsNotZero == Spec => []OutageZeroesNothing
<1>1. RecordInv => OutageZeroesNothing
  BY DEF RecordInv
<1> QED
  BY <1>1, InitInv, NextInv, PTL DEF Spec

\* No draft without a photo, whichever uploads fail: createDraft looks at the
\* photos after the upload.
THEOREM PhotosBeforeDraft == Spec => []DraftsHavePhotos
<1>1. RecordInv => DraftsHavePhotos
  BY DEF RecordInv
<1> QED
  BY <1>1, InitInv, NextInv, PTL DEF Spec

HIDE CatalogRecordAssumption
USE OrderAssumption

-----------------------------------------------------------------------------
(***************************************************************************)
(* The inductive invariant.  A request owns the row it created until it    *)
(* ends; what it mapped and what it has yet to map make the whole order;   *)
(* what Orders was sent stays what Orders has.                             *)
(***************************************************************************)
Active(r) == request[r].pc # "idle"
LinesIn(items) == {i.line : i \in items}

OwnRow ==
  \A r \in Requests : Active(r) =>
    /\ row[request[r].row].purchase # NoPurchase
    /\ ~row[request[r].row].forwarded
    /\ \A q \in Requests : Active(q) /\ q # r => request[q].row # request[r].row

MapsWhole ==
  \A r \in Requests : Active(r) =>
    LinesIn(request[r].items)
      \cup (IF request[r].pc = "lines" THEN request[r].todo ELSE {})
      = LinesOf(request[r].row)

StoresWhole ==
  \A n \in Created : row[n].forwarded \/ row[n].snapshots # {} =>
    LinesIn(row[n].snapshots) = LinesOf(n)

\* Orders has what is about to be recorded.
RecordsSent ==
  \A r \in Requests : request[r].pc = "record" =>
    /\ ExternalOrderId(request[r].row) \in DOMAIN central
    /\ central[ExternalOrderId(request[r].row)] = request[r].items
    /\ request[r].answer \in {ExternalOrderId(request[r].row), NoKey}

\* Every key is the one its row is known by.
KeysOfRows ==
  \A n \in OrderRows : RowKey(n) \in DOMAIN central =>
    n \in Created /\ ~purchase[row[n].purchase].numbered

OrderInv == OrderTypeOK /\ OwnRow /\ MapsWhole /\ StoresWhole /\ RecordsSent
            /\ KeysOfRows /\ ForwardedAgrees

-----------------------------------------------------------------------------
(***************************************************************************)
(* Types and keys                                                          *)
(***************************************************************************)
Sending == [pc: {"lines", "snapshot", "forward", "record"}, row: OrderRows,
            todo: SUBSET Lines, items: SUBSET Item, answer: Keys \cup {NoKey}]

LEMMA IdleIsIdle == IdleRequest \in RequestState /\ IdleRequest.pc = "idle"
BY DEF IdleRequest, RequestState

LEMMA ActiveType ==
  ASSUME OrderTypeOK, NEW r \in Requests
  PROVE  /\ Active(r) => request[r] \in Sending /\ request[r].row \in OrderRows
         /\ ~Active(r) <=> request[r] = IdleRequest
BY DEF OrderTypeOK, Active, RequestState, Sending, IdleRequest

LEMMA KeyType ==
  ASSUME OrderTypeOK, NEW n \in Created
  PROVE  /\ ExternalOrderId(n) \in Keys
         /\ \A m \in OrderRows : ExternalOrderId(n) = RowKey(m) =>
              m = n /\ ~purchase[row[n].purchase].numbered
<1>1. row[n].purchase \in Purchases /\ n \in OrderRows
  BY DEF OrderTypeOK, Created, OrderRow
<1> QED
  BY <1>1 DEF ExternalOrderId, Keys, RowKey, NumberKey

LEMMA OwnRowIsCreated ==
  ASSUME OrderInv, NEW r \in Requests, Active(r)
  PROVE  request[r].row \in Created /\ request[r] \in Sending
BY ActiveType DEF OrderInv, OwnRow, Created

LEMMA OrderInitInv == OrderInit => OrderInv
<1> SUFFICES ASSUME OrderInit PROVE OrderInv
  OBVIOUS
<1>1. Created = {} /\ \A r \in Requests : request[r] = IdleRequest
  BY DEF OrderInit, Created, NoOrder
<1>2. row \in [OrderRows -> OrderRow]
  BY DEF OrderInit, NoOrder, OrderRow
<1>3. request \in [Requests -> RequestState]
  BY IdleIsIdle DEF OrderInit
<1>4. DOMAIN central = {}
  BY DEF OrderInit
<1>5. OrderTypeOK
  BY <1>2, <1>3, <1>4 DEF OrderInit, OrderTypeOK
<1> QED
  BY <1>1, <1>4, <1>5, IdleIsIdle
     DEF OrderInv, OwnRow, MapsWhole, StoresWhole, RecordsSent, KeysOfRows,
         ForwardedAgrees, Active

-----------------------------------------------------------------------------
(***************************************************************************)
(* Steps that change one request only.                                     *)
(***************************************************************************)
\* r goes on before its call, or ends.
LEMMA OrderLocalStep ==
  ASSUME OrderInv, NEW r \in Requests, Active(r),
         NEW q \in RequestState,
         request' = [request EXCEPT ![r] = q],
         \/ q = IdleRequest
         \/ /\ q \in Sending /\ q.pc # "record" /\ q.row = request[r].row
            /\ LinesIn(q.items) \cup (IF q.pc = "lines" THEN q.todo ELSE {})
                 = LinesOf(q.row),
         UNCHANGED <<purchase, listing, adChanges, row, central>>
  PROVE  OrderInv'
<1>1. request' \in [Requests -> RequestState]
      /\ \A s \in Requests : request'[s] = IF s = r THEN q ELSE request[s]
  BY DEF OrderInv, OrderTypeOK
<1>2. OrderTypeOK'
  BY <1>1 DEF OrderInv, OrderTypeOK
<1>3. IdleRequest.pc = "idle"
  BY IdleIsIdle
<1>4. OwnRow'
  BY <1>1, <1>3 DEF OrderInv, OwnRow, Active
<1>5. MapsWhole'
  BY <1>1, <1>3 DEF OrderInv, MapsWhole, Active, LinesOf
<1>6. RecordsSent'
  BY <1>1, <1>3 DEF OrderInv, RecordsSent, ExternalOrderId
<1>7. StoresWhole' /\ KeysOfRows' /\ ForwardedAgrees'
  BY DEF OrderInv, StoresWhole, KeysOfRows, ForwardedAgrees, Created, LinesOf,
         ExternalOrderId, CentralOrderRead
<1> QED
  BY <1>2, <1>4, <1>5, <1>6, <1>7 DEF OrderInv

LEMMA MapLineStep ==
  ASSUME OrderInv, NEW r \in Requests, MapLine(r)
  PROVE  OrderInv'
<1>1. Active(r) /\ request[r] \in Sending /\ request[r].pc = "lines"
  BY OwnRowIsCreated DEF MapLine, Active
<1>2. PICK line \in request[r].todo : \E given \in Mapping(line) :
        request' = [request EXCEPT ![r] =
          IF given \in Unmapped THEN IdleRequest
          ELSE [request[r] EXCEPT !.todo = @ \ {line},
                  !.items = @ \cup {[line |-> line, product |-> given]}]]
  BY Zenon DEF MapLine
<1>3. PICK given \in Mapping(line) :
        request' = [request EXCEPT ![r] =
          IF given \in Unmapped THEN IdleRequest
          ELSE [request[r] EXCEPT !.todo = @ \ {line},
                  !.items = @ \cup {[line |-> line, product |-> given]}]]
  BY <1>2, Zenon
<1>4. CASE given \in Unmapped
  BY <1>1, <1>3, <1>4, IdleIsIdle, OrderLocalStep DEF MapLine
<1>5. CASE given \notin Unmapped
  <2> DEFINE item == [line |-> line, product |-> given]
             q == [request[r] EXCEPT !.todo = @ \ {line},
                                     !.items = @ \cup {item}]
  <2>1. line \in Lines
    BY <1>1 DEF Sending
  <2>2. given \in Products
    BY <1>5, <2>1 DEF Mapping, Lines, OrderInv, OrderTypeOK, AdState
  <2>3. item \in Item
    BY <2>1, <2>2 DEF Item
  <2>4. /\ q \in Sending /\ q.pc = "lines" /\ q.row = request[r].row
        /\ q.items = request[r].items \cup {item}
        /\ q.todo = request[r].todo \ {line}
    BY <1>1, <2>3 DEF Sending
  <2>5. LinesIn(q.items) = LinesIn(request[r].items) \cup {line}
    <3>1. item.line = line
      OBVIOUS
    <3> HIDE DEF item, q
    <3> QED
      BY <2>4, <3>1 DEF LinesIn
  <2>6. LinesIn(request[r].items) \cup request[r].todo = LinesOf(request[r].row)
    BY <1>1 DEF OrderInv, MapsWhole
  <2>7. LinesIn(q.items) \cup q.todo = LinesOf(q.row)
    BY <2>4, <2>5, <2>6
  <2>8. request' = [request EXCEPT ![r] = q] /\ q \in RequestState
    BY <1>3, <1>5, <2>4 DEF Sending, RequestState
  <2> HIDE DEF q
  <2> QED
    BY <1>1, <2>4, <2>7, <2>8, OrderLocalStep DEF MapLine
<1> QED
  BY <1>4, <1>5

LEMMA MapDoneStep ==
  ASSUME OrderInv, NEW r \in Requests, MapDone(r)
  PROVE  OrderInv'
<1>1. Active(r) /\ request[r] \in Sending /\ request[r].pc = "lines"
      /\ request[r].todo = {}
  BY OwnRowIsCreated DEF MapDone, Active
<1>2. CASE request[r].items = {}
  <2>1. request' = [request EXCEPT ![r] = IdleRequest]
    BY <1>2 DEF MapDone
  <2> QED
    BY <1>1, <2>1, IdleIsIdle, OrderLocalStep DEF MapDone
<1>3. CASE request[r].items # {}
  <2> DEFINE q == [request[r] EXCEPT !.pc = "snapshot"]
  <2>1. /\ q \in Sending /\ q.pc = "snapshot" /\ q.row = request[r].row
        /\ q.items = request[r].items
    BY <1>1 DEF Sending
  <2>2. request' = [request EXCEPT ![r] = q] /\ q \in RequestState
    BY <1>1, <1>3, <2>1 DEF MapDone, Sending, RequestState
  <2>3. LinesIn(q.items) = LinesOf(q.row)
    BY <1>1, <2>1 DEF OrderInv, MapsWhole
  <2> HIDE DEF q
  <2> QED
    BY <1>1, <2>1, <2>2, <2>3, OrderLocalStep DEF MapDone
<1> QED
  BY <1>2, <1>3

LEMMA LoseStep ==
  ASSUME OrderInv, NEW r \in Requests, Lose(r)
  PROVE  OrderInv'
<1>1. Active(r)
  BY ActiveType DEF Lose, OrderInv
<1> QED
  BY <1>1, IdleIsIdle, OrderLocalStep DEF Lose

-----------------------------------------------------------------------------
(***************************************************************************)
(* The call to Orders.                                                     *)
(***************************************************************************)
\* Orders keeps what it has.
LEMMA AcceptsKeeps ==
  ASSUME NEW key, NEW items, Accepts(key, items)
  PROVE  /\ DOMAIN central' = DOMAIN central \cup {key}
         /\ central'[key] = items
         /\ \A k \in DOMAIN central : central'[k] = central[k]
BY DEF Accepts

\* The call of r arrives: r records it, or has lost the answer.
LEMMA SendStep ==
  ASSUME OrderInv, NEW r \in Requests, request[r].pc = "forward",
         Accepts(ExternalOrderId(request[r].row), request[r].items),
         NEW q \in RequestState,
         request' = [request EXCEPT ![r] = q],
         \/ q = IdleRequest
         \/ /\ q \in Sending /\ q.pc = "record" /\ q.row = request[r].row
            /\ q.items = request[r].items
            /\ q.answer \in {ExternalOrderId(request[r].row), NoKey},
         UNCHANGED <<purchase, listing, adChanges, row>>
  PROVE  OrderInv'
<1> DEFINE key == ExternalOrderId(request[r].row)
<1>0. Active(r) /\ request[r].row \in Created /\ request[r] \in Sending
  BY OwnRowIsCreated DEF Active
<1>1. request' \in [Requests -> RequestState]
      /\ \A s \in Requests : request'[s] = IF s = r THEN q ELSE request[s]
  BY DEF OrderInv, OrderTypeOK
<1>2. /\ DOMAIN central' = DOMAIN central \cup {key}
      /\ central'[key] = request[r].items
      /\ \A k \in DOMAIN central : central'[k] = central[k]
  BY AcceptsKeeps
<1>3. key \in Keys /\ \A m \in OrderRows : key = RowKey(m) =>
        m \in Created /\ ~purchase[row[m].purchase].numbered
  BY <1>0, KeyType DEF OrderInv
<1>4. OrderTypeOK'
  <2>1. \A k \in DOMAIN central' : k \in Keys /\ central'[k] \subseteq Item
    BY <1>0, <1>2, <1>3 DEF OrderInv, OrderTypeOK, Sending
  <2> QED
    BY <1>1, <2>1 DEF OrderInv, OrderTypeOK
<1>5. IdleRequest.pc = "idle"
  BY IdleIsIdle
<1>6. OwnRow'
  BY <1>0, <1>1, <1>5 DEF OrderInv, OwnRow, Active
<1>7. MapsWhole'
  BY <1>0, <1>1, <1>5 DEF OrderInv, MapsWhole, Active, LinesOf
<1>8. \A n \in OrderRows : ExternalOrderId(n)' = ExternalOrderId(n)
  BY DEF ExternalOrderId
<1>9. RecordsSent'
  BY <1>0, <1>1, <1>2, <1>5, <1>8, OwnRowIsCreated
     DEF OrderInv, RecordsSent, Active, Sending
<1>10. StoresWhole' /\ Created' = Created
  BY DEF OrderInv, StoresWhole, Created, LinesOf
<1>11. KeysOfRows'
  BY <1>2, <1>3, <1>10 DEF OrderInv, KeysOfRows
<1>12. ForwardedAgrees'
  BY <1>2, <1>8, <1>10 DEF OrderInv, ForwardedAgrees, CentralOrderRead, Created
<1> QED
  BY <1>4, <1>6, <1>7, <1>9, <1>10, <1>11, <1>12 DEF OrderInv

LEMMA ForwardStep ==
  ASSUME OrderInv, NEW r \in Requests, Forward(r) \/ ForwardFails(r)
  PROVE  OrderInv'
<1> DEFINE key == ExternalOrderId(request[r].row)
<1>1. request[r].pc = "forward" /\ request[r] \in Sending /\ Active(r)
      /\ request[r].row \in Created
  BY OwnRowIsCreated DEF Forward, ForwardFails, Active
<1>2. CASE Forward(r)
  <2>1. PICK answer \in {key, NoKey} :
          request' = [request EXCEPT ![r].pc = "record", ![r].answer = answer]
    BY <1>2 DEF Forward
  <2> DEFINE q == [request[r] EXCEPT !.pc = "record", !.answer = answer]
  <2>2. answer \in Keys \cup {NoKey}
    BY <1>1, KeyType DEF OrderInv
  <2>3. /\ q \in Sending /\ q.pc = "record" /\ q.row = request[r].row
        /\ q.items = request[r].items /\ q.answer = answer
    BY <1>1, <2>2 DEF Sending
  <2>4. request' = [request EXCEPT ![r] = q] /\ q \in RequestState
    BY <2>1, <2>3 DEF Sending, RequestState
  <2> HIDE DEF q
  <2> QED
    BY <1>1, <1>2, <2>3, <2>4, SendStep DEF Forward
<1>3. CASE ForwardFails(r)
  <2>1. CASE UNCHANGED central
    BY <1>1, <1>3, <2>1, IdleIsIdle, OrderLocalStep DEF ForwardFails
  <2>2. CASE Accepts(key, request[r].items)
    BY <1>1, <1>3, <2>2, IdleIsIdle, SendStep DEF ForwardFails
  <2> QED
    BY <1>3, <2>1, <2>2 DEF ForwardFails
<1> QED
  BY <1>2, <1>3

-----------------------------------------------------------------------------
(***************************************************************************)
(* Steps that write a row.                                                 *)
(***************************************************************************)
\* r writes its own row: the items it mapped, and maybe that they were sent.
LEMMA OrderRowStep ==
  ASSUME OrderInv, NEW r \in Requests, Active(r), request[r].pc # "lines",
         NEW q \in RequestState,
         request' = [request EXCEPT ![r] = q],
         NEW w \in OrderRow,
         row' = [row EXCEPT ![request[r].row] = w],
         w.purchase = row[request[r].row].purchase,
         w.snapshots = request[r].items,
         \/ /\ q = IdleRequest /\ request[r].pc = "record" /\ w.orderId = request[r].answer
         \/ /\ q \in Sending /\ q.pc = "forward" /\ q.row = request[r].row
            /\ q.items = request[r].items /\ ~w.forwarded,
         UNCHANGED <<purchase, listing, adChanges, central>>
  PROVE  OrderInv'
<1> DEFINE n == request[r].row
<1>0. n \in Created /\ n \in OrderRows /\ request[r] \in Sending
  BY OwnRowIsCreated DEF Created
<1>1. /\ request' \in [Requests -> RequestState] /\ row' \in [OrderRows -> OrderRow]
      /\ \A s \in Requests : request'[s] = IF s = r THEN q ELSE request[s]
      /\ \A m \in OrderRows : row'[m] = IF m = n THEN w ELSE row[m]
  BY <1>0 DEF OrderInv, OrderTypeOK
<1>2. OrderTypeOK'
  BY <1>1 DEF OrderInv, OrderTypeOK
<1>3. IdleRequest.pc = "idle"
  BY IdleIsIdle
<1>4. \A m \in OrderRows : /\ row'[m].purchase = row[m].purchase
                      /\ ExternalOrderId(m)' = ExternalOrderId(m)
                      /\ LinesOf(m)' = LinesOf(m)
  BY <1>0, <1>1 DEF ExternalOrderId, LinesOf
<1>5. Created' = Created
  BY <1>4 DEF Created
<1>6. \A s \in Requests : s # r /\ Active(s) =>
        request[s].row # n /\ request[s].row \in OrderRows
  BY OwnRowIsCreated DEF OrderInv, OwnRow, Created
<1>7. OwnRow'
  BY <1>0, <1>1, <1>3, <1>4, <1>6 DEF OrderInv, OwnRow, Active
<1>8. MapsWhole'
  BY <1>0, <1>1, <1>3, <1>4, <1>6, SMTT(30) DEF OrderInv, MapsWhole, Active
<1>9. LinesIn(request[r].items) = LinesOf(n)
  BY <1>0 DEF OrderInv, MapsWhole, Sending
<1>10. StoresWhole'
  BY <1>0, <1>1, <1>4, <1>5, <1>9 DEF OrderInv, StoresWhole, Created
<1>11. RecordsSent'
  BY <1>0, <1>1, <1>3, <1>4, <1>6 DEF OrderInv, RecordsSent, Active
<1>12. KeysOfRows'
  BY <1>1, <1>4, <1>5 DEF OrderInv, KeysOfRows
<1>13. ForwardedAgrees'
  <2> SUFFICES ASSUME NEW m \in Created, row'[m].forwarded
               PROVE  /\ ExternalOrderId(m) \in DOMAIN central
                      /\ central[ExternalOrderId(m)] = row'[m].snapshots
                      /\ CentralOrderRead(m)' = "ok" =>
                           row'[m].orderId = ExternalOrderId(m)
    BY <1>4, <1>5 DEF ForwardedAgrees, Created
  <2>1. m \in OrderRows
    BY DEF Created
  <2>2. CASE m = n
    <3>1. /\ ExternalOrderId(n) \in DOMAIN central
          /\ central[ExternalOrderId(n)] = request[r].items
          /\ w.orderId \in {ExternalOrderId(n), NoKey}
      BY <1>1, <2>1, <2>2 DEF OrderInv, RecordsSent
    <3> QED
      BY <1>1, <2>1, <2>2, <3>1 DEF CentralOrderRead
  <2>3. CASE m # n
    BY <1>1, <2>1, <2>3 DEF OrderInv, ForwardedAgrees, CentralOrderRead
  <2> QED
    BY <2>2, <2>3
<1> QED
  BY <1>2, <1>7, <1>8, <1>10, <1>11, <1>12, <1>13 DEF OrderInv

LEMMA SnapshotStep ==
  ASSUME OrderInv, NEW r \in Requests, Snapshot(r)
  PROVE  OrderInv'
<1>1. /\ Active(r) /\ request[r] \in Sending /\ request[r].row \in Created
      /\ request[r].pc = "snapshot"
  BY OwnRowIsCreated DEF Snapshot, Active
<1> DEFINE q == [request[r] EXCEPT !.pc = "forward"]
           w == [row[request[r].row] EXCEPT !.snapshots = request[r].items]
<1>2. /\ q \in Sending /\ q.pc = "forward" /\ q.row = request[r].row
      /\ q.items = request[r].items
  BY <1>1 DEF Sending
<1>3. q \in RequestState /\ request' = [request EXCEPT ![r] = q]
  BY <1>2 DEF Sending, RequestState, Snapshot
<1>4. /\ w \in OrderRow /\ w.purchase = row[request[r].row].purchase
      /\ w.snapshots = request[r].items
      /\ w.forwarded = row[request[r].row].forwarded
  BY <1>1 DEF OrderInv, OrderTypeOK, OrderRow, Sending, Created
<1>5. row' = [row EXCEPT ![request[r].row] = w]
  BY DEF Snapshot
<1>6. ~w.forwarded
  BY <1>1, <1>4 DEF OrderInv, OwnRow
<1> HIDE DEF q, w
<1> QED
  BY <1>1, <1>2, <1>3, <1>4, <1>5, <1>6, OrderRowStep DEF Snapshot

LEMMA RecordStep ==
  ASSUME OrderInv, NEW r \in Requests, Record(r)
  PROVE  OrderInv'
<1>1. /\ Active(r) /\ request[r] \in Sending /\ request[r].row \in Created
      /\ request[r].pc = "record"
  BY OwnRowIsCreated DEF Record, Active
<1> DEFINE w == [row[request[r].row] EXCEPT !.orderId = request[r].answer,
                   !.forwarded = TRUE, !.snapshots = request[r].items]
<1>2. /\ w \in OrderRow /\ w.purchase = row[request[r].row].purchase
      /\ w.snapshots = request[r].items /\ w.orderId = request[r].answer
  <2>1. row[request[r].row] \in OrderRow
    BY <1>1 DEF OrderInv, OrderTypeOK, Created
  <2>2. /\ request[r].items \in SUBSET Item
        /\ request[r].answer \in Keys \cup {NoKey}
    BY <1>1 DEF Sending
  <2> QED
    BY <2>1, <2>2 DEF OrderRow
<1>3. row' = [row EXCEPT ![request[r].row] = w]
  BY <1>1 DEF Record, Created, OrderInv, OrderTypeOK
<1>4. request' = [request EXCEPT ![r] = IdleRequest]
  BY DEF Record
<1> HIDE DEF w
<1> QED
  BY <1>1, <1>2, <1>3, <1>4, IdleIsIdle, OrderRowStep DEF Record

LEMMA CreateStep ==
  ASSUME OrderInv, NEW r \in Requests, NEW m \in Purchases, NEW n \in OrderRows,
         Create(r, m, n)
  PROVE  OrderInv'
<1> DEFINE q == [IdleRequest EXCEPT !.pc = "lines", !.row = n,
                                   !.todo = purchase[m].lines]
           w == [row[n] EXCEPT !.purchase = m]
<1>0. row[n] = NoOrder /\ n \notin Created /\ m # NoPurchase
  BY DEF Create, Created, NoOrder
<1>1. /\ q \in Sending /\ q.pc = "lines" /\ q.row = n /\ q.items = {}
      /\ q.todo = purchase[m].lines
  BY DEF IdleRequest, Sending, OrderInv, OrderTypeOK, Payload
<1>2. /\ w \in OrderRow /\ w.purchase = m /\ w.snapshots = {} /\ ~w.forwarded
  <2>1. row[n] \in OrderRow
    BY DEF OrderInv, OrderTypeOK
  <2>2. /\ w \in OrderRow /\ w.purchase = m
        /\ w.snapshots = row[n].snapshots /\ w.forwarded = row[n].forwarded
    BY <2>1 DEF OrderRow
  <2>3. row[n].snapshots = {} /\ row[n].forwarded = FALSE
    BY <1>0 DEF NoOrder
  <2> QED
    BY <2>2, <2>3
<1>3. request' = [request EXCEPT ![r] = q] /\ row' = [row EXCEPT ![n] = w]
  BY DEF Create
<1> HIDE DEF q, w
<1>4. /\ request' \in [Requests -> RequestState] /\ row' \in [OrderRows -> OrderRow]
      /\ \A s \in Requests : request'[s] = IF s = r THEN q ELSE request[s]
      /\ \A k \in OrderRows : row'[k] = IF k = n THEN w ELSE row[k]
  BY <1>1, <1>2, <1>3 DEF OrderInv, OrderTypeOK, Sending, RequestState
<1>5. OrderTypeOK'
  BY <1>4 DEF OrderInv, OrderTypeOK, Create
<1>6. Created' = Created \cup {n}
  BY <1>0, <1>2, <1>4 DEF Created
<1>7. \A k \in Created : /\ k \in OrderRows /\ row'[k] = row[k]
                         /\ ExternalOrderId(k)' = ExternalOrderId(k)
                         /\ LinesOf(k)' = LinesOf(k)
  BY <1>0, <1>4 DEF Created, ExternalOrderId, LinesOf, Create
<1>8. LinesOf(n)' = purchase[m].lines
  BY <1>2, <1>4 DEF LinesOf, Create
<1>9. \A s \in Requests : Active(s) => request[s].row \in Created
  BY OwnRowIsCreated
<1>10. OwnRow'
  BY <1>0, <1>1, <1>2, <1>4, <1>7, <1>9 DEF OrderInv, OwnRow, Active
<1>11. MapsWhole'
  BY <1>1, <1>4, <1>7, <1>8, <1>9 DEF OrderInv, MapsWhole, Active, LinesIn
<1>12. StoresWhole'
  BY <1>2, <1>4, <1>6, <1>7 DEF OrderInv, StoresWhole
<1>13. RecordsSent'
  BY <1>1, <1>4, <1>7, <1>9 DEF OrderInv, RecordsSent, Active, Create
<1>14. KeysOfRows'
  BY <1>6, <1>7 DEF OrderInv, KeysOfRows, Create
<1>15. ForwardedAgrees'
  <2>1. ~row'[n].forwarded /\ central' = central
    BY <1>2, <1>4 DEF Create
  <2>2. \A k \in Created : CentralOrderRead(k)' = CentralOrderRead(k)
    BY <1>7 DEF CentralOrderRead
  <2> QED
    BY <1>6, <1>7, <2>1, <2>2 DEF OrderInv, ForwardedAgrees
<1> QED
  BY <1>5, <1>10, <1>11, <1>12, <1>13, <1>14, <1>15 DEF OrderInv

LEMMA ChangeAdStep ==
  ASSUME OrderInv, NEW l \in Listings, ChangeAd(l)
  PROVE  OrderInv'
<1>1. OrderTypeOK'
  BY DEF OrderInv, OrderTypeOK, ChangeAd
<1> QED
  BY <1>1
     DEF OrderInv, ChangeAd, OwnRow, MapsWhole, StoresWhole, RecordsSent,
         KeysOfRows, ForwardedAgrees, Active, Created, LinesOf, ExternalOrderId,
         CentralOrderRead

LEMMA OrderNextInv ==
  ASSUME OrderInv, [OrderNext]_orderVars
  PROVE  OrderInv'
<1>1. CASE UNCHANGED orderVars
  BY <1>1
     DEF orderVars, OrderInv, OrderTypeOK, OwnRow, MapsWhole, StoresWhole, RecordsSent,
         KeysOfRows, ForwardedAgrees, Active, Created, LinesOf, ExternalOrderId,
         CentralOrderRead
<1>2. CASE OrderNext
  BY <1>2, CreateStep, MapLineStep, MapDoneStep, SnapshotStep, ForwardStep,
     RecordStep, LoseStep, ChangeAdStep
     DEF OrderNext
<1> QED
  BY <1>1, <1>2

-----------------------------------------------------------------------------
(***************************************************************************)
(* Theorems.                                                               *)
(***************************************************************************)
\* Rows, requests and what Orders has keep their types.
THEOREM OrderTypeCorrect == OrderSpec => []OrderTypeOK
<1>1. OrderInv => OrderTypeOK
  BY DEF OrderInv
<1> QED
  BY <1>1, OrderInitInv, OrderNextInv, PTL DEF OrderSpec

\* What a row calls forwarded Orders has, with the items the row replays:
\* the statement that records it writes the items of its own call.
THEOREM Agrees == OrderSpec => []ForwardedAgrees
<1>1. OrderInv => ForwardedAgrees
  BY DEF OrderInv
<1> QED
  BY <1>1, OrderInitInv, OrderNextInv, PTL DEF OrderSpec

\* An order is forwarded or replayed with all its lines or not at all, though
\* ads change between the queries of its lines.
THEOREM Whole == OrderSpec => []WholeOrder
<1>1. OrderInv => WholeOrder
  <2> SUFFICES ASSUME OrderInv, NEW n \in Created,
                      row[n].forwarded \/ Replayed(n) \/ row[n].snapshots # {}
               PROVE  {i.line : i \in row[n].snapshots} = LinesOf(n)
    BY DEF WholeOrder
  <2>1. CASE row[n].forwarded \/ row[n].snapshots # {}
    BY <2>1 DEF OrderInv, StoresWhole, LinesIn
  <2>2. CASE row[n].snapshots = {} /\ Replayed(n)
    <3>1. {i.product : i \in row[n].snapshots} = {}
      BY <2>2
    <3>2. Cardinality({i.product : i \in row[n].snapshots}) = 0
      BY <3>1, FS_EmptySet
    <3> QED
      BY <2>2, <3>2 DEF Replayed
  <2> QED
    BY <2>1, <2>2
<1> QED
  BY <1>1, OrderInitInv, OrderNextInv, PTL DEF OrderSpec

\* Orders has a numbered order once, however often its webhook is delivered,
\* overlaps itself or is lost half way: it is known by its number alone.
THEOREM Once == OrderSpec => []OncePerPurchase
<1>1. OrderInv => OncePerPurchase
  <2> SUFFICES ASSUME OrderInv, NEW m \in Purchases, purchase[m].numbered
               PROVE  Cardinality({k \in DOMAIN central :
                        \/ k = NumberKey(m)
                        \/ \E n \in Created : row[n].purchase = m /\ k = RowKey(n)})
                        <= 1
    BY DEF OncePerPurchase
  <2> DEFINE S == {k \in DOMAIN central :
                     \/ k = NumberKey(m)
                     \/ \E n \in Created : row[n].purchase = m /\ k = RowKey(n)}
  <2>1. S \subseteq {NumberKey(m)}
    BY DEF OrderInv, KeysOfRows, Created
  <2>2. S = {} \/ S = {NumberKey(m)}
    BY <2>1
  <2>3. Cardinality(S) \in {0, 1}
    BY <2>2, FS_EmptySet, FS_Singleton
  <2> QED
    BY <2>3
<1> QED
  BY <1>1, OrderInitInv, OrderNextInv, PTL DEF OrderSpec

HIDE OrderAssumption
USE CatalogRecordAssumption

-----------------------------------------------------------------------------
(***************************************************************************)
(* The tags, until two requests on the product overlap, see ServicesMC.  A *)
(* request that will write tags back has seen those of every draft that    *)
(* was tagged, and is alone: nobody tags one in between.                   *)
(***************************************************************************)
SeesTagged ==
  \A w \in Workers : job[w].pc \in {"mark", "tag"} => tagged \subseteq job[w].seen

AloneInv ==
  /\ RecordInv
  /\ IsFiniteSet(Busy)
  /\ ~overlapped => Cardinality(Busy) <= 1 /\ TagsKept /\ SeesTagged

LEMMA OthersStay ==
  ASSUME RecordInv, NEW w \in Workers,
         \/ CreateDraft(w) \/ CreateWithUploads(w) \/ Search(w) \/ Mark(w)
         \/ Make(w) \/ Media(w) \/ Upload(w) \/ Insert(w) \/ Fetch(w)
         \/ AttachTag(w) \/ SyncStart(w) \/ SyncStock(w) \/ SyncFind(w)
         \/ SyncPrice(w) \/ SyncWrite(w) \/ LookUp(w) \/ Told(w)
  PROVE  \A v \in Workers \ {w} : job'[v] = job[v]
<1>1. job \in [Workers -> JobRow]
  BY InvFields
<1>2. ASSUME \/ Search(w) \/ Mark(w) \/ Make(w) \/ Media(w) \/ Upload(w)
             \/ Insert(w) \/ Fetch(w) \/ AttachTag(w)
      PROVE  \A v \in Workers \ {w} : job'[v] = job[v]
  BY <1>1, <1>2
     DEF Search, Mark, Make, Media, Upload, Insert, Fetch, AttachTag, Move, Finish
<1>3. ASSUME \/ CreateDraft(w) \/ CreateWithUploads(w) \/ SyncStart(w)
             \/ SyncStock(w) \/ SyncFind(w) \/ SyncPrice(w) \/ SyncWrite(w)
             \/ LookUp(w) \/ Told(w)
      PROVE  \A v \in Workers \ {w} : job'[v] = job[v]
  BY <1>1, <1>3
     DEF CreateDraft, CreateWithUploads, SyncStart, Start, SyncStock, SyncFind,
         SyncPrice, SyncWrite, LookUp, Told, Move, Finish
<1> QED
  BY <1>2, <1>3

\* What worker w does, told by what it writes and where it goes.
Writes(w) ==
  \/ /\ UNCHANGED <<tagged>> /\ product'.tags = product.tags
     /\ job'[w].pc \notin {"mark", "tag"}
  \/ /\ UNCHANGED <<product, tagged>> /\ job'[w].seen = product.tags
  \/ /\ UNCHANGED <<tagged>> /\ product'.tags = job[w].seen
     /\ job[w].pc = "mark" /\ job'[w].pc = "media"
  \/ /\ tagged' = tagged \cup {job[w].ad}
     /\ product'.tags = job[w].seen \cup {job[w].ad}
     /\ job[w].pc = "tag" /\ job'[w].pc = "idle"

LEMMA GoesTo ==
  ASSUME job \in [Workers -> JobRow], NEW w \in Workers, NEW pc, NEW x
  PROVE  /\ Move(w, pc) => job'[w].pc = pc
         /\ Finish(w) => job'[w].pc = "idle"
         /\ job' = [job EXCEPT ![w].pc = pc, ![w].seen = x] =>
              job'[w].pc = pc /\ job'[w].seen = x
         /\ job' = [job EXCEPT ![w].seen = x, ![w].pc = pc] =>
              job'[w].pc = pc /\ job'[w].seen = x
         /\ job' = [job EXCEPT ![w].photos = x, ![w].pc = pc] => job'[w].pc = pc
         /\ job' = [job EXCEPT ![w].ad = x, ![w].pc = pc] => job'[w].pc = pc
         /\ job' = [job EXCEPT ![w].stock = x, ![w].pc = pc] => job'[w].pc = pc
         /\ job' = [job EXCEPT ![w].price = x, ![w].pc = pc] => job'[w].pc = pc
<1>1. job[w] \in JobRow
  OBVIOUS
<1>2. Move(w, pc) => job'[w].pc = pc
  BY <1>1 DEF Move, JobRow
<1>3. Finish(w) => job'[w].pc = "idle"
  BY DEF Finish, Idle
<1>4. job' = [job EXCEPT ![w].pc = pc, ![w].seen = x] =>
        job'[w].pc = pc /\ job'[w].seen = x
  BY <1>1 DEF JobRow
<1>5. job' = [job EXCEPT ![w].seen = x, ![w].pc = pc] =>
        job'[w].pc = pc /\ job'[w].seen = x
  BY <1>1 DEF JobRow
<1>6. /\ job' = [job EXCEPT ![w].photos = x, ![w].pc = pc] => job'[w].pc = pc
      /\ job' = [job EXCEPT ![w].ad = x, ![w].pc = pc] => job'[w].pc = pc
      /\ job' = [job EXCEPT ![w].stock = x, ![w].pc = pc] => job'[w].pc = pc
      /\ job' = [job EXCEPT ![w].price = x, ![w].pc = pc] => job'[w].pc = pc
  BY <1>1 DEF JobRow
<1> QED
  BY <1>2, <1>3, <1>4, <1>5, <1>6

LEMMA WritesStep ==
  ASSUME RecordInv, NEW w \in Workers,
         \/ CreateDraft(w) \/ CreateWithUploads(w) \/ Search(w) \/ Mark(w)
         \/ Make(w) \/ Media(w) \/ Upload(w) \/ Insert(w) \/ Fetch(w)
         \/ AttachTag(w) \/ SyncStart(w) \/ SyncStock(w) \/ SyncFind(w)
         \/ SyncPrice(w) \/ SyncWrite(w) \/ LookUp(w) \/ Told(w)
  PROVE  Writes(w)
<1> USE DEF external
<1>0. /\ job \in [Workers -> JobRow]
      /\ product \in [exists : BOOLEAN, priced : BOOLEAN, tags : SUBSET Ads]
  BY InvFields
<1>1. \A tags : [product EXCEPT !.tags = tags].tags = tags
  BY <1>0
<1>2. [product EXCEPT !.exists = TRUE].tags = product.tags
  BY <1>0
<1>3. ASSUME tagged' = tagged, product'.tags = product.tags,
             job'[w].pc \notin {"mark", "tag"}
      PROVE  Writes(w)
  BY <1>3 DEF Writes
<1>4. ASSUME CreateDraft(w) \/ CreateWithUploads(w) \/ SyncStart(w) PROVE Writes(w)
  <2>1. \A kind, pc : Start(w, kind, pc) => job'[w].pc = pc
    BY <1>0 DEF Start, Idle
  <2> QED
    BY <1>3, <1>4, <2>1 DEF CreateDraft, CreateWithUploads, SyncStart, Start
<1>5. CASE Search(w)
  <2>1. tagged' = tagged /\ product' = product
    BY <1>5 DEF Search
  <2>2. CASE Finish(w)
    BY <1>0, <1>3, <2>1, <2>2, GoesTo
  <2>3. CASE job' = [job EXCEPT ![w].pc = IF product.exists THEN "mark"
                                          ELSE "make",
                                ![w].seen = product.tags]
    BY <1>0, <2>1, <2>3, GoesTo DEF Writes
  <2> QED
    BY <1>5, <2>2, <2>3 DEF Search
<1>6. CASE Mark(w)
  <2>1. CASE Finish(w) /\ UNCHANGED product
    BY <1>0, <1>3, <1>6, <2>1, GoesTo DEF Mark
  <2>2. CASE /\ product' = [product EXCEPT !.tags = mergeTags(job[w].seen, {})]
             /\ Move(w, "media")
    BY <1>0, <1>1, <1>6, <2>2, GoesTo DEF Mark, At, mergeTags, Writes
  <2> QED
    BY <1>6, <2>1, <2>2 DEF Mark
<1>7. CASE Make(w)
  BY <1>0, <1>2, <1>3, <1>7, GoesTo DEF Make
<1>8. CASE Media(w)
  <2>1. PICK pc \in {"insert", "upload"} :
          job' = [job EXCEPT ![w].photos = job[w].kind = "draft", ![w].pc = pc]
    BY <1>8 DEF Media
  <2>2. PICK photos : job' = [job EXCEPT ![w].photos = photos, ![w].pc = pc]
    BY <2>1
  <2>3. job'[w].pc = pc
    BY ONLY <1>0, <2>2, GoesTo, w \in Workers
  <2>4. tagged' = tagged /\ product' = product
    BY <1>8 DEF Media
  <2> QED
    BY <1>3, <2>3, <2>4
<1>9. CASE Upload(w)
  BY <1>0, <1>3, <1>9, GoesTo DEF Upload
<1>10. CASE Insert(w)
  BY <1>0, <1>3, <1>10, GoesTo DEF Insert
<1>11. CASE Fetch(w)
  <2>1. tagged' = tagged /\ product' = product
    BY <1>11 DEF Fetch
  <2>2. CASE Finish(w)
    BY <1>0, <1>3, <2>1, <2>2, GoesTo
  <2>3. CASE job' = [job EXCEPT ![w].seen = product.tags, ![w].pc = "tag"]
    BY <1>0, <2>1, <2>3, GoesTo DEF Writes
  <2> QED
    BY <1>11, <2>2, <2>3 DEF Fetch
<1>12. CASE AttachTag(w)
  <2>1. job[w].pc = "tag" /\ job'[w].pc = "idle"
    BY <1>0, <1>12, GoesTo DEF AttachTag, At
  <2>2. CASE UNCHANGED <<product, tagged>>
    BY <1>3, <2>1, <2>2
  <2>3. CASE /\ product' = [product EXCEPT
                    !.tags = mergeTags(job[w].seen, {job[w].ad})]
             /\ tagged' = tagged \cup {job[w].ad}
    BY <1>1, <2>1, <2>3 DEF mergeTags, Writes
  <2> QED
    BY <1>12, <2>2, <2>3 DEF AttachTag
<1>13. CASE SyncStock(w)
  BY <1>0, <1>3, <1>13, GoesTo DEF SyncStock
<1>14. CASE SyncFind(w)
  <2>1. \/ Move(w, "price")
        \/ \E a \in Ads : job' = [job EXCEPT ![w].ad = a, ![w].pc = "price"]
    BY <1>14 DEF SyncFind
  <2>2. job'[w].pc = "price"
    BY <1>0, <2>1, GoesTo
  <2> QED
    BY <1>3, <1>14, <2>2 DEF SyncFind
<1>15. CASE SyncPrice(w)
  BY <1>0, <1>3, <1>15, GoesTo DEF SyncPrice
<1>16. CASE SyncWrite(w) \/ Told(w)
  BY <1>0, <1>3, <1>16, GoesTo DEF SyncWrite, Told
<1>17. CASE LookUp(w)
  <2>1. job'[w].pc = "told"
    BY <1>0, <1>17 DEF LookUp, Idle
  <2> QED
    BY <1>3, <1>17, <2>1 DEF LookUp
<1> QED
  BY <1>4, <1>5, <1>6, <1>7, <1>8, <1>9, <1>10, <1>11, <1>12, <1>13, <1>14,
     <1>15, <1>16, <1>17

LEMMA BusyStep ==
  ASSUME RecordInv, IsFiniteSet(Busy), [Next]_vars
  PROVE  IsFiniteSet(Busy')
<1>1. ASSUME NEW w \in Workers, \A v \in Workers \ {w} : job'[v] = job[v]
      PROVE  IsFiniteSet(Busy')
  <2>1. Busy' \subseteq Busy \cup {w}
    BY <1>1 DEF Busy
  <2>2. IsFiniteSet(Busy \cup {w})
    BY FS_AddElement
  <2> QED
    BY <2>1, <2>2, FS_Subset
<1>2. ASSUME job' = job PROVE IsFiniteSet(Busy')
  BY <1>2 DEF Busy
<1> QED
  BY <1>1, <1>2, OthersStay DEF Next, vars

LEMMA NobodyElse ==
  ASSUME IsFiniteSet(Busy), Cardinality(Busy) <= 1, NEW w \in Busy, NEW v \in Busy
  PROVE  v = w
<1>1. Cardinality(Busy) \in Nat /\ Cardinality(Busy) # 0
  BY FS_CardinalityType, FS_EmptySet
<1>2. PICK x : Busy = {x}
  BY <1>1, FS_Singleton
<1> QED
  BY <1>2

LEMMA TagsStep ==
  ASSUME RecordInv, IsFiniteSet(Busy), Cardinality(Busy) <= 1, TagsKept,
         SeesTagged, [Next]_vars
  PROVE  TagsKept' /\ SeesTagged'
<1>0. job \in [Workers -> JobRow]
  BY InvFields
<1>1. CASE UNCHANGED <<job, product, tagged>>
  BY <1>1 DEF TagsKept, SeesTagged
<1>2. ASSUME NEW w \in Workers, Writes(w),
             \A v \in Workers \ {w} : job'[v] = job[v]
      PROVE  TagsKept' /\ SeesTagged'
  <2>1. TagsKept'
    BY <1>2 DEF Writes, TagsKept, SeesTagged
  <2>2. ASSUME NEW v \in Workers, job'[v].pc \in {"mark", "tag"}
        PROVE  tagged' \subseteq job'[v].seen
    <3>1. CASE v = w
      BY <1>2, <2>2, <3>1 DEF Writes, TagsKept
    <3>2. CASE v # w
      <4>1. job'[v] = job[v] /\ v \in Busy
        BY <1>2, <2>2, <3>2 DEF Busy
      <4>2. job[w].pc # "tag"
        BY <3>2, <4>1, NobodyElse DEF Busy
      <4>3. tagged' = tagged
        BY <1>2, <4>2 DEF Writes
      <4> QED
        BY <2>2, <4>1, <4>3 DEF SeesTagged
    <3> QED
      BY <3>1, <3>2
  <2> QED
    BY <2>1, <2>2 DEF SeesTagged
<1>3. \/ UNCHANGED <<job, product, tagged>>
      \/ \E w \in Workers : /\ Writes(w)
                            /\ \A v \in Workers \ {w} : job'[v] = job[v]
  <2>1. CASE UNCHANGED vars
    BY <2>1 DEF vars
  <2>2. CASE Next
    BY <2>2, WritesStep, OthersStay DEF Next
  <2> QED
    BY <2>1, <2>2
<1> QED
  BY <1>1, <1>2, <1>3

LEMMA InitAlone == ServicesInit => AloneInv
<1> SUFFICES ASSUME ServicesInit PROVE AloneInv
  OBVIOUS
<1>1. Init /\ RecordInv
  BY InitInv DEF ServicesInit
<1>2. Busy = {} /\ tagged = {}
  BY <1>1 DEF Init, Busy, Idle
<1>3. IsFiniteSet(Busy) /\ Cardinality(Busy) = 0
  BY <1>2, FS_EmptySet
<1> QED
  BY <1>1, <1>2, <1>3 DEF AloneInv, TagsKept, SeesTagged

LEMMA NextAlone == AloneInv /\ [ServicesNext]_ServicesVars => AloneInv'
<1> SUFFICES ASSUME AloneInv, [ServicesNext]_ServicesVars PROVE AloneInv'
  OBVIOUS
<1>0. RecordInv /\ IsFiniteSet(Busy) /\ [Next]_vars
  BY DEF AloneInv, ServicesNext, ServicesVars
<1>1. RecordInv' /\ IsFiniteSet(Busy')
  BY <1>0, NextInv, BusyStep
<1>2. Cardinality(Busy') \in Nat
  BY <1>1, FS_CardinalityType
<1>3. ASSUME ~overlapped' PROVE ~overlapped /\ Cardinality(Busy') <= 1
  <2>1. CASE ServicesNext
    <3>1. ~overlapped /\ ~(Cardinality(Busy') > 1)
      BY <1>3, <2>1, Zenon DEF ServicesNext
    <3> QED
      BY <1>2, <3>1
  <2>2. CASE UNCHANGED ServicesVars
    <3>1. job' = job /\ overlapped' = overlapped
      BY <2>2 DEF ServicesVars, vars
    <3>2. Busy' = Busy
      BY <3>1 DEF Busy
    <3> QED
      BY <1>3, <3>1, <3>2 DEF AloneInv
  <2> QED
    BY <2>1, <2>2
<1>4. ASSUME ~overlapped' PROVE TagsKept' /\ SeesTagged'
  BY <1>0, <1>3, <1>4, TagsStep DEF AloneInv
<1> QED
  BY <1>1, <1>3, <1>4 DEF AloneInv

\* Until two requests on a product overlap it keeps the tag of every draft
\* that was tagged: a draft that reuses the product writes back the tags its
\* search showed, an attach merges with those it read again, whichever calls
\* fail and whatever is synced or looked up in between.
THEOREM TagsAreKept == ServicesSpec => []TagsKeptAlone
<1>1. AloneInv => TagsKeptAlone
  BY DEF AloneInv, TagsKeptAlone
<1> QED
  BY <1>1, InitAlone, NextAlone, PTL DEF ServicesSpec
=============================================================================

---------------------------- MODULE ClientProofs ----------------------------
(***************************************************************************)
(* Theorems about the three parts of the page /client, for every value of  *)
(* their constants.                                                        *)
(*   catalog view   what holds with any number of calls in flight and      *)
(*                  answers in any order, and what holds while one call    *)
(*                  is in flight at a time                                 *)
(*   views          the settled page shows the active view, whatever the   *)
(*                  timers and requests of its attempts do                 *)
(*   session        several tabs and where their tokens come from (the     *)
(*                  proof is that of HostedSessionProofs); one tab and how *)
(*                  long it keeps a token that Auth accepts                *)
(* Last, the types of every part.                                          *)
(***************************************************************************)
EXTENDS ClientMC, FiniteSetTheorems, TLAPS

-----------------------------------------------------------------------------
(***************************************************************************)
(* The inductive invariant.  The preview a call asks for is that of the    *)
(* selection as long as its number is the last one given: selecting        *)
(* something else gives a new number.                                      *)
(***************************************************************************)
Fields == {"kind", "step", "id", "product", "content", "shown", "answer", "pid"}

\* Calls and the document are records of their fields, whatever these hold.
CallsAreRecords ==
  /\ call = [c \in Calls |-> call[c]]
  /\ \A c \in Calls : call[c] # Idle =>
       call[c] = [f \in Fields |-> call[c][f]]

DocumentIsRecord ==
  drawn = [list |-> drawn.list, active |-> drawn.active, form |-> drawn.form,
           card |-> drawn.card, preview |-> drawn.preview]

NumbersGiven ==
  /\ previewId \in Nat
  /\ \A c \in Calls : At(c, "preview") =>
       call[c].pid \in Nat /\ call[c].pid <= previewId

LastPreviewIsOfSelected ==
  \A c \in Calls : At(c, "preview") /\ LatestPreview(c) =>
    call[c].product = selected

PageInv == CallsAreRecords /\ DocumentIsRecord /\ NumbersGiven
           /\ LastPreviewIsOfSelected /\ NothingMixed

\* What an action may do to the calls: one of them ends, or is a record again.
LEMMA CallStep ==
  ASSUME CallsAreRecords, NEW c \in Calls, NEW row,
         row = Idle \/ row = [f \in Fields |-> row[f]],
         call' = [call EXCEPT ![c] = row]
  PROVE  /\ CallsAreRecords'
         /\ call'[c] = row
         /\ \A d \in Calls : d # c => call'[d] = call[d]
BY DEF CallsAreRecords

\* A begun call carries the number of the last preview, and the product given.
LEMMA BeginStep ==
  ASSUME CallsAreRecords, NEW c \in Calls, NEW kind, NEW step, NEW id, NEW p,
         NEW values, Begin(c, kind, step, id, p, values)
  PROVE  /\ CallsAreRecords'
         /\ call'[c].step = step /\ call'[c].product = p
         /\ call'[c].pid = previewId'
         /\ \A d \in Calls : d # c => call'[d] = call[d]
<1> DEFINE row == [kind |-> kind, step |-> step, id |-> id, pid |-> previewId',
                   product |-> p, content |-> values,
                   shown |-> drawn.card.content, answer |-> prepared]
<1>1. /\ row = [f \in Fields |-> row[f]]
      /\ row.step = step /\ row.product = p /\ row.pid = previewId'
  BY DEF Fields
<1>2. call' = [call EXCEPT ![c] = row]
  BY DEF Begin
<1> HIDE DEF row
<1> QED
  BY <1>1, <1>2, CallStep

\* A step on one call keeps the numbers, if it keeps the selection and the
\* last number or gives a new number, and its own call asks for the selection.
LEMMA OthersKeep ==
  ASSUME NumbersGiven, LastPreviewIsOfSelected, NEW c \in Calls,
         \A d \in Calls : d # c => call'[d] = call[d],
         \/ previewId' = previewId /\ selected' = selected
         \/ previewId' = previewId + 1,
         At(c, "preview")' =>
           call'[c].pid = previewId' /\ call'[c].product = selected'
  PROVE  NumbersGiven' /\ LastPreviewIsOfSelected'
<1>1. previewId \in Nat /\ previewId' \in Nat /\ previewId <= previewId'
  BY DEF NumbersGiven
<1>2. ASSUME NEW d \in Calls, At(d, "preview")'
      PROVE  /\ call'[d].pid \in Nat /\ call'[d].pid <= previewId'
             /\ call'[d].pid = previewId' => call'[d].product = selected'
  <2>1. CASE d = c
    BY <1>1, <1>2, <2>1
  <2>2. CASE d # c
    <3>1. call'[d] = call[d]
      BY <2>2
    <3>2. At(d, "preview")
      BY <1>2, <3>1 DEF At
    <3>3. call[d].pid \in Nat /\ call[d].pid <= previewId
      BY <3>2 DEF NumbersGiven
    <3>4. CASE previewId' = previewId /\ selected' = selected
      BY <3>1, <3>2, <3>3, <3>4 DEF LastPreviewIsOfSelected, LatestPreview
    <3>5. CASE previewId' = previewId + 1
      BY <1>1, <3>1, <3>3, <3>5
    <3> QED
      BY <3>4, <3>5
  <2> QED
    BY <2>1, <2>2
<1> QED
  BY <1>1, <1>2 DEF NumbersGiven, LastPreviewIsOfSelected, LatestPreview

\* What a draw shows is a document, and its card is what is prepared.
LEMMA DrawStep ==
  ASSUME Draw
  PROVE  DocumentIsRecord' /\ CardIsPrepared'
BY DEF Draw, DocumentIsRecord, CardIsPrepared

\* A call that ends leaves an idle place.
LEMMA EndStep ==
  ASSUME CallsAreRecords, NEW c \in Calls, End(c)
  PROVE  /\ CallsAreRecords' /\ ~At(c, "preview")'
         /\ \A d \in Calls : d # c => call'[d] = call[d]
<1>1. call' = [call EXCEPT ![c] = Idle]
  BY DEF End
<1>2. CallsAreRecords' /\ call'[c] = Idle
      /\ \A d \in Calls : d # c => call'[d] = call[d]
  BY <1>1, CallStep
<1> QED
  BY <1>2 DEF At

-----------------------------------------------------------------------------
(***************************************************************************)
(* The actions                                                             *)
(***************************************************************************)
LEMMA InitHolds == Init => PageInv
<1> SUFFICES ASSUME Init PROVE PageInv
  OBVIOUS
<1>1. CallsAreRecords /\ \A c \in Calls : \A step : ~At(c, step)
  BY DEF Init, CallsAreRecords, At
<1>2. DocumentIsRecord
  BY DEF Init, DocumentIsRecord
<1>3. NumbersGiven /\ LastPreviewIsOfSelected
  BY <1>1 DEF Init, NumbersGiven, LastPreviewIsOfSelected
<1>4. NothingMixed
  BY DEF Init, NothingMixed, PreviewIsOfSelected, CardIsPrepared,
         QueuedForItsProduct, NoAnswer, NoAd
<1> QED
  BY <1>1, <1>2, <1>3, <1>4 DEF PageInv

LEMMA EditFormKeeps ==
  ASSUME PageInv, EditForm
  PROVE  PageInv'
<1>1. UNCHANGED <<products, selected, preview, prepared, searchId, previewId,
                  call, draft, queued>>
  BY DEF EditForm, page, ids, server
<1>2. drawn' = [drawn EXCEPT !.form.edited = TRUE]
  BY DEF EditForm
<1>3. DocumentIsRecord' /\ drawn'.card = drawn.card
  BY <1>2 DEF PageInv, DocumentIsRecord
<1> QED
  BY <1>1, <1>3 DEF PageInv, CallsAreRecords, NumbersGiven, At,
     LastPreviewIsOfSelected, LatestPreview, NothingMixed, PreviewIsOfSelected,
     CardIsPrepared, QueuedForItsProduct

LEMMA RunSearchKeeps ==
  ASSUME PageInv, NEW c \in Calls, RunSearch(c)
  PROVE  PageInv'
<1>1. UNCHANGED <<selected, preview, previewId, drawn, queued>>
      /\ prepared' = NoAnswer
  BY DEF RunSearch, server
<1>2. CallsAreRecords' /\ call'[c].step = "list"
      /\ \A d \in Calls : d # c => call'[d] = call[d]
  <2>1. Begin(c, "search", "list", searchId', None, Blank)
    BY DEF RunSearch
  <2> QED
    BY <2>1, BeginStep DEF PageInv
<1>3. NumbersGiven' /\ LastPreviewIsOfSelected'
  BY <1>1, <1>2, OthersKeep DEF PageInv, At
<1>4. DocumentIsRecord' /\ NothingMixed'
  BY <1>1 DEF PageInv, DocumentIsRecord, NothingMixed, PreviewIsOfSelected,
     CardIsPrepared, QueuedForItsProduct, NoAnswer, NoAd
<1> QED
  BY <1>2, <1>3, <1>4 DEF PageInv

LEMMA ListAnswerKeeps ==
  ASSUME PageInv, NEW c \in Calls, ListAnswer(c)
  PROVE  PageInv'
<1>1. /\ UNCHANGED <<prepared, queued>>
      /\ preview' = None /\ previewId' = previewId + 1
  BY DEF ListAnswer, ForgetPreview, server
<1>2. /\ CallsAreRecords'
      /\ \A d \in Calls : d # c => call'[d] = call[d]
      /\ At(c, "preview")' =>
           call'[c].pid = previewId' /\ call'[c].product = selected'
  <2>1. CASE selected' = None
    BY <2>1, EndStep DEF ListAnswer, PageInv
  <2>2. CASE selected' # None
    <3> DEFINE row == [call[c] EXCEPT !.step = "preview",
                         !.product = selected', !.pid = previewId']
    <3>1. call' = [call EXCEPT ![c] = row]
      BY <2>2 DEF ListAnswer
    <3>2. call[c] = [f \in Fields |-> call[c][f]]
      BY DEF ListAnswer, At, PageInv, CallsAreRecords
    <3>3. row = [f \in Fields |-> row[f]]
          /\ row.pid = previewId' /\ row.product = selected'
      BY ONLY <3>2 DEF Fields
    <3> HIDE DEF row
    <3> QED
      BY <3>1, <3>3, CallStep DEF PageInv
  <2> QED
    BY <2>1, <2>2
<1>3. NumbersGiven' /\ LastPreviewIsOfSelected'
  BY <1>1, <1>2, OthersKeep DEF PageInv
<1>4. DocumentIsRecord' /\ CardIsPrepared'
  <2>1. CASE Draw
    BY <2>1, DrawStep
  <2>2. CASE UNCHANGED drawn
    BY <1>1, <2>2 DEF PageInv, DocumentIsRecord, NothingMixed, CardIsPrepared
  <2> QED
    BY <2>1, <2>2 DEF ListAnswer
<1>5. NothingMixed'
  BY <1>1, <1>4 DEF PageInv, NothingMixed, PreviewIsOfSelected,
     QueuedForItsProduct
<1> QED
  BY <1>2, <1>3, <1>4, <1>5 DEF PageInv

\* The two ways a call ends with nothing else done.
LEMMA EndsKeeps ==
  ASSUME PageInv, NEW c \in Calls, ListFails(c) \/ Refused(c)
  PROVE  PageInv'
<1>1. End(c) /\ UNCHANGED <<selected, preview, prepared, previewId, drawn, queued>>
  BY DEF ListFails, Refused, page, ids, server
<1>2. CallsAreRecords' /\ NumbersGiven' /\ LastPreviewIsOfSelected'
  BY <1>1, EndStep, OthersKeep DEF PageInv
<1>3. DocumentIsRecord' /\ NothingMixed'
  BY <1>1 DEF PageInv, DocumentIsRecord, NothingMixed, PreviewIsOfSelected,
     CardIsPrepared, QueuedForItsProduct
<1> QED
  BY <1>2, <1>3 DEF PageInv

LEMMA SelectKeeps ==
  ASSUME PageInv, NEW c \in Calls, NEW k, Select(c, k)
  PROVE  PageInv'
<1>1. /\ UNCHANGED queued /\ prepared' = NoAnswer
      /\ preview' = None /\ previewId' = previewId + 1
  BY DEF Select, ForgetPreview, server
<1>2. /\ CallsAreRecords'
      /\ NumbersGiven' /\ LastPreviewIsOfSelected'
  <2>1. CASE UNCHANGED call
    <3>1. CallsAreRecords'
      BY <2>1 DEF PageInv, CallsAreRecords
    <3>2. ASSUME NEW d \in Calls, At(d, "preview")'
          PROVE  /\ call'[d].pid \in Nat /\ call'[d].pid < previewId'
      <4>1. call[d].pid \in Nat /\ call[d].pid <= previewId /\ previewId \in Nat
        BY <2>1, <3>2 DEF PageInv, NumbersGiven, At
      <4> QED
        BY <1>1, <2>1, <4>1
    <3>3. previewId' \in Nat
      BY <1>1 DEF PageInv, NumbersGiven
    <3> QED
      BY <3>1, <3>2, <3>3 DEF NumbersGiven, LastPreviewIsOfSelected,
         LatestPreview
  <2>2. CASE Begin(c, "select", "preview", 0, selected', Blank)
    <3>1. /\ CallsAreRecords' /\ call'[c].product = selected'
          /\ call'[c].pid = previewId'
          /\ \A d \in Calls : d # c => call'[d] = call[d]
      BY <2>2, BeginStep DEF PageInv
    <3> QED
      BY <1>1, <3>1, OthersKeep DEF PageInv
  <2> QED
    BY <2>1, <2>2 DEF Select
<1>3. DocumentIsRecord'
  <2>1. CASE Draw
    BY <2>1, DrawStep
  <2>2. CASE UNCHANGED drawn
    BY <2>2 DEF PageInv, DocumentIsRecord
  <2> QED
    BY <2>1, <2>2 DEF Select
<1>4. NothingMixed'
  BY <1>1 DEF PageInv, NothingMixed, PreviewIsOfSelected, CardIsPrepared,
     QueuedForItsProduct, NoAnswer, NoAd
<1> QED
  BY <1>2, <1>3, <1>4 DEF PageInv

LEMMA PreviewAnswerKeeps ==
  ASSUME PageInv, NEW c \in Calls, PreviewAnswer(c)
  PROVE  PageInv'
<1>1. End(c) /\ UNCHANGED <<selected, prepared, previewId, queued>>
  BY DEF PreviewAnswer, ids, server
<1>2. CallsAreRecords' /\ NumbersGiven' /\ LastPreviewIsOfSelected'
  BY <1>1, EndStep, OthersKeep DEF PageInv
<1>3. DocumentIsRecord' /\ CardIsPrepared'
  <2>1. CASE Draw
    BY <2>1, DrawStep
  <2>2. CASE UNCHANGED drawn
    BY <1>1, <2>2 DEF PageInv, DocumentIsRecord, NothingMixed, CardIsPrepared
  <2> QED
    BY <2>1, <2>2 DEF PreviewAnswer
<1>4. PreviewIsOfSelected'
  <2>1. CASE LatestPreview(c)
    BY <1>1, <2>1 DEF PreviewAnswer, PageInv, LastPreviewIsOfSelected,
       PreviewIsOfSelected
  <2>2. CASE ~LatestPreview(c)
    BY <1>1, <2>2 DEF PreviewAnswer, PageInv, NothingMixed, PreviewIsOfSelected
  <2> QED
    BY <2>1, <2>2
<1>5. QueuedForItsProduct'
  BY <1>1 DEF PageInv, NothingMixed, QueuedForItsProduct
<1> QED
  BY <1>2, <1>3, <1>4, <1>5 DEF PageInv, NothingMixed

\* Prepare and Confirm only send.
LEMMA SendKeeps ==
  ASSUME PageInv, NEW c \in Calls, Prepare(c) \/ Confirm(c)
  PROVE  PageInv'
<1>1. UNCHANGED <<selected, preview, prepared, previewId, drawn, queued>>
  BY DEF Prepare, Confirm, page, ids, server
<1>2. CallsAreRecords' /\ call'[c].step = "sent"
      /\ \A d \in Calls : d # c => call'[d] = call[d]
  <2>1. CASE Begin(c, "prepare", "sent", 0, selected, drawn.form)
    BY <2>1, BeginStep DEF PageInv
  <2>2. CASE Begin(c, "confirm", "sent", 0, selected, Blank)
    BY <2>2, BeginStep DEF PageInv
  <2> QED
    BY <2>1, <2>2 DEF Prepare, Confirm
<1>3. NumbersGiven' /\ LastPreviewIsOfSelected'
  BY <1>1, <1>2, OthersKeep DEF PageInv, At
<1>4. DocumentIsRecord' /\ NothingMixed'
  BY <1>1 DEF PageInv, DocumentIsRecord, NothingMixed, PreviewIsOfSelected,
     CardIsPrepared, QueuedForItsProduct
<1> QED
  BY <1>2, <1>3, <1>4 DEF PageInv

\* A served call is a record still, and no longer asks for a preview.
LEMMA ServedStep ==
  ASSUME CallsAreRecords, NEW c \in Calls, At(c, "sent"), NEW answer,
         call' = [call EXCEPT ![c].step = "served", ![c].answer = answer]
  PROVE  CallsAreRecords' /\ call'[c].step = "served"
         /\ \A d \in Calls : d # c => call'[d] = call[d]
<1> DEFINE row == [call[c] EXCEPT !.step = "served", !.answer = answer]
<1>1. call' = [call EXCEPT ![c] = row]
  OBVIOUS
<1>2. row = [f \in Fields |-> row[f]] /\ row.step = "served"
  BY DEF At, CallsAreRecords, Fields
<1> HIDE DEF row
<1> QED
  BY <1>1, <1>2, CallStep

LEMMA ServePrepareKeeps ==
  ASSUME PageInv, NEW c \in Calls, ServePrepare(c)
  PROVE  PageInv'
<1>1. UNCHANGED <<selected, preview, prepared, previewId, drawn, queued>>
      /\ At(c, "sent")
  BY DEF ServePrepare, page, ids
<1>2. PICK answer :
        call' = [call EXCEPT ![c].step = "served", ![c].answer = answer]
  BY DEF ServePrepare
<1>3. CallsAreRecords' /\ call'[c].step = "served"
      /\ \A d \in Calls : d # c => call'[d] = call[d]
  BY <1>1, <1>2, ServedStep DEF PageInv
<1>4. NumbersGiven' /\ LastPreviewIsOfSelected'
  BY <1>1, <1>3, OthersKeep DEF PageInv, At
<1>5. DocumentIsRecord' /\ NothingMixed'
  BY <1>1 DEF PageInv, DocumentIsRecord, NothingMixed, PreviewIsOfSelected,
     CardIsPrepared, QueuedForItsProduct
<1> QED
  BY <1>3, <1>4, <1>5 DEF PageInv

\* The server queues only what findDraftForProduct found for the product.
LEMMA ServeConfirmKeeps ==
  ASSUME PageInv, NEW c \in Calls, ServeConfirm(c)
  PROVE  PageInv'
<1> DEFINE ad == call[c].answer.ad
<1>1. UNCHANGED <<selected, preview, prepared, previewId, drawn>>
      /\ At(c, "sent") /\ ad[1] = call[c].product
  BY DEF ServeConfirm, page, ids, FindDraftForProduct
<1>2. PICK was :
        call' = [call EXCEPT ![c].step = "served",
                             ![c].answer.content = was,
                             ![c].answer.allowed = FALSE]
  BY DEF ServeConfirm
<1>3. CallsAreRecords' /\ call'[c].step = "served"
      /\ \A d \in Calls : d # c => call'[d] = call[d]
  <2> DEFINE answer == [[call[c].answer EXCEPT !.content = was]
                          EXCEPT !.allowed = FALSE]
  <2>1. call = [d \in Calls |-> call[d]]
        /\ call[c] = [f \in Fields |-> call[c][f]]
    BY <1>1 DEF At, PageInv, CallsAreRecords
  <2>2. call' = [call EXCEPT ![c].step = "served", ![c].answer = answer]
    BY ONLY <1>2, <2>1, c \in Calls DEF Fields
  <2> HIDE DEF answer
  <2> QED
    BY <1>1, <2>2, ServedStep DEF PageInv
<1>4. NumbersGiven' /\ LastPreviewIsOfSelected'
  BY <1>1, <1>3, OthersKeep DEF PageInv, At
<1>5. QueuedForItsProduct'
  <2>1. PICK values, shown :
          \/ queued' = queued \cup {[ad |-> ad, content |-> values,
                                     shown |-> shown, by |-> call[c].product]}
          \/ queued' = queued
    BY DEF ServeConfirm, server
  <2> QED
    BY <1>1, <2>1 DEF PageInv, NothingMixed, QueuedForItsProduct
<1>6. DocumentIsRecord' /\ NothingMixed'
  BY <1>1, <1>5 DEF PageInv, DocumentIsRecord, NothingMixed,
     PreviewIsOfSelected, CardIsPrepared
<1> QED
  BY <1>3, <1>4, <1>6 DEF PageInv

LEMMA AnswerKeeps ==
  ASSUME PageInv, NEW c \in Calls, Answer(c)
  PROVE  PageInv'
<1>1. End(c) /\ Draw /\ UNCHANGED <<selected, preview, previewId, queued>>
  BY DEF Answer, ids, server
<1>2. CallsAreRecords' /\ NumbersGiven' /\ LastPreviewIsOfSelected'
  BY <1>1, EndStep, OthersKeep DEF PageInv
<1>3. DocumentIsRecord' /\ CardIsPrepared'
  BY <1>1, DrawStep
<1>4. NothingMixed'
  BY <1>1, <1>3 DEF PageInv, NothingMixed, PreviewIsOfSelected,
     QueuedForItsProduct
<1> QED
  BY <1>2, <1>3, <1>4 DEF PageInv

LEMMA NextKeeps == PageInv /\ [Next]_vars => PageInv'
<1> SUFFICES ASSUME PageInv, [Next]_vars PROVE PageInv'
  OBVIOUS
<1>1. CASE UNCHANGED vars
  BY <1>1 DEF vars, page, ids, server, PageInv, CallsAreRecords,
     DocumentIsRecord, NumbersGiven, At, LastPreviewIsOfSelected, LatestPreview,
     NothingMixed, PreviewIsOfSelected, CardIsPrepared, QueuedForItsProduct
<1>2. CASE EditForm
  BY <1>2, EditFormKeeps
<1>3. ASSUME NEW c \in Calls,
             \/ RunSearch(c) \/ ListAnswer(c) \/ ListFails(c)
             \/ \E k \in 1 .. Len(drawn.list) : Select(c, k)
             \/ PreviewAnswer(c)
             \/ Prepare(c) \/ ServePrepare(c) \/ Confirm(c) \/ ServeConfirm(c)
             \/ Refused(c) \/ Answer(c)
      PROVE  PageInv'
  BY <1>3, RunSearchKeeps, ListAnswerKeeps, EndsKeeps, SelectKeeps,
     PreviewAnswerKeeps, SendKeeps, ServePrepareKeeps, ServeConfirmKeeps,
     AnswerKeeps
<1> QED
  BY <1>1, <1>2, <1>3 DEF Next

\* However answers of overlapping calls come, the canonical preview shown is of
\* the selected product, a card on the page is the prepared draft, and an ad is
\* queued only by a confirmation for its own product (renderCatalog's request
\* numbers; findDraftForProduct).
THEOREM NothingIsMixed == Spec => []NothingMixed
<1>1. PageInv => NothingMixed
  BY DEF PageInv
<1> QED
  BY <1>1, InitHolds, NextKeeps, PTL DEF Spec

-----------------------------------------------------------------------------
(***************************************************************************)
(* EmptyTyped of the catalog view, in both settings that move it.  They rest on *)
(* the numbers of the drafts: an answer tells of the draft of today or of  *)
(* an ad that was queued, so a confirmation always finds what it answers.  *)
(***************************************************************************)
\* A queued ad has a number below that of its product's next draft.
QueueNumbered ==
  /\ IsFiniteSet(queued)
  /\ \A q \in queued : q.ad[2] \in Nat /\ q.ad[2] < Generation(q.ad[1])

ViewTyped ==
  /\ products \in Lists \cup {<<>>} /\ selected \in Some /\ preview \in Some
  /\ prepared \in Answers
  /\ searchId \in Nat /\ previewId \in Nat
  /\ drawn \in [list: Lists \cup {<<>>}, active: Some, form: Contents,
                card: Answers, preview: Some]

Numbered(ad) ==
  ad # NoAd => /\ ad[2] <= Generation(ad[1])
               /\ ad[2] < Generation(ad[1]) => \E q \in queued : q.ad = ad

SendsItsProduct(row) ==
  row.step = "sent" =>
    /\ row.product \in Products
    /\ row.kind = "confirm" => row.answer.ad # NoAd

CallsTyped ==
  /\ call \in [Calls -> CallRow \cup {Idle}]
  /\ \A c \in Calls : call[c] # Idle =>
       Numbered(call[c].answer.ad) /\ SendsItsProduct(call[c])

ServerTyped ==
  /\ draft \in [Products -> Contents]
  /\ \A q \in queued : q.ad \in AdIds /\ {q.content, q.shown} \subseteq Contents
  /\ QueueNumbered

CatalogInv ==
  ViewTyped /\ CallsTyped /\ ServerTyped /\ Numbered(prepared.ad)

\* The number of a product's queued ads.
LEMMA GenerationType ==
  ASSUME IsFiniteSet(queued), NEW p
  PROVE  Generation(p) \in Nat /\ IsFiniteSet({q \in queued : q.ad[1] = p})
<1>1. {q \in queued : q.ad[1] = p} \in SUBSET queued
  OBVIOUS
<1> QED
  BY <1>1, FS_Subset, FS_CardinalityType DEF Generation

\* An ad queued under the next number of its product is a new one.
LEMMA NextGeneration ==
  ASSUME QueueNumbered, NEW p, NEW n, n = Generation(p), NEW new,
         new.ad = <<p, n>>, queued' = queued \cup {new}
  PROVE  /\ Generation(p)' = n + 1 /\ n \in Nat
         /\ \A r : r # p => Generation(r)' = Generation(r)
         /\ IsFiniteSet(queued')
<1> DEFINE Of(r, Q) == {q \in Q : q.ad[1] = r}
<1>1. n \in Nat /\ IsFiniteSet(Of(p, queued))
  BY GenerationType DEF QueueNumbered
<1>2. new \notin queued
  BY <1>1 DEF QueueNumbered
<1>3. Of(p, queued') = Of(p, queued) \cup {new} /\ new \notin Of(p, queued)
  BY <1>2
<1>4. Cardinality(Of(p, queued')) = Cardinality(Of(p, queued)) + 1
  <2> HIDE DEF Of
  <2> QED
    BY <1>1, <1>3, FS_AddElement
<1>5. \A r : r # p => Of(r, queued') = Of(r, queued)
  OBVIOUS
<1>6. IsFiniteSet(queued')
  BY FS_AddElement DEF QueueNumbered
<1> QED
  BY <1>1, <1>4, <1>5, <1>6 DEF Generation

LEMMA NumbersStay ==
  ASSUME queued' = queued, NEW ad, Numbered(ad)
  PROVE  Numbered(ad)'
BY DEF Numbered, Generation

LEMMA ServerStays ==
  ASSUME ServerTyped, UNCHANGED server
  PROVE  ServerTyped'
BY DEF ServerTyped, QueueNumbered, server, Generation

LEMMA CallsStayTyped ==
  ASSUME CallsTyped, call' = call, queued' = queued
  PROVE  CallsTyped'
BY NumbersStay DEF CallsTyped

LEMMA CallBecomes ==
  ASSUME CallsTyped, NEW c \in Calls, NEW row \in CallRow,
         \A ad \in AdIds \cup {NoAd} : Numbered(ad) => Numbered(ad)',
         Numbered(row.answer.ad)', SendsItsProduct(row),
         call' = [call EXCEPT ![c] = row]
  PROVE  CallsTyped'
<1>1. call' \in [Calls -> CallRow \cup {Idle}]
      /\ call'[c] = row /\ \A d \in Calls : d # c => call'[d] = call[d]
  BY DEF CallsTyped
<1>2. ASSUME NEW d \in Calls, (call[d] # Idle)'
      PROVE  (Numbered(call[d].answer.ad) /\ SendsItsProduct(call[d]))'
  <2>1. CASE d = c
    BY <1>1, <2>1
  <2>2. CASE d # c
    <3> DEFINE same == call[d]
    <3>1. call'[d] = same /\ same \in CallRow
      BY <1>1, <1>2, <2>2 DEF CallsTyped
    <3>2. Numbered(same.answer.ad) /\ SendsItsProduct(same)
      BY <1>1, <1>2, <2>2 DEF CallsTyped
    <3>3. same.answer.ad \in AdIds \cup {NoAd}
      BY <3>1 DEF CallRow, Answers
    <3> QED
      BY <3>1, <3>2, <3>3 DEF SendsItsProduct
  <2> QED
    BY <2>1, <2>2
<1> QED
  BY <1>1, <1>2 DEF CallsTyped

LEMMA CallEndTyped ==
  ASSUME CallsTyped, NEW c \in Calls, End(c), queued' = queued
  PROVE  CallsTyped'
<1>1. /\ call' \in [Calls -> CallRow \cup {Idle}] /\ call'[c] = Idle
      /\ \A d \in Calls : d # c => call'[d] = call[d]
  BY DEF CallsTyped, End
<1> QED
  BY <1>1, NumbersStay DEF CallsTyped

\* A call begins with what is prepared; what it sends is of a product.
LEMMA CallBeginTyped ==
  ASSUME CatalogInv, NEW c \in Calls,
         NEW kind \in {"search", "select", "prepare", "confirm"},
         NEW step \in {"list", "preview", "sent"}, NEW id \in Nat,
         NEW p \in Some, NEW values \in Contents,
         \/ Begin(c, kind, step, id, p, values)
         \/ Overlap!Begin(c, kind, step, id, p, values),
         previewId' \in Nat, queued' = queued,
         step = "sent" => /\ p \in Products
                          /\ kind = "confirm" => prepared.ad # NoAd
  PROVE  CallsTyped'
<1> DEFINE row == [kind |-> kind, step |-> step, id |-> id, pid |-> previewId',
                   product |-> p, content |-> values,
                   shown |-> drawn.card.content, answer |-> prepared]
<1>1. prepared \in Answers /\ drawn.card.content \in Contents
      /\ Numbered(prepared.ad)
  BY DEF CatalogInv, ViewTyped, Answers
<1>2. row \in CallRow /\ row.answer = prepared /\ SendsItsProduct(row)
  BY <1>1 DEF CallRow, SendsItsProduct
<1>3. call' = [call EXCEPT ![c] = row]
  BY DEF Begin, Overlap!Begin
<1> HIDE DEF row
<1> QED
  BY <1>1, <1>2, <1>3, NumbersStay, CallBecomes DEF CatalogInv

\* What a draw shows has the types of what it draws.
LEMMA DrawTyped ==
  ASSUME Draw, products' \in Lists \cup {<<>>}, selected' \in Some,
         preview' \in Some, prepared' \in Answers
  PROVE  drawn' \in [list: Lists \cup {<<>>}, active: Some, form: Contents,
                     card: Answers, preview: Some]
<1>1. FilledForm \in Contents
  BY DEF FilledForm, Answers, Contents, Content, Blank, Some
<1> QED
  BY <1>1 DEF Draw

LEMMA EmptyTyped ==
  ASSUME CatalogPageAssumption
  PROVE  /\ None \in Some /\ Blank \in Contents /\ NoAnswer \in Answers
         /\ NoAnswer.ad = NoAd /\ Numbered(NoAd)
         /\ \A list \in Lists \cup {<<>>} :
              \A k \in DOMAIN list : list[k] \in Products
         /\ \A list \in Lists : list # <<>> => list[1] \in Products
BY DEF CatalogPageAssumption, Some, Blank, Contents, NoAnswer, Answers,
       Numbered, NoAd

\* The two settings have their bounds only where a call begins.
LEMMA SameEdit == Overlap!EditForm => EditForm
BY DEF Overlap!EditForm, EditForm, Overlap!page, page, Overlap!ids, ids,
   Overlap!server, server

LEMMA SameSteps ==
  ASSUME NEW c \in Calls
  PROVE  /\ Overlap!ListAnswer(c) => ListAnswer(c)
         /\ Overlap!ListFails(c) => ListFails(c)
         /\ Overlap!PreviewAnswer(c) => PreviewAnswer(c)
         /\ Overlap!ServePrepare(c) => ServePrepare(c)
         /\ Overlap!ServeConfirm(c) => ServeConfirm(c)
         /\ Overlap!Refused(c) => Refused(c)
         /\ Overlap!Answer(c) => Answer(c)
<1> USE DEF Overlap!At, Overlap!End, Overlap!Draw, Overlap!FilledForm,
            Overlap!Idle, Overlap!NoAd, Overlap!NoAnswer, Overlap!Blank,
            Overlap!page, Overlap!ids, Overlap!server, Overlap!ForgetPreview,
            At, End, Draw, FilledForm, Idle, NoAd, NoAnswer, Blank,
            page, ids, server, ForgetPreview
<1>2. Overlap!ListAnswer(c) => ListAnswer(c)
  BY DEF Overlap!ListAnswer, ListAnswer
<1>3. Overlap!ListFails(c) => ListFails(c)
  BY DEF Overlap!ListFails, ListFails
<1>4. Overlap!PreviewAnswer(c) => PreviewAnswer(c)
  BY DEF Overlap!PreviewAnswer, PreviewAnswer, Overlap!LatestPreview,
         LatestPreview, Overlap!Superseded, Superseded
<1>5. \A p : Overlap!Generation(p) = Generation(p)
  BY DEF Overlap!Generation, Generation, Overlap!Cardinality, Cardinality
<1>6. Overlap!ServePrepare(c) => ServePrepare(c)
  BY <1>5 DEF Overlap!ServePrepare, ServePrepare
<1>7. Overlap!ServeConfirm(c) => ServeConfirm(c)
  BY Zenon DEF Overlap!ServeConfirm, ServeConfirm, Overlap!FindDraftForProduct,
     FindDraftForProduct, Overlap!Generation, Generation, Overlap!Cardinality,
     Cardinality
<1>8. Overlap!Refused(c) => Refused(c)
  BY DEF Overlap!Refused, Refused
<1>9. Overlap!Answer(c) => Answer(c)
  BY DEF Overlap!Answer, Answer, Overlap!Answered, Answered
<1> QED
  BY <1>2, <1>3, <1>4, <1>6, <1>7, <1>8, <1>9

LEMMA RunSearchTyped ==
  ASSUME CatalogPageAssumption, CatalogInv, NEW c \in Calls,
         RunSearch(c) \/ Overlap!RunSearch(c)
  PROVE  CatalogInv'
<1>1. /\ searchId' = searchId + 1 /\ prepared' = NoAnswer
      /\ UNCHANGED <<products, selected, preview, previewId, drawn, draft, queued>>
      /\ \/ Begin(c, "search", "list", searchId', None, Blank)
         \/ Overlap!Begin(c, "search", "list", searchId', None, Blank)
  BY DEF RunSearch, Overlap!RunSearch, server, Overlap!server, NoAnswer,
         Overlap!NoAnswer, NoAd, Overlap!NoAd, Blank, Overlap!Blank
<1>2. ViewTyped'
  BY <1>1, EmptyTyped DEF CatalogInv, ViewTyped
<1>3. CallsTyped'
  BY <1>1, <1>2, EmptyTyped, CallBeginTyped DEF ViewTyped
<1>4. ServerTyped' /\ Numbered(prepared.ad)'
  BY <1>1, EmptyTyped, ServerStays, NumbersStay DEF CatalogInv, server, Numbered
<1> QED
  BY <1>2, <1>3, <1>4 DEF CatalogInv

LEMMA SelectTyped ==
  ASSUME CatalogPageAssumption, CatalogInv, NEW c \in Calls, NEW k,
         Select(c, k) \/ Overlap!Select(c, k)
  PROVE  CatalogInv'
<1>1. /\ selected' = Clicked(k) /\ prepared' = NoAnswer
      /\ preview' = None /\ previewId' = previewId + 1
      /\ UNCHANGED <<products, searchId, draft, queued>>
      /\ \/ Draw /\ UNCHANGED call
         \/ /\ UNCHANGED drawn /\ selected' # None
            /\ \/ Begin(c, "select", "preview", 0, selected', Blank)
               \/ Overlap!Begin(c, "select", "preview", 0, selected', Blank)
  BY DEF Select, Overlap!Select, server, Overlap!server, NoAnswer,
         Overlap!NoAnswer, NoAd, Overlap!NoAd, Blank, Overlap!Blank,
         ForgetPreview, Overlap!ForgetPreview, Clicked, Overlap!Clicked,
         Draw, Overlap!Draw, FilledForm, Overlap!FilledForm
<1>2. selected' \in Some /\ prepared' \in Answers /\ preview' \in Some
      /\ previewId' \in Nat /\ products' \in Lists \cup {<<>>}
  BY <1>1, EmptyTyped DEF CatalogInv, ViewTyped, Clicked, Some
<1>3. ViewTyped'
  BY <1>1, <1>2, DrawTyped DEF CatalogInv, ViewTyped
<1>4. CallsTyped'
  BY <1>1, <1>2, EmptyTyped, CallBeginTyped, CallsStayTyped DEF CatalogInv
<1>5. ServerTyped' /\ Numbered(prepared.ad)'
  BY <1>1, EmptyTyped, ServerStays, NumbersStay DEF CatalogInv, server, Numbered
<1> QED
  BY <1>3, <1>4, <1>5 DEF CatalogInv

LEMMA SendTyped ==
  ASSUME CatalogPageAssumption, CatalogInv, NEW c \in Calls,
         \/ Prepare(c) \/ Overlap!Prepare(c)
         \/ Confirm(c) \/ Overlap!Confirm(c)
  PROVE  CatalogInv'
<1>1. /\ UNCHANGED <<page, ids, drawn, server>> /\ selected # None
      /\ \/ Begin(c, "prepare", "sent", 0, selected, drawn.form)
         \/ Overlap!Begin(c, "prepare", "sent", 0, selected, drawn.form)
         \/ /\ prepared.ad # NoAd
            /\ \/ Begin(c, "confirm", "sent", 0, selected, Blank)
               \/ Overlap!Begin(c, "confirm", "sent", 0, selected, Blank)
  BY DEF Prepare, Overlap!Prepare, Confirm, Overlap!Confirm, page, ids, server,
         Overlap!page, Overlap!ids, Overlap!server, NoAd, Overlap!NoAd,
         Blank, Overlap!Blank
<1>2. selected \in Products /\ selected \in Some /\ drawn.form \in Contents
  BY <1>1 DEF CatalogInv, ViewTyped, Some
<1>3. previewId' \in Nat /\ queued' = queued
  BY <1>1 DEF CatalogInv, ViewTyped, ids, server
<1>4. CallsTyped'
  <2>1. CASE \/ Begin(c, "prepare", "sent", 0, selected, drawn.form)
             \/ Overlap!Begin(c, "prepare", "sent", 0, selected, drawn.form)
    BY <1>2, <1>3, <2>1, CallBeginTyped
  <2>2. CASE /\ prepared.ad # NoAd
             /\ \/ Begin(c, "confirm", "sent", 0, selected, Blank)
                \/ Overlap!Begin(c, "confirm", "sent", 0, selected, Blank)
    BY <1>2, <1>3, <2>2, EmptyTyped, CallBeginTyped
  <2> QED
    BY <1>1, <2>1, <2>2
<1>5. ViewTyped' /\ ServerTyped' /\ Numbered(prepared.ad)'
  BY <1>1, ServerStays, NumbersStay
     DEF CatalogInv, ViewTyped, page, ids, server, Numbered, Generation
<1> QED
  BY <1>4, <1>5 DEF CatalogInv

LEMMA EndsTyped ==
  ASSUME CatalogInv, NEW c \in Calls, ListFails(c) \/ Refused(c)
  PROVE  CatalogInv'
<1>1. UNCHANGED <<page, ids, drawn, server>> /\ End(c)
  BY DEF ListFails, Refused
<1> QED
  BY <1>1, CallEndTyped, ServerStays, NumbersStay
     DEF CatalogInv, ViewTyped, page, ids, server

LEMMA EditTyped ==
  ASSUME CatalogInv, EditForm
  PROVE  CatalogInv'
<1>1. UNCHANGED <<page, ids, call, server>>
      /\ drawn' = [drawn EXCEPT !.form.edited = TRUE] /\ drawn.form.of # None
  BY DEF EditForm
<1>2. drawn.form \in Contents
  BY DEF CatalogInv, ViewTyped
<1> DEFINE edited == [drawn.form EXCEPT !.edited = TRUE]
<1>2a. edited \in Content
  <2>1. drawn.form \in Content
    BY <1>1, <1>2 DEF Contents, Blank
  <2> QED
    BY ONLY <2>1 DEF Content
<1>3. drawn' = [drawn EXCEPT !.form = edited]
  BY <1>1
<1> HIDE DEF edited
<1>4. ViewTyped'
  BY <1>1, <1>2a, <1>3 DEF CatalogInv, ViewTyped, page, ids, Contents
<1> QED
  BY <1>1, <1>4, CallsStayTyped, ServerStays, NumbersStay
     DEF CatalogInv, page, server

LEMMA ListAnswerTyped ==
  ASSUME CatalogPageAssumption, CatalogInv, NEW c \in Calls, ListAnswer(c)
  PROVE  CatalogInv'
<1>1. PICK list \in Lists :
        /\ products' = list
        /\ selected' = IF list = <<>> THEN None ELSE list[1]
        /\ preview' = None /\ previewId' = previewId + 1
        /\ UNCHANGED <<prepared, searchId, draft, queued>>
        /\ Draw \/ UNCHANGED drawn
  BY DEF ListAnswer, ForgetPreview, server
<1>2. selected' \in Some /\ prepared' \in Answers /\ preview' \in Some
      /\ previewId' \in Nat /\ products' \in Lists \cup {<<>>}
      /\ searchId' \in Nat
  BY <1>1, EmptyTyped DEF CatalogInv, ViewTyped, Some
<1>3. ViewTyped'
  BY <1>1, <1>2, DrawTyped DEF CatalogInv, ViewTyped
<1>4. CallsTyped'
  <2>1. CASE selected' = None
    BY <1>1, <2>1, CallEndTyped DEF ListAnswer, CatalogInv
  <2>2. CASE selected' # None
    <3> DEFINE row == [call[c] EXCEPT !.step = "preview",
                         !.product = selected', !.pid = previewId']
    <3>1. call' = [call EXCEPT ![c] = row]
      BY <2>2 DEF ListAnswer
    <3>2. call[c] \in CallRow /\ Numbered(call[c].answer.ad)
      BY DEF ListAnswer, At, CatalogInv, CallsTyped
    <3>3. row \in CallRow /\ row.step = "preview"
          /\ row.answer = call[c].answer
      BY <1>2, <3>2 DEF CallRow
    <3>4. Numbered(row.answer.ad) /\ SendsItsProduct(row)
      BY <3>2, <3>3 DEF SendsItsProduct
    <3> HIDE DEF row
    <3> QED
      BY <1>1, <3>1, <3>3, <3>4, NumbersStay, CallBecomes DEF CatalogInv
  <2> QED
    BY <2>1, <2>2
<1>5. ServerTyped' /\ Numbered(prepared.ad)'
  BY <1>1, ServerStays, NumbersStay DEF CatalogInv, server
<1> QED
  BY <1>3, <1>4, <1>5 DEF CatalogInv

LEMMA PreviewAnswerTyped ==
  ASSUME CatalogInv, NEW c \in Calls, PreviewAnswer(c)
  PROVE  CatalogInv'
<1>1. /\ UNCHANGED <<products, selected, prepared, ids, server>> /\ End(c)
      /\ preview' \in {call[c].product, None, preview}
      /\ Draw \/ UNCHANGED drawn
  BY DEF PreviewAnswer
<1>2. call[c].product \in Some
  BY DEF PreviewAnswer, At, CatalogInv, CallsTyped, CallRow
<1>3. preview' \in Some
  BY <1>1, <1>2 DEF CatalogInv, ViewTyped, Some
<1>4. ViewTyped'
  BY <1>1, <1>3, DrawTyped DEF CatalogInv, ViewTyped, ids
<1> QED
  BY <1>1, <1>4, CallEndTyped, ServerStays, NumbersStay DEF CatalogInv, server

LEMMA DraftAnswerTyped ==
  ASSUME CatalogInv, NEW c \in Calls, Answer(c)
  PROVE  CatalogInv'
<1>1. /\ UNCHANGED <<products, selected, preview, ids, server>> /\ End(c)
      /\ prepared' = call[c].answer /\ Draw
  BY DEF Answer, Answered
<1>2. PICK answer \in Answers : prepared' = answer /\ Numbered(answer.ad)
  BY <1>1 DEF Answer, At, CatalogInv, CallsTyped, CallRow
<1>3. Numbered(prepared.ad)'
  BY <1>1, <1>2, NumbersStay DEF server
<1>4. ViewTyped'
  BY <1>1, <1>2, DrawTyped DEF CatalogInv, ViewTyped, ids
<1> QED
  BY <1>1, <1>3, <1>4, CallEndTyped, ServerStays DEF CatalogInv, server

\* What the server answers: a call is served.
LEMMA ServedTyped ==
  ASSUME CallsTyped, NEW c \in Calls, At(c, "sent"), NEW answer \in Answers,
         call' = [call EXCEPT ![c].step = "served", ![c].answer = answer],
         \A ad \in AdIds \cup {NoAd} : Numbered(ad) => Numbered(ad)',
         Numbered(answer.ad)'
  PROVE  CallsTyped'
<1> DEFINE row == [call[c] EXCEPT !.step = "served", !.answer = answer]
<1>1. call' = [call EXCEPT ![c] = row]
  OBVIOUS
<1>2. call[c] \in CallRow
  BY DEF At, CallsTyped
<1>3. row \in CallRow /\ row.step = "served" /\ row.answer = answer
  BY <1>2 DEF CallRow
<1>4. SendsItsProduct(row)
  BY <1>3 DEF SendsItsProduct
<1> HIDE DEF row
<1> QED
  BY <1>1, <1>3, <1>4, CallBecomes

LEMMA ServePrepareTyped ==
  ASSUME CatalogInv, NEW c \in Calls, ServePrepare(c)
  PROVE  CatalogInv'
<1> DEFINE p == call[c].product
           values == call[c].content
<1>1. /\ UNCHANGED <<page, ids, drawn, queued>> /\ At(c, "sent")
      /\ p \in Products /\ values \in Contents
  BY DEF ServePrepare, At, CatalogInv, CallsTyped, SendsItsProduct, CallRow
<1>2. Generation(p) \in Nat
  BY GenerationType DEF CatalogInv, ServerTyped, QueueNumbered
<1>3. PICK answer :
        /\ call' = [call EXCEPT ![c].step = "served", ![c].answer = answer]
        /\ \/ answer = NoAnswer
           \/ \E allowed \in BOOLEAN :
                answer = [ad |-> <<p, Generation(p)>>, content |-> values,
                          allowed |-> allowed]
        /\ draft' \in {draft, [draft EXCEPT ![p] = values]}
  BY DEF ServePrepare
<1>4. <<p, Generation(p)>> \in AdIds /\ Numbered(<<p, Generation(p)>>)
  BY <1>1, <1>2 DEF AdIds, Numbered
<1>5. answer \in Answers /\ Numbered(answer.ad)
  <2>1. CASE answer = NoAnswer
    BY <2>1 DEF Answers, NoAnswer, NoAd, Contents, Blank, Numbered
  <2>2. CASE answer # NoAnswer
    <3> DEFINE new == <<p, Generation(p)>>
    <3>1. PICK allowed \in BOOLEAN :
            answer = [ad |-> new, content |-> values, allowed |-> allowed]
      BY <1>3, <2>2
    <3>2. new \in AdIds /\ Numbered(new)
      BY <1>4
    <3> HIDE DEF new
    <3> QED
      BY <1>1, <3>1, <3>2 DEF Answers
  <2> QED
    BY <2>1, <2>2
<1>6. CallsTyped'
  BY <1>1, <1>3, <1>5, NumbersStay, ServedTyped DEF CatalogInv
<1>7. ServerTyped'
  BY <1>1, <1>3 DEF CatalogInv, ServerTyped, QueueNumbered, Generation
<1> QED
  BY <1>1, <1>6, <1>7, NumbersStay DEF CatalogInv, ViewTyped, page, ids

\* An ad that is queued takes the number of the draft it was.
LEMMA QueueGrows ==
  ASSUME ServerTyped, NEW ad \in AdIds, ad[2] = Generation(ad[1]),
         NEW row, row.ad = ad, {row.content, row.shown} \subseteq Contents,
         queued' = queued \cup {row}, draft' \in [Products -> Contents]
  PROVE  /\ ServerTyped'
         /\ \A other \in AdIds \cup {NoAd} : Numbered(other) => Numbered(other)'
<1> DEFINE p == ad[1]  n == Generation(p)
<1>1. ad = <<p, n>> /\ p \in Products /\ n \in Nat
  BY DEF AdIds
<1> HIDE DEF p
<1>2. /\ Generation(p)' = n + 1
      /\ \A r : r # p => Generation(r)' = Generation(r)
      /\ IsFiniteSet(queued')
  BY <1>1, NextGeneration DEF ServerTyped
<1> HIDE DEF n
<1>3. QueueNumbered'
  <2> SUFFICES ASSUME NEW q \in queued'
               PROVE  q.ad[2] \in Nat /\ q.ad[2] < (Generation(q.ad[1]))'
    BY <1>2 DEF QueueNumbered
  <2>1. CASE q = row
    BY <1>1, <1>2, <2>1
  <2>2. CASE q \in queued
    <3>1. q.ad[2] \in Nat /\ q.ad[2] < Generation(q.ad[1])
      BY <2>2 DEF ServerTyped, QueueNumbered
    <3>2. CASE q.ad[1] = p
      BY <1>1, <1>2, <3>1, <3>2 DEF n
    <3>3. CASE q.ad[1] # p
      BY <1>2, <3>1, <3>3
    <3> QED
      BY <3>2, <3>3
  <2> QED
    BY <2>1, <2>2
<1>4. ASSUME NEW other \in AdIds, Numbered(other)
      PROVE  Numbered(other)'
  <2>1. other = <<other[1], other[2]>> /\ other[2] \in Nat
    BY DEF AdIds
  <2>2. CASE other[1] = p
    BY <1>1, <1>2, <1>4, <2>1, <2>2 DEF Numbered, n
  <2>3. CASE other[1] # p
    BY <1>2, <1>4, <2>3 DEF Numbered
  <2> QED
    BY <2>2, <2>3
<1> QED
  BY <1>3, <1>4 DEF ServerTyped, Numbered

LEMMA ServeConfirmTyped ==
  ASSUME CatalogInv, NEW c \in Calls, ServeConfirm(c)
  PROVE  CatalogInv'
<1> DEFINE ad == call[c].answer.ad
           answered == IF ad[2] = Generation(ad[1]) THEN draft[ad[1]]
                     ELSE (CHOOSE q \in queued : q.ad = ad).content
<1>1. /\ UNCHANGED <<page, ids, drawn>> /\ At(c, "sent")
      /\ \/ /\ ad[2] = Generation(ad[1])
            /\ queued' = queued \cup {[ad |-> ad, content |-> draft[ad[1]],
                                       shown |-> call[c].shown,
                                       by |-> call[c].product]}
            /\ draft' = [draft EXCEPT ![ad[1]] = Blank]
         \/ UNCHANGED server
  BY DEF ServeConfirm
<1>2. call[c] \in CallRow /\ ad \in AdIds /\ Numbered(ad) /\ ad # NoAd
  BY <1>1 DEF ServeConfirm, At, CatalogInv, CallsTyped, SendsItsProduct,
     CallRow, Answers
<1>3. ad[1] \in Products /\ draft[ad[1]] \in Contents /\ call[c].shown \in Contents
  BY <1>2 DEF AdIds, CallRow, CatalogInv, ServerTyped
<1>4. answered \in Contents
  <2>1. CASE ad[2] = Generation(ad[1])
    BY <1>3, <2>1
  <2>2. CASE ad[2] # Generation(ad[1])
    <3>1. Generation(ad[1]) \in Nat /\ ad[2] \in Nat
      BY <1>2, GenerationType DEF AdIds, CatalogInv, ServerTyped, QueueNumbered
    <3>2. PICK q \in queued : q.ad = ad
      BY <1>2, <2>2, <3>1 DEF Numbered
    <3>3. (CHOOSE r \in queued : r.ad = ad) \in queued
      BY <3>2
    <3> QED
      BY <2>2, <3>3 DEF CatalogInv, ServerTyped
  <2> QED
    BY <2>1, <2>2
<1>5. PICK was \in Contents :
        call' = [call EXCEPT ![c].step = "served",
                             ![c].answer.content = was,
                             ![c].answer.allowed = FALSE]
  BY <1>4, Zenon DEF ServeConfirm
<1> DEFINE answer == [[call[c].answer EXCEPT !.content = was]
                        EXCEPT !.allowed = FALSE]
<1>6. answer \in Answers /\ answer.ad = ad
  BY <1>2 DEF CallRow, Answers
<1>7. call' = [call EXCEPT ![c].step = "served", ![c].answer = answer]
  <2>1. call = [d \in Calls |-> call[d]] /\ call[c] \in CallRow
    BY <1>2 DEF CatalogInv, CallsTyped
  <2> QED
    BY ONLY <1>5, <2>1, c \in Calls DEF CallRow
<1> HIDE DEF answer
<1>8. /\ ServerTyped'
      /\ \A other \in AdIds \cup {NoAd} : Numbered(other) => Numbered(other)'
  <2>1. CASE UNCHANGED server
    BY <2>1, ServerStays, NumbersStay DEF CatalogInv, server
  <2>2. CASE ~UNCHANGED server
    <3> DEFINE row == [ad |-> ad, content |-> draft[ad[1]],
                       shown |-> call[c].shown, by |-> call[c].product]
    <3>1. /\ row.ad = ad /\ {row.content, row.shown} \subseteq Contents
          /\ draft' \in [Products -> Contents]
          /\ queued' = queued \cup {row} /\ ad[2] = Generation(ad[1])
      BY <1>1, <1>3, <2>2 DEF CatalogInv, ServerTyped, Contents
    <3> HIDE DEF row
    <3> QED
      BY <1>2, <3>1, QueueGrows DEF CatalogInv
  <2> QED
    BY <2>1, <2>2
<1>9. CallsTyped'
  BY <1>1, <1>2, <1>6, <1>7, <1>8, ServedTyped DEF CatalogInv
<1>10. ViewTyped' /\ Numbered(prepared.ad)'
  <2>1. prepared.ad \in AdIds \cup {NoAd} /\ prepared' = prepared
    BY <1>1 DEF CatalogInv, ViewTyped, Answers, page
  <2>2. Numbered(prepared.ad)'
    BY <1>8, <2>1 DEF CatalogInv
  <2> QED
    BY <1>1, <2>2 DEF CatalogInv, ViewTyped, page, ids
<1> QED
  BY <1>8, <1>9, <1>10 DEF CatalogInv

LEMMA CatalogStarts ==
  ASSUME CatalogPageAssumption, Init \/ Overlap!Init
  PROVE  CatalogInv /\ made = 0
<1>1. /\ \E list \in Lists \ {<<>>} : products = list /\ selected = list[1]
      /\ preview \in {selected, None} /\ prepared = NoAnswer
      /\ searchId = 0 /\ previewId = 1
      /\ drawn = [list |-> products, active |-> selected, preview |-> preview,
                  form |-> [of |-> selected, edited |-> FALSE],
                  card |-> NoAnswer]
      /\ call = [c \in Calls |-> Idle]
      /\ draft = [p \in Products |-> Blank] /\ queued = {} /\ made = 0
  BY DEF Init, Overlap!Init, NoAnswer, Overlap!NoAnswer, NoAd, Overlap!NoAd,
     Blank, Overlap!Blank, Idle, Overlap!Idle
<1>2. products \in Lists /\ selected \in Products
  BY <1>1, EmptyTyped
<1>3. [of |-> selected, edited |-> FALSE] \in Contents
  BY <1>2 DEF Contents, Content
<1>4. ViewTyped /\ Numbered(prepared.ad)
  BY <1>1, <1>2, <1>3, EmptyTyped DEF ViewTyped, Some
<1>5. CallsTyped
  BY <1>1 DEF CallsTyped
<1>6. ServerTyped
  BY <1>1, EmptyTyped, FS_EmptySet DEF ServerTyped, QueueNumbered
<1> QED
  BY <1>1, <1>4, <1>5, <1>6 DEF CatalogInv

LEMMA CatalogStep ==
  ASSUME CatalogPageAssumption, CatalogInv, [Next]_vars \/ [Overlap!Next]_vars
  PROVE  CatalogInv'
<1>1. CASE UNCHANGED vars
  BY <1>1, CallsStayTyped, ServerStays, NumbersStay
     DEF CatalogInv, ViewTyped, vars, page, ids, server
<1>2. CASE EditForm \/ Overlap!EditForm
  BY <1>2, SameEdit, EditTyped
<1>3. ASSUME NEW c \in Calls,
             \/ RunSearch(c) \/ Overlap!RunSearch(c)
             \/ \E k \in 1 .. Len(drawn.list) : Select(c, k) \/ Overlap!Select(c, k)
             \/ Prepare(c) \/ Overlap!Prepare(c)
             \/ Confirm(c) \/ Overlap!Confirm(c)
      PROVE  CatalogInv'
  BY <1>3, RunSearchTyped, SelectTyped, SendTyped
<1>4. ASSUME NEW c \in Calls,
             \/ ListAnswer(c) \/ ListFails(c) \/ PreviewAnswer(c)
             \/ ServePrepare(c) \/ ServeConfirm(c) \/ Refused(c) \/ Answer(c)
      PROVE  CatalogInv'
  BY <1>4, ListAnswerTyped, EndsTyped, PreviewAnswerTyped, ServePrepareTyped,
     ServeConfirmTyped, DraftAnswerTyped
<1>5. CASE Next
  BY <1>2, <1>3, <1>4, <1>5 DEF Next
<1>6. CASE Overlap!Next
  BY <1>2, <1>3, <1>4, <1>6, SameSteps DEF Overlap!Next
<1> QED
  BY <1>1, <1>5, <1>6

\* A call is counted where it begins, and only below the bound.
LEMMA CallsCounted ==
  ASSUME CatalogPageAssumption
  PROVE  /\ made \in 0 .. MaxCalls /\ [Next]_vars => made' \in 0 .. MaxCalls
         /\ made \in 0 .. 4 /\ [Overlap!Next]_vars => made' \in 0 .. 4
<1> DEFINE Counts(max) == made' = made \/ (made < max /\ made' = made + 1)
<1>1. Next => Counts(MaxCalls)
  <2>1. ASSUME NEW c \in Calls,
               \/ RunSearch(c) \/ Prepare(c) \/ Confirm(c)
               \/ \E k \in 1 .. Len(drawn.list) : Select(c, k)
        PROVE  Counts(MaxCalls)
    BY <2>1 DEF RunSearch, Prepare, Confirm, Select, Begin
  <2>2. ASSUME NEW c \in Calls,
               \/ ListAnswer(c) \/ ListFails(c) \/ PreviewAnswer(c)
               \/ ServePrepare(c) \/ ServeConfirm(c) \/ Refused(c) \/ Answer(c)
        PROVE  made' = made
    BY <2>2, Zenon DEF ListAnswer, ListFails, PreviewAnswer, ServePrepare,
       ServeConfirm, Refused, Answer
  <2>3. EditForm => made' = made
    BY DEF EditForm
  <2> QED
    BY <2>1, <2>2, <2>3 DEF Next
<1>2. Overlap!Next => Counts(4)
  <2>1. ASSUME NEW c \in Calls,
               \/ Overlap!RunSearch(c) \/ Overlap!Prepare(c)
               \/ Overlap!Confirm(c)
               \/ \E k \in 1 .. Len(drawn.list) : Overlap!Select(c, k)
        PROVE  Counts(4)
    BY <2>1 DEF Overlap!RunSearch, Overlap!Prepare, Overlap!Confirm,
       Overlap!Select, Overlap!Begin
  <2>2. ASSUME NEW c \in Calls,
               \/ ListAnswer(c) \/ ListFails(c) \/ PreviewAnswer(c)
               \/ ServePrepare(c) \/ ServeConfirm(c) \/ Refused(c) \/ Answer(c)
        PROVE  made' = made
    BY <2>2, Zenon DEF ListAnswer, ListFails, PreviewAnswer, ServePrepare,
       ServeConfirm, Refused, Answer
  <2>3. Overlap!EditForm => made' = made
    BY DEF Overlap!EditForm
  <2> QED
    BY <2>1, <2>2, <2>3, SameSteps DEF Overlap!Next
<1>3. MaxCalls \in Nat
  BY DEF CatalogPageAssumption
<1> QED
  BY <1>1, <1>2, <1>3 DEF vars

LEMMA CatalogTypes ==
  /\ CatalogInv /\ made \in 0 .. MaxCalls => TypeOK
  /\ CatalogInv /\ made \in 0 .. 4 => Overlap!TypeOK
<1> USE DEF CatalogInv, ViewTyped, CallsTyped, ServerTyped
<1>1. CatalogInv /\ made \in 0 .. MaxCalls => TypeOK
  BY DEF TypeOK
<1>2. /\ Overlap!Contents = Contents /\ Overlap!Some = Some
      /\ Overlap!Answers = Answers /\ Overlap!AdIds = AdIds
      /\ Overlap!Idle = Idle /\ Overlap!CallRow = CallRow
  BY DEF Overlap!Contents, Overlap!Content, Overlap!Blank, Overlap!Some,
     Overlap!Answers, Overlap!AdIds, Overlap!NoAd, Overlap!Idle,
     Overlap!CallRow, Contents, Content, Blank, Some, Answers, AdIds, NoAd,
     Idle, CallRow
<1>3. CatalogInv /\ made \in 0 .. 4 => Overlap!TypeOK
  BY <1>2 DEF Overlap!TypeOK
<1> QED
  BY <1>1, <1>3

-----------------------------------------------------------------------------
(***************************************************************************)
(* One call at a time (the setting serial).  The inductive invariant says  *)
(* what each step of the only call knows: while a list or a preview is     *)
(* awaited nothing is prepared; what is sent is of the selection, a        *)
(* confirmation of what the card shows; what the server answered is true   *)
(* of its draft.  So when the answer is drawn the page is true again.      *)
(***************************************************************************)
Values == [of: Some, edited: BOOLEAN]
Told == [ad: (Products \X Nat) \cup {NoAd}, content: Values, allowed: BOOLEAN]

\* One call is in flight at most, and whether one is can be counted.
OneInFlight ==
  /\ IsFiniteSet(InFlight)
  /\ \A c, d \in InFlight : c = d

\* The document shows the list and the selection unless a preview is awaited.
DrawnIsCurrent ==
  \/ drawn.list = products /\ drawn.active = selected
  \/ \E c \in InFlight : At(c, "preview")

\* The form on the page is of the product shown as selected.
PageIsWhole ==
  /\ products \in Seq(Products) /\ selected \in Some /\ prepared \in Told
  /\ drawn.form \in Values /\ drawn.form.of = drawn.active

\* The draft an answer tells of is the stored one, until it was queued.
TellsTruth(answer) ==
  answer.ad # NoAd =>
    /\ answer.content.of = answer.ad[1]
    /\ answer.ad[2] <= Generation(answer.ad[1])
    /\ IF answer.ad[2] = Generation(answer.ad[1])
       THEN draft[answer.ad[1]] = answer.content
       ELSE \E q \in queued : q.ad = answer.ad

OfSelected(answer) == answer.ad # NoAd => answer.ad[1] = selected

\* What the call in flight knows, by how far it is.
Awaits(c) ==
  /\ prepared = NoAnswer
  /\ call[c].kind = "search" => call[c].id = searchId

Sends(c) ==
  /\ call[c].product = selected /\ selected \in Products
  /\ call[c].kind = "prepare" =>
       call[c].content \in Values /\ call[c].content.of = selected
  /\ call[c].kind = "confirm" =>
       /\ call[c].answer = prepared /\ prepared.ad # NoAd
       /\ call[c].shown = prepared.content

Brings(c) ==
  call[c].answer \in Told /\ TellsTruth(call[c].answer)
  /\ OfSelected(call[c].answer)

CallFits(c) ==
  /\ call[c].step \in {"list", "preview", "sent", "served"}
  /\ call[c].step = "list" => call[c].kind = "search"
  /\ call[c].step \in {"list", "preview"} => Awaits(c)
  /\ call[c].step = "sent" => Sends(c)
  /\ call[c].step = "served" => Brings(c)

CallsFit == \A c \in InFlight : CallFits(c)

\* Until the server has answered, what is prepared is true of the selection.
PreparedIsTrue ==
  (\A c \in InFlight : call[c].step # "served") =>
    TellsTruth(prepared) /\ OfSelected(prepared)

\* Drafts are of their products; what is queued is what was shown, under
\* numbers that are used up.
DraftsAndQueue ==
  /\ draft \in [Products -> Values]
  /\ DraftIsOfItsProduct
  /\ IsFiniteSet(queued)
  /\ \A q \in queued :
       /\ q.content \in Values /\ q.content = q.shown /\ q.content.of = q.ad[1]
       /\ q.ad[2] \in Nat /\ q.ad[2] < Generation(q.ad[1])

SerialParts == OneInFlight /\ DrawnIsCurrent /\ PageIsWhole /\ CallsFit
               /\ PreparedIsTrue /\ DraftsAndQueue

SerialInv == PageInv /\ SerialParts

-----------------------------------------------------------------------------
(***************************************************************************)
(* Calls in flight, one at a time.                                         *)
(***************************************************************************)
LEMMA RowNotIdle ==
  ASSUME NEW row, row = [f \in Fields |-> row[f]]
  PROVE  row # Idle
<1>1. DOMAIN row = Fields
  OBVIOUS
<1>2. DOMAIN Idle = {"kind"}
  BY DEF Idle
<1>3. Fields # {"kind"}
  BY DEF Fields
<1> QED
  BY <1>1, <1>2, <1>3

\* A call begins when none is in flight, and then is the only one.
LEMMA BeginsAlone ==
  ASSUME CallsAreRecords, OneInFlight, MaxInFlight = 1, NEW c \in Calls,
         NEW kind, NEW step, NEW id, NEW p, NEW values,
         Begin(c, kind, step, id, p, values)
  PROVE  /\ InFlight = {} /\ InFlight' = {c} /\ OneInFlight'
         /\ call'[c] = [kind |-> kind, step |-> step, id |-> id,
                        pid |-> previewId', product |-> p, content |-> values,
                        shown |-> drawn.card.content, answer |-> prepared]
<1> DEFINE row == [kind |-> kind, step |-> step, id |-> id, pid |-> previewId',
                   product |-> p, content |-> values,
                   shown |-> drawn.card.content, answer |-> prepared]
<1>1. InFlight = {}
  <2>1. Cardinality(InFlight) < 1
    BY DEF Begin
  <2>2. Cardinality(InFlight) \in Nat
    BY FS_CardinalityType DEF OneInFlight
  <2>3. Cardinality(InFlight) = 0
    BY <2>1, <2>2
  <2> QED
    BY <2>3, FS_EmptySet DEF OneInFlight
<1>2. row = [f \in Fields |-> row[f]]
  BY DEF Fields
<1>3. call' = [call EXCEPT ![c] = row]
  BY DEF Begin
<1> HIDE DEF row
<1>4. call'[c] = row /\ row # Idle /\ \A d \in Calls : d # c => call'[d] = call[d]
  BY <1>2, <1>3, CallStep, RowNotIdle
<1>5. InFlight' = {c}
  BY <1>1, <1>4 DEF InFlight
<1>6. OneInFlight'
  BY <1>5, FS_Singleton DEF OneInFlight
<1> QED
  BY <1>1, <1>4, <1>5, <1>6 DEF row

\* The call of a step is the only one, and stays it if it goes on.
LEMMA GoesOn ==
  ASSUME CallsAreRecords, OneInFlight, NEW c \in Calls, NEW step, At(c, step),
         NEW row, row = [f \in Fields |-> row[f]],
         call' = [call EXCEPT ![c] = row]
  PROVE  InFlight' = {c} /\ OneInFlight' /\ call'[c] = row
<1>1. c \in InFlight
  BY DEF At, InFlight
<1>2. call'[c] = row /\ row # Idle /\ \A d \in Calls : d # c => call'[d] = call[d]
  BY CallStep, RowNotIdle
<1>3. InFlight' = {c}
  BY <1>1, <1>2 DEF InFlight, OneInFlight
<1> QED
  BY <1>2, <1>3, FS_Singleton DEF OneInFlight

LEMMA EndsAlone ==
  ASSUME CallsAreRecords, OneInFlight, NEW c \in Calls, NEW step, At(c, step),
         End(c)
  PROVE  InFlight = {c} /\ InFlight' = {} /\ OneInFlight'
<1>1. InFlight = {c}
  BY DEF At, InFlight, OneInFlight
<1>2. call' = [call EXCEPT ![c] = Idle]
  BY DEF End
<1>3. call'[c] = Idle /\ \A d \in Calls : d # c => call'[d] = call[d]
  BY <1>2, CallStep
<1>4. InFlight' = {}
  BY <1>1, <1>3 DEF InFlight
<1> QED
  BY <1>1, <1>4, FS_EmptySet DEF OneInFlight

\* What an answer tells stays true while the server does nothing.
LEMMA TruthStays ==
  ASSUME UNCHANGED <<draft, queued>>
  PROVE  /\ \A x : TellsTruth(x) => TellsTruth(x)'
         /\ DraftsAndQueue => DraftsAndQueue'
<1>1. \A p : Generation(p)' = Generation(p)
  BY DEF Generation
<1> QED
  BY <1>1 DEF TellsTruth, DraftsAndQueue, DraftIsOfItsProduct

LEMMA NothingTold == NoAnswer \in Told /\ TellsTruth(NoAnswer) /\ OfSelected(NoAnswer)
BY DEF NoAnswer, Told, Values, Blank, Some, NoAd, TellsTruth, OfSelected

\* A draw with nothing of another product prepared fills the form of the
\* selection.
LEMMA DrawIsCurrent ==
  ASSUME Draw, selected' \in Some, prepared' \in Told, products' \in Seq(Products),
         prepared'.ad # NoAd => prepared'.content.of = selected'
  PROVE  DrawnIsCurrent' /\ PageIsWhole'
<1>1. FilledForm \in Values /\ FilledForm.of = selected'
  BY DEF FilledForm, Values, Told
<1>2. drawn'.list = products' /\ drawn'.active = selected' /\ drawn'.form = FilledForm
  BY DEF Draw
<1> QED
  BY <1>1, <1>2 DEF DrawnIsCurrent, PageIsWhole

-----------------------------------------------------------------------------
(***************************************************************************)
(* The actions, one call at a time.                                        *)
(***************************************************************************)
LEMMA SerialInit == CatalogPageAssumption /\ Init => SerialInv
<1> SUFFICES ASSUME CatalogPageAssumption, Init PROVE SerialInv
  OBVIOUS
<1>1. InFlight = {} /\ OneInFlight /\ CallsFit
  <2>1. InFlight = {}
    BY DEF Init, InFlight
  <2> QED
    BY <2>1, FS_EmptySet DEF OneInFlight, CallsFit
<1>2. products \in Seq(Products) /\ selected \in Some
  <2>1. PICK list \in Lists \ {<<>>} : products = list /\ selected = list[1]
    BY DEF Init
  <2>2. list \in Seq(Products)
    BY DEF CatalogPageAssumption
  <2>3. list[1] \in Products
    BY <2>1, <2>2
  <2> QED
    BY <2>1, <2>2, <2>3 DEF Some
<1>3. DrawnIsCurrent /\ PageIsWhole
  BY <1>2, NothingTold DEF Init, DrawnIsCurrent, PageIsWhole, Values
<1>4. PreparedIsTrue
  BY NothingTold DEF Init, PreparedIsTrue
<1>5. DraftsAndQueue
  BY FS_EmptySet DEF Init, DraftsAndQueue, DraftIsOfItsProduct, Blank, Values,
     Some
<1> QED
  BY <1>1, <1>3, <1>4, <1>5, InitHolds DEF SerialInv, SerialParts

LEMMA SerialEditForm ==
  ASSUME SerialInv, EditForm
  PROVE  SerialParts'
<1>1. UNCHANGED <<products, selected, preview, prepared, searchId, previewId,
                  call, draft, queued>>
  BY DEF EditForm, page, ids, server
<1>2. /\ drawn'.list = drawn.list /\ drawn'.active = drawn.active
      /\ drawn'.form \in Values /\ drawn'.form.of = drawn.form.of
  <2>1. drawn' = [drawn EXCEPT !.form.edited = TRUE]
    BY DEF EditForm
  <2>2. DocumentIsRecord /\ drawn.form \in Values
    BY DEF SerialInv, SerialParts, PageInv, PageIsWhole
  <2>3. drawn'.form = [drawn.form EXCEPT !.edited = TRUE]
        /\ drawn'.list = drawn.list /\ drawn'.active = drawn.active
    BY <2>1, <2>2 DEF DocumentIsRecord
  <2> QED
    BY <2>2, <2>3 DEF Values
<1>3. InFlight' = InFlight
  BY <1>1 DEF InFlight
<1>4. OneInFlight' /\ DrawnIsCurrent' /\ PageIsWhole'
  BY <1>1, <1>2, <1>3 DEF SerialInv, SerialParts, OneInFlight, DrawnIsCurrent,
     PageIsWhole, At
<1>5. CallsFit'
  <2>1. ASSUME NEW d \in InFlight PROVE CallFits(d)'
    <3>1. CallFits(d) /\ (TellsTruth(call[d].answer) => TellsTruth(call[d].answer)')
      BY <1>1, TruthStays DEF SerialInv, SerialParts, CallsFit
    <3> QED
      BY <1>1, <3>1 DEF CallFits, Awaits, Sends, Brings, OfSelected
  <2> QED
    BY <1>3, <2>1 DEF CallsFit
<1>6. PreparedIsTrue' /\ DraftsAndQueue'
  BY <1>1, <1>3, TruthStays DEF SerialInv, SerialParts, OfSelected,
     PreparedIsTrue
<1> QED
  BY <1>4, <1>5, <1>6 DEF SerialParts

LEMMA SerialRunSearch ==
  ASSUME SerialInv, MaxInFlight = 1, NEW c \in Calls, RunSearch(c)
  PROVE  SerialParts'
<1>1. UNCHANGED <<products, selected, drawn, draft, queued>>
      /\ prepared' = NoAnswer
  BY DEF RunSearch, server
<1>2. /\ InFlight = {} /\ InFlight' = {c} /\ OneInFlight'
      /\ call'[c].step = "list" /\ call'[c].id = searchId'
      /\ call'[c].kind = "search"
  <2>1. Begin(c, "search", "list", searchId', None, Blank)
    BY DEF RunSearch
  <2>2. CallsAreRecords /\ OneInFlight
    BY DEF SerialInv, SerialParts, PageInv
  <2>3. /\ InFlight = {} /\ InFlight' = {c} /\ OneInFlight'
        /\ call'[c] = [kind |-> "search", step |-> "list", id |-> searchId',
                       pid |-> previewId', product |-> None, content |-> Blank,
                       shown |-> drawn.card.content, answer |-> prepared]
    BY ONLY <2>1, <2>2, BeginsAlone, MaxInFlight = 1, c \in Calls
  <2> QED
    BY <2>3
<1>3. DrawnIsCurrent' /\ PageIsWhole'
  <2>1. DrawnIsCurrent'
    BY <1>1, <1>2 DEF SerialInv, SerialParts, DrawnIsCurrent
  <2>2. PageIsWhole'
    BY <1>1, NothingTold DEF SerialInv, SerialParts, PageIsWhole
  <2> QED
    BY <2>1, <2>2
<1>4. CallsFit'
  BY <1>1, <1>2 DEF CallsFit, CallFits, Awaits
<1>5. PreparedIsTrue' /\ DraftsAndQueue'
  <2>1. TellsTruth(NoAnswer)' /\ OfSelected(NoAnswer)'
    BY DEF NoAnswer, TellsTruth, OfSelected
  <2> QED
    BY <1>1, <2>1, TruthStays DEF PreparedIsTrue, SerialInv, SerialParts
<1> QED
  BY <1>2, <1>3, <1>4, <1>5 DEF SerialParts

\* While a call awaits a list or a preview nothing is prepared.
LEMMA NothingPrepared ==
  ASSUME SerialInv, NEW c \in Calls, At(c, "list") \/ At(c, "preview")
  PROVE  Awaits(c)
BY DEF SerialInv, SerialParts, CallsFit, CallFits, At, InFlight

\* The end of a call with nothing prepared.
LEMMA EndsUnprepared ==
  ASSUME SerialInv, InFlight' = {}, OneInFlight', prepared' = NoAnswer,
         UNCHANGED <<draft, queued>>, DrawnIsCurrent', PageIsWhole'
  PROVE  SerialParts'
<1>1. TellsTruth(NoAnswer)' /\ OfSelected(NoAnswer)'
  BY DEF NoAnswer, TellsTruth, OfSelected
<1>2. CallsFit' /\ PreparedIsTrue' /\ DraftsAndQueue'
  BY <1>1, TruthStays DEF CallsFit, PreparedIsTrue, SerialInv, SerialParts
<1> QED
  BY <1>2 DEF SerialParts

LEMMA SerialListAnswer ==
  ASSUME CatalogPageAssumption, SerialInv, NEW c \in Calls, ListAnswer(c)
  PROVE  SerialParts'
<1>1. /\ UNCHANGED <<prepared, searchId, draft, queued>> /\ At(c, "list")
  BY DEF ListAnswer, server
<1>2. prepared' = NoAnswer /\ Awaits(c)
  BY <1>1, NothingPrepared DEF Awaits
<1>3. products' \in Seq(Products) /\ selected' \in Some
  <2>1. PICK list \in Lists :
          products' = list /\ selected' = IF list = <<>> THEN None ELSE list[1]
    BY DEF ListAnswer
  <2>2. list \in Seq(Products)
    BY DEF CatalogPageAssumption
  <2>3. list # <<>> => list[1] \in Products
    BY <2>2
  <2> QED
    BY <2>1, <2>2, <2>3 DEF Some
<1>4. CASE selected' = None
  <2>1. End(c) /\ IF call[c].id = searchId THEN Draw ELSE UNCHANGED drawn
    BY <1>4 DEF ListAnswer
  <2>2. InFlight' = {} /\ OneInFlight'
    BY <1>1, <2>1, EndsAlone DEF SerialInv, SerialParts, PageInv
  <2>3. Draw
    BY <1>1, <1>2, <2>1 DEF Awaits, SerialInv, SerialParts, CallsFit, CallFits,
       At, InFlight
  <2>4. DrawnIsCurrent' /\ PageIsWhole'
    BY <1>2, <1>3, <2>3, DrawIsCurrent, NothingTold DEF NoAnswer
  <2> QED
    BY <1>1, <1>2, <2>2, <2>4, EndsUnprepared
<1>5. CASE selected' # None
  <2> DEFINE row == [call[c] EXCEPT !.step = "preview",
                       !.product = selected', !.pid = previewId']
  <2>1. call' = [call EXCEPT ![c] = row] /\ UNCHANGED drawn
    BY <1>5 DEF ListAnswer
  <2>2. /\ row = [f \in Fields |-> row[f]]
        /\ row.step = "preview" /\ row.kind = call[c].kind /\ row.id = call[c].id
    BY <1>1 DEF At, SerialInv, PageInv, CallsAreRecords, Fields
  <2> HIDE DEF row
  <2>3. InFlight' = {c} /\ OneInFlight' /\ call'[c] = row
    BY <1>1, <2>1, <2>2, GoesOn DEF SerialInv, SerialParts, PageInv
  <2>4. DrawnIsCurrent' /\ PageIsWhole'
    BY <1>2, <1>3, <2>1, <2>2, <2>3, NothingTold DEF DrawnIsCurrent, At,
       PageIsWhole, InFlight, SerialInv, SerialParts
  <2>5. CallsFit'
    BY <1>1, <1>2, <2>2, <2>3 DEF CallsFit, CallFits, Awaits
  <2>6. PreparedIsTrue' /\ DraftsAndQueue'
    <3>1. TellsTruth(NoAnswer)' /\ OfSelected(NoAnswer)'
      BY DEF NoAnswer, TellsTruth, OfSelected
    <3> QED
      BY <1>1, <1>2, <3>1, TruthStays DEF PreparedIsTrue, SerialInv, SerialParts
  <2> QED
    BY <2>3, <2>4, <2>5, <2>6 DEF SerialParts
<1> QED
  BY <1>4, <1>5

\* A button of the list that is shown names a product, unless a preview is
\* awaited: then the list may be an old one.
LEMMA ClickedProduct ==
  ASSUME CatalogPageAssumption, SerialInv, NEW k, k \in DOMAIN drawn.list
  PROVE  /\ Clicked(k) \in Some
         /\ (\A d \in InFlight : ~At(d, "preview")) => Clicked(k) # None
<1>1. products \in Seq(Products)
  BY DEF SerialInv, SerialParts, PageIsWhole
<1>2. k \in DOMAIN products => products[k] \in Products
  BY <1>1
<1>3. None \notin Products
  BY DEF CatalogPageAssumption
<1>4. (\A d \in InFlight : ~At(d, "preview")) => k \in DOMAIN products
  BY DEF SerialInv, SerialParts, DrawnIsCurrent
<1> QED
  BY <1>2, <1>3, <1>4 DEF Clicked, Some

LEMMA SerialSelect ==
  ASSUME CatalogPageAssumption, SerialInv, MaxInFlight = 1, NEW c \in Calls,
         NEW k, Select(c, k)
  PROVE  SerialParts'
<1>1. /\ UNCHANGED <<products, searchId, draft, queued>> /\ prepared' = NoAnswer
      /\ selected' = Clicked(k) /\ k \in DOMAIN drawn.list
  BY DEF Select, server
<1>2. selected' \in Some /\ products' \in Seq(Products)
  BY <1>1, ClickedProduct DEF SerialInv, SerialParts, PageIsWhole
<1>3. PreparedIsTrue' /\ DraftsAndQueue'
  <2>1. TellsTruth(NoAnswer)' /\ OfSelected(NoAnswer)'
    BY DEF NoAnswer, TellsTruth, OfSelected
  <2> QED
    BY <1>1, <2>1, TruthStays DEF PreparedIsTrue, SerialInv, SerialParts
<1>4. CASE selected' = None
  <2>1. Draw /\ UNCHANGED call
    BY <1>4 DEF Select
  <2>2. DrawnIsCurrent' /\ PageIsWhole'
    BY <1>1, <1>2, <2>1, DrawIsCurrent, NothingTold DEF NoAnswer
  <2>3. InFlight' = InFlight
    BY <2>1 DEF InFlight
  <2>4. PICK d \in InFlight \cup {c} : InFlight = {} \/ At(d, "preview")
    BY <1>1, <1>4, ClickedProduct
  <2>5. CallsFit'
    <3>1. ASSUME NEW e \in InFlight PROVE CallFits(e)'
      <4>1. e = d /\ At(e, "preview") /\ CallFits(e)
        BY <2>4 DEF SerialInv, SerialParts, OneInFlight, CallsFit, At, InFlight
      <4> QED
        BY <1>1, <2>1, <4>1 DEF CallFits, Awaits, At
    <3> QED
      BY <2>3, <3>1 DEF CallsFit
  <2>6. OneInFlight'
    BY <2>3 DEF SerialInv, SerialParts, OneInFlight
  <2> QED
    BY <1>3, <2>2, <2>5, <2>6 DEF SerialParts
<1>5. CASE selected' # None
  <2>1. Begin(c, "select", "preview", 0, selected', Blank) /\ UNCHANGED drawn
    BY <1>5 DEF Select
  <2>2. CallsAreRecords /\ OneInFlight
    BY DEF SerialInv, SerialParts, PageInv
  <2>3. /\ InFlight' = {c} /\ OneInFlight'
        /\ call'[c] = [kind |-> "select", step |-> "preview", id |-> 0,
                       pid |-> previewId', product |-> selected',
                       content |-> Blank, shown |-> drawn.card.content,
                       answer |-> prepared]
    BY ONLY <2>1, <2>2, BeginsAlone, MaxInFlight = 1, c \in Calls
  <2>4. call'[c] # Idle /\ call'[c].step = "preview" /\ call'[c].kind = "select"
    BY <2>3 DEF InFlight
  <2>5. DrawnIsCurrent'
    BY <2>3, <2>4 DEF DrawnIsCurrent, At
  <2>6. PageIsWhole'
    BY <1>1, <1>2, <2>1, NothingTold DEF PageIsWhole, SerialInv, SerialParts
  <2>7. CallsFit'
    BY <1>1, <2>3, <2>4 DEF CallsFit, CallFits, Awaits
  <2> QED
    BY <1>3, <2>3, <2>5, <2>6, <2>7 DEF SerialParts
<1> QED
  BY <1>4, <1>5

LEMMA SerialPreviewAnswer ==
  ASSUME SerialInv, NEW c \in Calls, PreviewAnswer(c)
  PROVE  SerialParts'
<1>1. /\ UNCHANGED <<products, selected, prepared, draft, queued>>
      /\ End(c) /\ At(c, "preview")
  BY DEF PreviewAnswer, server
<1>2. Awaits(c)
  BY <1>1, NothingPrepared
<1>3. Draw
  BY <1>2 DEF PreviewAnswer, Awaits, Superseded
<1>4. DrawnIsCurrent' /\ PageIsWhole'
  BY <1>1, <1>2, <1>3, DrawIsCurrent DEF Awaits, NoAnswer, SerialInv,
     SerialParts, PageIsWhole
<1>5. InFlight' = {} /\ OneInFlight'
  BY <1>1, EndsAlone DEF SerialInv, SerialParts, PageInv
<1> QED
  BY <1>1, <1>2, <1>4, <1>5, EndsUnprepared DEF Awaits

\* The two ways a call ends with nothing else done.
LEMMA SerialEnds ==
  ASSUME SerialInv, NEW c \in Calls, ListFails(c) \/ Refused(c)
  PROVE  SerialParts'
<1>1. /\ UNCHANGED <<products, selected, prepared, drawn, draft, queued>>
      /\ End(c) /\ (At(c, "list") \/ At(c, "sent"))
  BY DEF ListFails, Refused, page, server
<1>2. InFlight = {c} /\ InFlight' = {} /\ OneInFlight'
  BY <1>1, EndsAlone DEF SerialInv, SerialParts, PageInv
<1>3. DrawnIsCurrent' /\ PageIsWhole'
  BY <1>1, <1>2 DEF SerialInv, SerialParts, DrawnIsCurrent, PageIsWhole, At
<1>4. CallsFit'
  BY <1>2 DEF CallsFit
<1>5. PreparedIsTrue' /\ DraftsAndQueue'
  <2>1. call[c].step # "served"
    BY <1>1 DEF At
  <2>2. TellsTruth(prepared) /\ OfSelected(prepared)
    BY <1>2, <2>1 DEF SerialInv, SerialParts, PreparedIsTrue
  <2> QED
    BY <1>1, <2>2, TruthStays DEF PreparedIsTrue, OfSelected, SerialInv,
       SerialParts
<1> QED
  BY <1>2, <1>3, <1>4, <1>5 DEF SerialParts

\* What is prepared is true when nothing is in flight, and stays it for a send.
LEMMA SendStays ==
  ASSUME SerialInv, InFlight = {}, NEW c \in Calls, InFlight' = {c},
         OneInFlight', call'[c].step = "sent",
         UNCHANGED <<products, selected, prepared, drawn, draft, queued>>,
         Sends(c)'
  PROVE  SerialParts'
<1>1. DrawnIsCurrent' /\ PageIsWhole'
  BY DEF SerialInv, SerialParts, DrawnIsCurrent, PageIsWhole
<1>2. CallsFit'
  BY DEF CallsFit, CallFits
<1>3. TellsTruth(prepared) /\ OfSelected(prepared)
  BY DEF SerialInv, SerialParts, PreparedIsTrue
<1>4. PreparedIsTrue' /\ DraftsAndQueue'
  BY <1>3, TruthStays DEF PreparedIsTrue, OfSelected, SerialInv, SerialParts
<1> QED
  BY <1>1, <1>2, <1>4 DEF SerialParts

LEMMA SerialPrepare ==
  ASSUME SerialInv, MaxInFlight = 1, NEW c \in Calls, Prepare(c)
  PROVE  SerialParts'
<1>1. /\ UNCHANGED <<products, selected, prepared, drawn, draft, queued>>
      /\ Begin(c, "prepare", "sent", 0, selected, drawn.form)
      /\ selected # None
  BY DEF Prepare, page, server
<1>2. CallsAreRecords /\ OneInFlight
  BY DEF SerialInv, SerialParts, PageInv
<1>3. /\ InFlight = {} /\ InFlight' = {c} /\ OneInFlight'
      /\ call'[c] = [kind |-> "prepare", step |-> "sent", id |-> 0,
                     pid |-> previewId', product |-> selected,
                     content |-> drawn.form, shown |-> drawn.card.content,
                     answer |-> prepared]
  BY ONLY <1>1, <1>2, BeginsAlone, MaxInFlight = 1, c \in Calls
<1>4. call'[c].step = "sent" /\ call'[c].kind = "prepare"
      /\ call'[c].product = selected /\ call'[c].content = drawn.form
  BY <1>3
<1>5. selected \in Products /\ drawn.form \in Values /\ drawn.form.of = selected
  BY <1>1, <1>3 DEF SerialInv, SerialParts, DrawnIsCurrent, PageIsWhole, Some
<1>6. Sends(c)'
  BY <1>1, <1>4, <1>5 DEF Sends
<1> QED
  BY <1>1, <1>3, <1>4, <1>6, SendStays

LEMMA SerialConfirm ==
  ASSUME SerialInv, MaxInFlight = 1, NEW c \in Calls, Confirm(c)
  PROVE  SerialParts'
<1>1. /\ UNCHANGED <<products, selected, prepared, drawn, draft, queued>>
      /\ Begin(c, "confirm", "sent", 0, selected, Blank)
      /\ selected # None /\ prepared.ad # NoAd
  BY DEF Confirm, page, server
<1>2. CallsAreRecords /\ OneInFlight
  BY DEF SerialInv, SerialParts, PageInv
<1>3. /\ InFlight = {} /\ InFlight' = {c} /\ OneInFlight'
      /\ call'[c] = [kind |-> "confirm", step |-> "sent", id |-> 0,
                     pid |-> previewId', product |-> selected,
                     content |-> Blank, shown |-> drawn.card.content,
                     answer |-> prepared]
  BY ONLY <1>1, <1>2, BeginsAlone, MaxInFlight = 1, c \in Calls
<1>4. call'[c].step = "sent" /\ call'[c].kind = "confirm"
      /\ call'[c].product = selected /\ call'[c].answer = prepared
      /\ call'[c].shown = drawn.card.content
  BY <1>3
<1>5. selected \in Products /\ drawn.card = prepared
  BY <1>1 DEF SerialInv, SerialParts, PageIsWhole, Some, PageInv, NothingMixed,
     CardIsPrepared
<1>6. Sends(c)'
  BY <1>1, <1>4, <1>5 DEF Sends
<1> QED
  BY <1>1, <1>3, <1>4, <1>6, SendStays

\* The call that was sent, and the page that waits for it.
LEMMA WhatWasSent ==
  ASSUME SerialInv, NEW c \in Calls, At(c, "sent")
  PROVE  /\ InFlight = {c} /\ Sends(c) /\ prepared \in Told
         /\ TellsTruth(prepared) /\ OfSelected(prepared)
<1>1. InFlight = {c} /\ call[c].step = "sent"
  BY DEF SerialInv, SerialParts, OneInFlight, At, InFlight
<1> QED
  BY <1>1 DEF SerialInv, SerialParts, CallsFit, CallFits, PreparedIsTrue,
     PageIsWhole

\* Once the server has answered, only its answer and its rows matter.
LEMMA ServedFits ==
  ASSUME SerialInv, NEW c \in Calls, At(c, "sent"), NEW answer,
         call' = [call EXCEPT ![c].step = "served", ![c].answer = answer],
         UNCHANGED <<products, selected, prepared, drawn>>,
         answer \in Told, TellsTruth(answer)', OfSelected(answer),
         DraftsAndQueue'
  PROVE  SerialParts'
<1> DEFINE row == [call[c] EXCEPT !.step = "served", !.answer = answer]
<1>1. call' = [call EXCEPT ![c] = row]
  OBVIOUS
<1>2. row = [f \in Fields |-> row[f]] /\ row.step = "served" /\ row.answer = answer
  BY DEF At, SerialInv, PageInv, CallsAreRecords, Fields
<1> HIDE DEF row
<1>3. InFlight' = {c} /\ OneInFlight' /\ call'[c] = row
  BY <1>1, <1>2, GoesOn DEF SerialInv, SerialParts, PageInv
<1>4. InFlight = {c} /\ call[c].step = "sent"
  BY WhatWasSent DEF At
<1>5. DrawnIsCurrent' /\ PageIsWhole'
  BY <1>4 DEF SerialInv, SerialParts, DrawnIsCurrent, PageIsWhole, At
<1>6. CallsFit'
  BY <1>2, <1>3 DEF CallsFit, CallFits, Brings, OfSelected
<1>7. PreparedIsTrue'
  BY <1>2, <1>3 DEF PreparedIsTrue
<1> QED
  BY <1>3, <1>5, <1>6, <1>7 DEF SerialParts

LEMMA SerialServePrepare ==
  ASSUME SerialInv, NEW c \in Calls, ServePrepare(c)
  PROVE  SerialParts'
<1>0. PICK p, values, g :
        p = selected /\ values = call[c].content /\ g = Generation(p)
  OBVIOUS
<1>1. /\ UNCHANGED <<products, selected, prepared, drawn, queued>>
      /\ At(c, "sent") /\ call[c].kind = "prepare"
  BY DEF ServePrepare, page
<1>2. /\ call[c].product = p /\ p \in Products
      /\ values \in Values /\ values.of = p
  BY <1>0, <1>1, WhatWasSent DEF Sends
<1>3. g \in Nat /\ g = Generation(p) /\ \A r : Generation(r)' = Generation(r)
  BY <1>0, <1>1, GenerationType DEF Generation, SerialInv, SerialParts,
     DraftsAndQueue, QueueNumbered
<1>4. ASSUME draft' = [draft EXCEPT ![p] = values], NEW allowed \in BOOLEAN,
             call' = [call EXCEPT ![c].step = "served", ![c].answer =
               [ad |-> <<p, g>>, content |-> values,
                allowed |-> allowed]]
      PROVE  SerialParts'
  <2> DEFINE answer == [ad |-> <<p, g>>, content |-> values,
                        allowed |-> allowed]
  <2>1. answer \in Told /\ OfSelected(answer)
    BY <1>0, <1>2, <1>3 DEF Told, OfSelected
  <2>2. draft \in [Products -> Values] /\ draft'[p] = values
        /\ draft' \in [Products -> Values]
    BY <1>2, <1>4 DEF SerialInv, SerialParts, DraftsAndQueue
  <2>3. TellsTruth(answer)'
    BY <1>1, <1>2, <1>3, <2>2 DEF TellsTruth
  <2>4. DraftsAndQueue'
    BY <1>1, <1>2, <1>3, <1>4, <2>2 DEF SerialInv, SerialParts, DraftsAndQueue,
       DraftIsOfItsProduct
  <2> QED
    BY <1>1, <1>4, <2>1, <2>3, <2>4, ServedFits
<1>5. ASSUME UNCHANGED draft,
             call' = [call EXCEPT ![c].step = "served", ![c].answer = NoAnswer]
      PROVE  SerialParts'
  <2>1. TellsTruth(NoAnswer)'
    BY DEF NoAnswer, TellsTruth
  <2> QED
    BY <1>1, <1>5, <2>1, NothingTold, TruthStays, ServedFits DEF SerialInv,
       SerialParts
<1> QED
  BY <1>0, <1>2, <1>4, <1>5 DEF ServePrepare

LEMMA ConfirmedAnswer ==
  ASSUME NEW told \in Told, NEW now \in Values, NEW answer,
         answer = [[told EXCEPT !.content = now] EXCEPT !.allowed = FALSE]
  PROVE  answer \in Told /\ answer.ad = told.ad /\ answer.content = now
<1> DEFINE half == [told EXCEPT !.content = now]
<1>1. half \in Told /\ half.ad = told.ad /\ half.content = now
  BY DEF Told
<1>2. answer = [half EXCEPT !.allowed = FALSE]
  OBVIOUS
<1> HIDE DEF half
<1> QED
  BY <1>1, <1>2 DEF Told

LEMMA SerialServeConfirm ==
  ASSUME SerialInv, NEW c \in Calls, ServeConfirm(c)
  PROVE  SerialParts'
<1>1. PICK told : told = call[c].answer
  OBVIOUS
<1>2. PICK p, n : p = told.ad[1] /\ n = told.ad[2]
  OBVIOUS
<1> DEFINE Stored ==
             IF call[c].answer.ad[2] = Generation(call[c].answer.ad[1])
             THEN draft[call[c].answer.ad[1]]
             ELSE (CHOOSE q \in queued : q.ad = call[c].answer.ad).content
<1>3. call' = [call EXCEPT ![c].step = "served", ![c].answer.content = Stored,
                           ![c].answer.allowed = FALSE]
  BY DEF ServeConfirm
<1>4. /\ call[c].answer.ad[2] = Generation(call[c].answer.ad[1]) =>
           Stored = draft[call[c].answer.ad[1]]
      /\ call[c].answer.ad[2] # Generation(call[c].answer.ad[1]) =>
           Stored = (CHOOSE q \in queued : q.ad = call[c].answer.ad).content
  OBVIOUS
<1> HIDE DEF Stored
<1>5. PICK now : now = Stored
  OBVIOUS
<1>6. told = call[c].answer /\ p = told.ad[1] /\ n = told.ad[2]
  BY <1>1, <1>2
<1>7. /\ UNCHANGED <<products, selected, prepared, drawn>>
      /\ At(c, "sent") /\ call[c].kind = "confirm" /\ p = call[c].product
  BY <1>6 DEF ServeConfirm, page, FindDraftForProduct
<1>8. /\ told = prepared /\ told.ad # NoAd /\ told \in Told /\ TellsTruth(told)
      /\ call[c].shown = told.content /\ p = selected /\ p \in Products
  BY <1>6, <1>7, WhatWasSent DEF Sends
<1>9. /\ told.ad = <<p, n>> /\ n \in Nat
      /\ told.content \in Values /\ told.content.of = p
  <2>1. told.ad \in Products \X Nat /\ told.content \in Values
    BY <1>8 DEF Told
  <2> QED
    BY <1>6, <1>8, <2>1 DEF TellsTruth
<1>10. /\ n <= Generation(p) /\ Generation(p) \in Nat
       /\ n = Generation(p) => draft[p] = told.content
       /\ n # Generation(p) => \E q \in queued : q.ad = told.ad
  BY <1>6, <1>8, GenerationType DEF TellsTruth, SerialInv, SerialParts,
     DraftsAndQueue, QueueNumbered
<1>11. now \in Values /\ now.of = p
  <2>1. CASE n = Generation(p)
    BY <1>6, <1>4, <1>5, <1>9, <1>10, <2>1
  <2>2. CASE n # Generation(p)
    <3>1. PICK q \in queued : q.ad = told.ad /\ now = q.content
      BY <1>6, <1>4, <1>5, <1>10, <2>2
    <3> QED
      BY <1>9, <3>1 DEF SerialInv, SerialParts, DraftsAndQueue
  <2> QED
    BY <2>1, <2>2
<1>12. PICK answer :
        answer = [[told EXCEPT !.content = now] EXCEPT !.allowed = FALSE]
  OBVIOUS
<1>13. call' = [call EXCEPT ![c].step = "served", ![c].answer = answer]
  <2>1. call' = [call EXCEPT ![c].step = "served", ![c].answer =
                  [[call[c].answer EXCEPT !.content = now]
                     EXCEPT !.allowed = FALSE]]
    <3>1. call = [d \in Calls |-> call[d]]
          /\ call[c] = [f \in Fields |-> call[c][f]]
      BY <1>7 DEF At, SerialInv, PageInv, CallsAreRecords
    <3>2. call' = [call EXCEPT ![c].step = "served",
                               ![c].answer.content = now,
                               ![c].answer.allowed = FALSE]
      BY <1>3, <1>5
    <3> QED
      BY ONLY <3>1, <3>2, c \in Calls DEF Fields
  <2>2. answer = [[call[c].answer EXCEPT !.content = now]
                    EXCEPT !.allowed = FALSE]
    BY <1>6, <1>12
  <2> QED
    BY ONLY <2>1, <2>2
<1>14. /\ answer \in Told /\ OfSelected(answer)
      /\ answer.ad = <<p, n>> /\ answer.content = now
  <2>1. told \in Told /\ now \in Values
    BY <1>8, <1>11
  <2>2. answer \in Told /\ answer.ad = told.ad /\ answer.content = now
    <3>1. /\ [[told EXCEPT !.content = now] EXCEPT !.allowed = FALSE] \in Told
          /\ [[told EXCEPT !.content = now] EXCEPT !.allowed = FALSE].ad = told.ad
          /\ [[told EXCEPT !.content = now] EXCEPT !.allowed = FALSE].content = now
      BY ONLY <2>1, ConfirmedAnswer
    <3> QED
      BY ONLY <1>12, <3>1
  <2>3. answer.ad[1] = selected
    BY <1>8, <1>9, <2>2
  <2> QED
    BY <1>9, <2>2, <2>3 DEF OfSelected
<1>15. ASSUME n = Generation(p), draft[p] # Blank,
             queued' = queued \cup {[ad |-> <<p, n>>, content |-> draft[p],
                                     shown |-> told.content, by |-> p]},
             draft' = [draft EXCEPT ![p] = Blank]
      PROVE  TellsTruth(answer)' /\ DraftsAndQueue'
  <2>1. PICK new : new = [ad |-> <<p, n>>, content |-> draft[p],
                          shown |-> told.content, by |-> p]
    OBVIOUS
  <2>2. /\ new.ad = <<p, n>> /\ new.content = told.content
        /\ new.shown = told.content /\ queued' = queued \cup {new}
    BY <1>10, <1>15, <2>1
  <2>3. /\ Generation(p)' = n + 1 /\ IsFiniteSet(queued')
        /\ \A r : r # p => Generation(r)' = Generation(r)
    BY <1>15, <2>2, NextGeneration DEF SerialInv, SerialParts,
       DraftsAndQueue, QueueNumbered
  <2>4. TellsTruth(answer)'
    BY <1>9, <1>11, <1>14, <2>2, <2>3 DEF TellsTruth
  <2>5. draft' \in [Products -> Values] /\ DraftIsOfItsProduct'
    BY <1>8, <1>15 DEF SerialInv, SerialParts, DraftsAndQueue,
       DraftIsOfItsProduct, Blank, Values, Some
  <2>6. ASSUME NEW q \in queued'
        PROVE  /\ q.content \in Values /\ q.content = q.shown
               /\ q.content.of = q.ad[1]
               /\ q.ad[2] \in Nat /\ q.ad[2] < Generation(q.ad[1])'
    <3>1. CASE q = new
      BY <1>9, <2>2, <2>3, <3>1
    <3>2. CASE q \in queued
      <4>1. /\ q.content \in Values /\ q.content = q.shown
            /\ q.content.of = q.ad[1]
            /\ q.ad[2] \in Nat /\ q.ad[2] < Generation(q.ad[1])
        BY <3>2 DEF SerialInv, SerialParts, DraftsAndQueue
      <4>2. CASE q.ad[1] = p
        BY <1>9, <1>15, <2>3, <4>1, <4>2
      <4>3. CASE q.ad[1] # p
        BY <2>3, <4>1, <4>3
      <4> QED
        BY <4>1, <4>2, <4>3
    <3> QED
      BY <2>2, <2>6, <3>1, <3>2
  <2> QED
    BY <2>3, <2>4, <2>5, <2>6 DEF DraftsAndQueue
<1>16. ASSUME UNCHANGED server
      PROVE  TellsTruth(answer)' /\ DraftsAndQueue'
  <2>1. UNCHANGED <<draft, queued>> /\ Generation(p)' = Generation(p)
    BY <1>16 DEF server, Generation
  <2>2. n = Generation(p) => draft[p] = now
    BY <1>6, <1>4, <1>5
  <2>3. TellsTruth(answer)'
    BY <1>9, <1>10, <1>11, <1>14, <2>1, <2>2 DEF TellsTruth
  <2> QED
    BY <2>1, <2>3, TruthStays DEF SerialInv, SerialParts
<1>17. TellsTruth(answer)' /\ DraftsAndQueue'
  <2>1. \/ /\ n = Generation(p) /\ draft[p] # Blank
           /\ queued' = queued \cup {[ad |-> told.ad, content |-> draft[p],
                                      shown |-> told.content, by |-> p]}
           /\ draft' = [draft EXCEPT ![p] = Blank]
        \/ UNCHANGED server
    BY <1>6, <1>7, <1>8 DEF ServeConfirm
  <2> QED
    BY <1>9, <1>15, <1>16, <2>1
<1> QED
  BY <1>7, <1>13, <1>14, <1>17, ServedFits

LEMMA SerialAnswer ==
  ASSUME SerialInv, NEW c \in Calls, Answer(c)
  PROVE  SerialParts'
<1>1. /\ UNCHANGED <<products, selected, draft, queued>> /\ At(c, "served")
      /\ End(c) /\ Draw
  BY DEF Answer, server
<1>2. PICK answer : answer = call[c].answer
  OBVIOUS
<1>3. prepared' = answer
  BY <1>2 DEF Answer, Answered
<1>4. answer \in Told /\ TellsTruth(answer) /\ OfSelected(answer)
  BY <1>1, <1>2 DEF At, InFlight, SerialInv, SerialParts, CallsFit, CallFits,
     Brings
<1>5. InFlight' = {} /\ OneInFlight'
  BY <1>1, EndsAlone DEF SerialInv, SerialParts, PageInv
<1>6. answer.ad # NoAd => answer.content.of = selected
  BY <1>4 DEF TellsTruth, OfSelected
<1>7. DrawnIsCurrent' /\ PageIsWhole'
  BY <1>1, <1>3, <1>4, <1>6, DrawIsCurrent DEF SerialInv, SerialParts,
     PageIsWhole
<1>8. CallsFit'
  BY <1>5 DEF CallsFit
<1>9. PreparedIsTrue' /\ DraftsAndQueue'
  BY <1>1, <1>3, <1>4, TruthStays DEF PreparedIsTrue, OfSelected, SerialInv,
     SerialParts
<1> QED
  BY <1>5, <1>7, <1>8, <1>9 DEF SerialParts

LEMMA SerialStep ==
  ASSUME CatalogPageAssumption, MaxInFlight = 1, SerialInv, Next
  PROVE  SerialParts'
<1>1. CASE EditForm
  BY <1>1, SerialEditForm
<1>2. ASSUME NEW c \in Calls,
             \/ RunSearch(c) \/ ListAnswer(c) \/ ListFails(c)
             \/ \E k \in 1 .. Len(drawn.list) : Select(c, k)
             \/ PreviewAnswer(c)
             \/ Prepare(c) \/ ServePrepare(c) \/ Confirm(c) \/ ServeConfirm(c)
             \/ Refused(c) \/ Answer(c)
      PROVE  SerialParts'
  BY <1>2, SerialRunSearch, SerialListAnswer, SerialEnds, SerialSelect,
     SerialPreviewAnswer, SerialPrepare, SerialServePrepare, SerialConfirm,
     SerialServeConfirm, SerialAnswer
<1> QED
  BY <1>1, <1>2 DEF Next

LEMMA SerialIdle ==
  ASSUME SerialInv, UNCHANGED vars
  PROVE  SerialParts'
<1>1. UNCHANGED <<products, selected, prepared, searchId, drawn, call, draft,
                  queued>>
  BY DEF vars, page, ids, server
<1>2. InFlight' = InFlight
  BY <1>1 DEF InFlight
<1>3. OneInFlight' /\ DrawnIsCurrent' /\ PageIsWhole'
  BY <1>1, <1>2 DEF SerialInv, SerialParts, OneInFlight, DrawnIsCurrent,
     PageIsWhole, At
<1>4. CallsFit'
  <2>1. ASSUME NEW d \in InFlight PROVE CallFits(d)'
    <3>1. CallFits(d) /\ (TellsTruth(call[d].answer) => TellsTruth(call[d].answer)')
      BY <1>1, TruthStays DEF SerialInv, SerialParts, CallsFit
    <3> QED
      BY <1>1, <3>1 DEF CallFits, Awaits, Sends, Brings, OfSelected
  <2> QED
    BY <1>2, <2>1 DEF CallsFit
<1>5. PreparedIsTrue' /\ DraftsAndQueue'
  BY <1>1, <1>2, TruthStays DEF SerialInv, SerialParts, OfSelected,
     PreparedIsTrue
<1> QED
  BY <1>3, <1>4, <1>5 DEF SerialParts

\* The invariant of the setting, and what it says of a settled page.
AloneInv == setting = "serial" => SerialInv

LEMMA SerialAgrees == SerialInv => PageAndServerAgree
<1> SUFFICES ASSUME SerialInv PROVE PageAndServerAgree
  OBVIOUS
<1>1. SettledPageIsCurrent
  BY DEF SerialInv, SerialParts, DrawnIsCurrent, SettledPageIsCurrent
<1>2. DraftIsOfItsProduct /\ QueuedAsShown
  BY DEF SerialInv, SerialParts, DraftsAndQueue, QueuedAsShown
<1> QED
  BY <1>1, <1>2 DEF PageAndServerAgree

LEMMA AloneStep ==
  CatalogPageAssumption /\ MaxInFlight = 1 /\ AloneInv
  /\ [ClientNext]_ClientVars => AloneInv'
<1> SUFFICES ASSUME CatalogPageAssumption, MaxInFlight = 1, AloneInv,
                    [ClientNext]_ClientVars, setting' = "serial"
             PROVE  SerialInv'
  BY DEF AloneInv
<1>1. setting = "serial" /\ [Next]_vars
  BY DEF ClientNext, ClientVars
<1>2. SerialInv
  BY <1>1 DEF AloneInv
<1>3. PageInv'
  BY <1>1, <1>2, NextKeeps DEF SerialInv
<1>4. SerialParts'
  BY <1>1, <1>2, SerialStep, SerialIdle
<1> QED
  BY <1>3, <1>4 DEF SerialInv

\* While no two calls of the page are in flight, the settled page shows the
\* list and the selection its handlers work on, a draft has the values of its
\* own product, and what a confirmation queues is what the card showed
\* (renderCatalog and fillForm), for every set of products and searches.
THEOREM PageAndServerAgreeSerially ==
  ASSUME MaxInFlight = 1
  PROVE  ClientSpec => []PageAndServerAgreeAlone
<1>0. CatalogPageAssumption
  BY Parameters
<1>1. ClientInit => AloneInv
  BY <1>0, SerialInit DEF ClientInit, AloneInv
<1>2. AloneInv /\ [ClientNext]_ClientVars => AloneInv'
  BY <1>0, AloneStep
<1>3. AloneInv => PageAndServerAgreeAlone
  BY SerialAgrees DEF AloneInv, PageAndServerAgreeAlone
<1> QED
  BY <1>1, <1>2, <1>3, PTL DEF ClientSpec

-----------------------------------------------------------------------------
(***************************************************************************)
(* The views of the page.                                                  *)
(***************************************************************************)
SlotRow ==
  [kind : {"idle", "render", "refresh", "timer", "claim", "open", "result",
           "enqueue"},
   pc : {"idle", "me", "data", "ready", "catalog", "sent"},
   due : Client!Some]

\* A render waits for the user or for data, never for the answer of a request.
RendersLoad ==
  \A s \in Slots : slot[s].kind = "render" =>
    slot[s].pc \in {"me", "data", "ready", "catalog"}

\* A page that shows a view which is not active any more is drawn again.
OtherView == content.kind = "view" /\ content.view \notin {activeView, "catalog"}
RenderIsDue ==
  OtherView /\ ~meFailed => \E s \in Slots : slot[s].kind = "render"

ViewInv == Client!TypeOK /\ RendersLoad /\ RenderIsDue

LEMMA ViewTypes ==
  ASSUME Client!TypeOK
  PROVE  /\ slot \in [Slots -> SlotRow] /\ meFailed \in BOOLEAN
         /\ content.attempt \in Client!Some
BY DEF Client!TypeOK, SlotRow

\* A slot takes another row and the others keep theirs.
SlotTakes(s, row) == slot' = [slot EXCEPT ![s] = row]

LEMMA TakesRow ==
  ASSUME ViewInv, NEW s \in Slots, NEW row \in SlotRow, SlotTakes(s, row),
         row.kind = "render" => row.pc \in {"me", "data", "ready", "catalog"}
  PROVE  /\ RendersLoad'
         /\ slot'[s] = row /\ \A t \in Slots \ {s} : slot'[t] = slot[t]
BY ViewTypes DEF ViewInv, SlotTakes, RendersLoad

\* A step that leaves the views alone, or draws the page as it should be, or
\* begins a render.
LEMMA TakesAndDraws ==
  ASSUME ViewInv, NEW s \in Slots, NEW row \in SlotRow, SlotTakes(s, row),
         row.kind = "render" => row.pc \in {"me", "data", "ready", "catalog"},
         \/ ~OtherView'
         \/ meFailed'
         \/ row.kind = "render"
         \/ /\ (OtherView' => OtherView) /\ (meFailed => meFailed')
            /\ slot[s].kind # "render"
  PROVE  RendersLoad' /\ RenderIsDue'
<1>1. /\ RendersLoad'
      /\ slot'[s] = row /\ \A t \in Slots \ {s} : slot'[t] = slot[t]
  BY TakesRow
<1>2. RenderIsDue'
  <2> SUFFICES ASSUME OtherView', ~meFailed'
               PROVE  \E t \in Slots : slot'[t].kind = "render"
    BY DEF RenderIsDue
  <2>1. CASE row.kind = "render"
    BY <1>1, <2>1
  <2>2. CASE OtherView /\ ~meFailed /\ slot[s].kind # "render"
    <3>1. PICK t \in Slots : slot[t].kind = "render"
      BY <2>2 DEF ViewInv, RenderIsDue
    <3> QED
      BY <1>1, <2>2, <3>1
  <2> QED
    BY <2>1, <2>2
<1> QED
  BY <1>1, <1>2

LEMMA BeginsRow ==
  ASSUME ViewInv, NEW s \in Slots, NEW kind, NEW pc, NEW due \in Client!Some,
         Client!Begin(s, kind, pc, due),
         <<kind, pc>> \in {<<"render", "me">>, <<"render", "data">>,
                           <<"timer", "data">>, <<"refresh", "data">>,
                           <<"claim", "sent">>, <<"open", "sent">>,
                           <<"result", "sent">>, <<"enqueue", "sent">>}
  PROVE  \E row \in SlotRow :
           /\ SlotTakes(s, row)
           /\ row.kind = kind
           /\ row.kind = "render" =>
                row.pc \in {"me", "data", "ready", "catalog"}
           /\ slot[s].kind # "render"
<1> DEFINE row == [kind |-> kind, pc |-> pc, due |-> due]
<1>1. row \in SlotRow /\ row.kind = kind /\ row.pc = pc
  BY DEF SlotRow
<1>2. SlotTakes(s, row) /\ slot[s].kind # "render"
  BY DEF Client!Begin, Client!Idle, SlotTakes
<1>3. row.kind = "render" => row.pc \in {"me", "data", "ready", "catalog"}
  BY <1>1
<1> QED
  BY <1>1, <1>2, <1>3

LEMMA NothingIsAnAttempt == Client!NoAttempt \in Client!Some
BY DEF Client!Some

\* The page is cleared, or shows no view.
LEMMA NoOtherView ==
  ASSUME content'.kind # "view" PROVE ~OtherView'
BY DEF OtherView

LEMMA ViewUserActs ==
  ASSUME ViewInv, NEW s \in Slots,
         \/ \E v \in Client!Views : Client!Navigate(s, v)
         \/ Client!Refresh(s) \/ Client!claimDueAttempt(s)
         \/ Client!recordPublishResult(s)
         \/ \E a \in Attempts : \/ Client!openSubmission(s, a)
                                \/ Client!enqueuePublish(s, a)
  PROVE  RendersLoad' /\ RenderIsDue'
<1>0. content.attempt \in Client!Some
  BY ViewTypes DEF ViewInv
<1>1. ASSUME NEW v \in Client!Views, Client!Navigate(s, v) PROVE RendersLoad' /\ RenderIsDue'
  <2>1. Client!Begin(s, "render", "me", Client!NoAttempt)
        /\ meFailed' = meFailed
    BY <1>1 DEF Client!Navigate
  <2> QED
    BY <2>1, BeginsRow, NothingIsAnAttempt, TakesAndDraws
<1>2. CASE Client!Refresh(s)
  <2>1. Client!Begin(s, "render", "data", Client!NoAttempt)
        /\ meFailed' = meFailed
    BY <1>2 DEF Client!Refresh
  <2> QED
    BY <2>1, BeginsRow, NothingIsAnAttempt, TakesAndDraws
<1>3. CASE Client!claimDueAttempt(s)
  <2>1. Client!Begin(s, "claim", "sent", Client!NoAttempt)
        /\ meFailed' = meFailed /\ content'.kind = "claiming"
    BY <1>3 DEF Client!claimDueAttempt, Client!Show, Client!Loading
  <2> QED
    BY <2>1, BeginsRow, NothingIsAnAttempt, TakesAndDraws, NoOtherView
<1>4. CASE Client!recordPublishResult(s)
  <2>1. Client!Begin(s, "result", "sent", content.attempt)
        /\ UNCHANGED <<meFailed, content, activeView>>
        /\ content.kind = "handoff"
    BY <1>4 DEF Client!recordPublishResult
  <2> QED
    BY <1>0, <2>1, BeginsRow, TakesAndDraws, NoOtherView
<1>5. ASSUME NEW a \in Attempts,
             Client!openSubmission(s, a) \/ Client!enqueuePublish(s, a)
      PROVE  RendersLoad' /\ RenderIsDue'
  <2>1. PICK kind \in {"open", "enqueue"} : Client!Begin(s, kind, "sent", a)
    BY <1>5 DEF Client!openSubmission, Client!enqueuePublish
  <2>2. meFailed' = meFailed /\ content'.kind = "loading"
    BY <1>5 DEF Client!openSubmission, Client!enqueuePublish, Client!Loading
  <2>3. a \in Client!Some
    BY DEF Client!Some
  <2> QED
    BY <2>1, <2>2, <2>3, BeginsRow, TakesAndDraws, NoOtherView
<1> QED
  BY <1>1, <1>2, <1>3, <1>4, <1>5

LEMMA LeavesRow ==
  ASSUME NEW s \in Slots, Client!Leave(s)
  PROVE  \E row \in SlotRow :
           SlotTakes(s, row) /\ row.kind \in {"idle", "refresh"}
<1> DEFINE next == [kind |-> "refresh", pc |-> "data", due |-> Client!NoAttempt]
<1>1. Client!Idle \in SlotRow /\ Client!Idle.kind = "idle"
  BY NothingIsAnAttempt DEF SlotRow, Client!Idle
<1>2. next \in SlotRow /\ next.kind = "refresh"
  BY NothingIsAnAttempt DEF SlotRow
<1>3. SlotTakes(s, Client!Idle) \/ SlotTakes(s, next)
  BY DEF Client!Leave, Client!EndRefresh, SlotTakes
<1> QED
  BY <1>1, <1>2, <1>3

Shown ==
  [kind : {"loading", "view", "claiming", "handoff", "nothingDue", "queued",
           "error"},
   view : Client!Views, attempt : Client!Some, prompt : Client!Some]

LEMMA PromptShows ==
  ASSUME NEW shown \in Shown, NEW due, Client!WithPrompt(shown, due)
  PROVE  content'.kind = shown.kind /\ content'.view = shown.view
BY DEF Client!WithPrompt, Shown

LEMMA DrawnShows ==
  ASSUME NEW view \in Client!Views
  PROVE  LET shown == [Client!Loading EXCEPT !.kind = "view", !.view = view]
         IN shown \in Shown /\ shown.kind = "view" /\ shown.view = view
BY NothingIsAnAttempt DEF Client!Loading, Shown, Client!Views

LEMMA ViewPageActs ==
  ASSUME ViewInv, NEW s \in Slots,
         \/ Client!Me(s) \/ Client!Load(s) \/ Client!Draw(s)
         \/ Client!DrawCatalog(s)
  PROVE  RendersLoad' /\ RenderIsDue'
<1>0. /\ slot \in [Slots -> SlotRow] /\ meFailed \in BOOLEAN
      /\ content \in Shown /\ activeView \in Client!Views
  BY DEF ViewInv, Client!TypeOK, SlotRow, Shown
<1>1. Client!Idle \in SlotRow /\ Client!Idle.kind = "idle"
  BY NothingIsAnAttempt DEF SlotRow, Client!Idle
<1>2. Client!Loading.kind = "loading"
  BY DEF Client!Loading
<1>3. CASE Client!Me(s)
  <2>1. CASE meFailed' = TRUE /\ slot' = [slot EXCEPT ![s] = Client!Idle]
    BY <1>1, <2>1, TakesAndDraws DEF SlotTakes
  <2>2. CASE /\ content' = Client!Loading /\ meFailed' = meFailed
             /\ slot' = [slot EXCEPT ![s].pc = "data"]
    <3> DEFINE row == [slot[s] EXCEPT !.pc = "data"]
    <3>1. row \in SlotRow /\ row.pc = "data"
      BY <1>0 DEF SlotRow
    <3>2. SlotTakes(s, row)
      BY <2>2 DEF SlotTakes
    <3>3. ~OtherView'
      BY <1>2, <2>2, NoOtherView
    <3> HIDE DEF row
    <3> QED
      BY <2>2, <3>1, <3>2, <3>3, TakesAndDraws
  <2> QED
    BY <1>3, <2>1, <2>2 DEF Client!Me
<1>4. CASE Client!Load(s)
  <2>1. PICK due \in Client!Some :
          slot' = [slot EXCEPT ![s].pc = "ready", ![s].due = due]
    BY <1>4 DEF Client!Load
  <2> DEFINE row == [slot[s] EXCEPT !.pc = "ready", !.due = due]
  <2>2. row \in SlotRow /\ row.pc = "ready" /\ row.kind = slot[s].kind
    BY <1>0 DEF SlotRow
  <2>3. SlotTakes(s, row)
    BY <1>0, <2>1 DEF SlotTakes, SlotRow
  <2>4. meFailed' = meFailed /\ OtherView' = OtherView
    BY <1>4 DEF Client!Load, OtherView
  <2> HIDE DEF row
  <2> QED
    BY <2>2, <2>3, <2>4, TakesAndDraws
<1>5. ASSUME NEW view \in {activeView, "catalog"}, NEW due,
             Client!WithPrompt([Client!Loading EXCEPT !.kind = "view",
                                                      !.view = view], due),
             Client!Leave(s), activeView' = activeView
      PROVE  RendersLoad' /\ RenderIsDue'
  <2>1. view \in Client!Views
    BY <1>0 DEF Client!Views
  <2>2. content'.view = view
    BY <1>5, <2>1, DrawnShows, PromptShows
  <2>3. ~OtherView'
    BY <1>5, <2>2 DEF OtherView
  <2>4. PICK row \in SlotRow : SlotTakes(s, row) /\ row.kind \in {"idle", "refresh"}
    BY <1>5, LeavesRow
  <2> QED
    BY <1>5, <2>3, <2>4, TakesAndDraws
<1>6. CASE Client!Draw(s)
  <2>1. activeView' = activeView
    BY <1>6 DEF Client!Draw
  <2>2. CASE /\ slot[s].kind = "timer" /\ meFailed' = meFailed
             /\ Client!WithPrompt(content, slot[s].due) /\ Client!Leave(s)
    <3>1. content'.kind = content.kind /\ content'.view = content.view
      BY <1>0, <2>2, PromptShows
    <3>2. OtherView' => OtherView
      BY <2>1, <3>1 DEF OtherView
    <3>3. PICK row \in SlotRow :
            SlotTakes(s, row) /\ row.kind \in {"idle", "refresh"}
      BY <2>2, LeavesRow
    <3> QED
      BY <2>1, <2>2, <3>2, <3>3, TakesAndDraws
  <2>3. CASE /\ content' = Client!Loading
             /\ slot' = [slot EXCEPT ![s].pc = "catalog"]
    <3> DEFINE row == [slot[s] EXCEPT !.pc = "catalog"]
    <3>1. row \in SlotRow /\ row.pc = "catalog"
      BY <1>0 DEF SlotRow
    <3>2. SlotTakes(s, row)
      BY <2>3 DEF SlotTakes
    <3>3. ~OtherView'
      BY <1>2, <2>3, NoOtherView
    <3> HIDE DEF row
    <3> QED
      BY <2>1, <3>1, <3>2, <3>3, TakesAndDraws
  <2>4. CASE Client!WithPrompt(Client!Drawn(s), slot[s].due) /\ Client!Leave(s)
    BY <1>5, <2>1, <2>4 DEF Client!Drawn
  <2> QED
    BY <1>6, <2>2, <2>3, <2>4 DEF Client!Draw
<1>7. CASE Client!DrawCatalog(s)
  BY <1>5, <1>7 DEF Client!DrawCatalog
<1> QED
  BY <1>3, <1>4, <1>6, <1>7

LEMMA SlotsStay ==
  ASSUME ViewInv, slot' = slot, meFailed' = meFailed, OtherView' => OtherView
  PROVE  RendersLoad' /\ RenderIsDue'
BY DEF ViewInv, RendersLoad, RenderIsDue

LEMMA ViewTimers ==
  ASSUME ViewInv, NEW s \in Slots,
         Client!PublishTick(s) \/ Client!RefreshTick(s) \/ Client!Return(s)
  PROVE  RendersLoad' /\ RenderIsDue'
<1>1. UNCHANGED <<meFailed, content, activeView>>
  BY DEF Client!PublishTick, Client!RefreshTick, Client!Return
<1>2. OtherView' = OtherView
  BY <1>1 DEF OtherView
<1>3. \/ slot' = slot
      \/ \E kind \in {"timer", "refresh"} :
           Client!Begin(s, kind, "data", Client!NoAttempt)
  BY DEF Client!PublishTick, Client!RefreshTick, Client!Return,
         Client!RefreshOrders
<1>4. CASE slot' = slot
  BY <1>1, <1>2, <1>4, SlotsStay
<1>5. ASSUME NEW kind \in {"timer", "refresh"},
             Client!Begin(s, kind, "data", Client!NoAttempt)
      PROVE  RendersLoad' /\ RenderIsDue'
  <2>1. PICK row \in SlotRow :
          SlotTakes(s, row) /\ row.kind = kind /\ slot[s].kind # "render"
    BY <1>5, BeginsRow, NothingIsAnAttempt
  <2> QED
    BY <1>1, <1>2, <2>1, TakesAndDraws
<1> QED
  BY <1>3, <1>4, <1>5

LEMMA ViewAnswer ==
  ASSUME ViewInv, NEW s \in Slots, Client!Answer(s)
  PROVE  RendersLoad' /\ RenderIsDue'
<1> DEFINE next == [kind |-> "render", pc |-> "data", due |-> Client!NoAttempt]
<1>1. Client!Idle \in SlotRow /\ Client!Idle.kind = "idle"
  BY NothingIsAnAttempt DEF SlotRow, Client!Idle
<1>2. next \in SlotRow /\ next.pc = "data"
  BY NothingIsAnAttempt DEF SlotRow
<1>3. SlotTakes(s, Client!Idle) \/ SlotTakes(s, next)
  BY DEF Client!Answer, SlotTakes
<1>4. content'.kind # "view" /\ meFailed' = meFailed
  <2>1. ASSUME NEW kind \in {"queued", "handoff", "nothingDue", "error"}, NEW a
        PROVE  Client!Show(kind, a).kind # "view"
    BY DEF Client!Show, Client!Loading
  <2>2. Client!Loading.kind # "view"
    BY DEF Client!Loading
  <2>3. \/ content' = Client!Loading
        \/ \E kind \in {"queued", "handoff", "nothingDue", "error"} :
             \E a : content' = Client!Show(kind, a)
    BY DEF Client!Answer
  <2> QED
    BY <2>1, <2>2, <2>3 DEF Client!Answer
<1>5. ~OtherView'
  BY <1>4, NoOtherView
<1> HIDE DEF next
<1> QED
  BY <1>1, <1>2, <1>3, <1>4, <1>5, TakesAndDraws

-----------------------------------------------------------------------------
\* The types of the page.
PageTyped ==
  /\ activeView \in Client!Views /\ content \in Shown
  /\ slot \in [Slots -> SlotRow]
  /\ publishWorkerBusy \in BOOLEAN /\ orderRefreshBusy \in BOOLEAN
  /\ orderRefreshQueued \in BOOLEAN
  /\ hidden \in BOOLEAN /\ meFailed \in BOOLEAN
  /\ prompted \subseteq Attempts
  /\ attempt \in [Attempts -> {"none", "queued", "submitting", "done"}]
  /\ by \in {"user", "page", "server"}
  /\ starts \in 0 .. MaxStarts /\ faults \in 0 .. MaxPageFaults

LEMMA PageTypes ==
  (Client!TypeOK <=> PageTyped) /\ (Client!TypeOK' <=> PageTyped')
BY DEF Client!TypeOK, Shown, SlotRow, Client!flags, PageTyped

LEMMA RowTyped ==
  ASSUME ViewInv, NEW s \in Slots, NEW row \in SlotRow, SlotTakes(s, row)
  PROVE  slot' \in [Slots -> SlotRow]
BY ViewTypes DEF ViewInv, SlotTakes

LEMMA BeginTyped ==
  ASSUME Client!ClientPageAssumption, ViewInv, NEW s \in Slots, NEW kind, NEW pc,
         NEW due \in Client!Some, Client!Begin(s, kind, pc, due),
         <<kind, pc>> \in {<<"render", "me">>, <<"render", "data">>,
                           <<"timer", "data">>, <<"refresh", "data">>,
                           <<"claim", "sent">>, <<"open", "sent">>,
                           <<"result", "sent">>, <<"enqueue", "sent">>}
  PROVE  slot' \in [Slots -> SlotRow] /\ starts' \in 0 .. MaxStarts
<1>1. slot' \in [Slots -> SlotRow]
  BY BeginsRow, RowTyped
<1>2. starts' \in 0 .. MaxStarts
  BY PageTypes DEF PageTyped, ViewInv, Client!Begin, Client!ClientPageAssumption
<1> QED
  BY <1>1, <1>2

LEMMA ShowTyped ==
  /\ Client!Loading \in Shown
  /\ \A kind \in {"claiming", "handoff", "nothingDue", "queued", "error"},
       a \in Client!Some : Client!Show(kind, a) \in Shown
BY NothingIsAnAttempt DEF Client!Loading, Client!Show, Shown, Client!Views

LEMMA FaultTyped ==
  ASSUME Client!ClientPageAssumption, ViewInv, NEW fails, Client!Fault(fails)
  PROVE  faults' \in 0 .. MaxPageFaults
BY PageTypes DEF PageTyped, ViewInv, Client!Fault, Client!ClientPageAssumption

LEMMA UserActsTyped ==
  ASSUME Client!ClientPageAssumption, ViewInv, NEW s \in Slots,
         \/ \E v \in Client!Views : Client!Navigate(s, v)
         \/ Client!Refresh(s) \/ Client!claimDueAttempt(s)
         \/ Client!recordPublishResult(s)
         \/ \E a \in Attempts : \/ Client!openSubmission(s, a)
                                \/ Client!enqueuePublish(s, a)
  PROVE  Client!TypeOK'
<1> USE DEF Client!flags
<1>0. Client!TypeOK /\ content.attempt \in Client!Some
      /\ \A a \in Attempts : a \in Client!Some
  BY ViewTypes DEF ViewInv, Client!Some
<1>1. slot' \in [Slots -> SlotRow] /\ starts' \in 0 .. MaxStarts
  <2>1. \E due \in Client!Some :
          \/ Client!Begin(s, "render", "me", due)
          \/ Client!Begin(s, "render", "data", due)
          \/ Client!Begin(s, "claim", "sent", due)
          \/ Client!Begin(s, "result", "sent", due)
          \/ Client!Begin(s, "open", "sent", due)
          \/ Client!Begin(s, "enqueue", "sent", due)
    BY <1>0, NothingIsAnAttempt DEF Client!Navigate, Client!Refresh,
       Client!claimDueAttempt, Client!recordPublishResult,
       Client!openSubmission, Client!enqueuePublish
  <2> QED
    BY <2>1, BeginTyped
<1>2. /\ UNCHANGED <<prompted, hidden, meFailed, attempt, faults,
                     orderRefreshBusy, orderRefreshQueued>>
      /\ by' = "user"
  BY DEF Client!Navigate, Client!Refresh,
     Client!claimDueAttempt, Client!recordPublishResult, Client!openSubmission,
     Client!enqueuePublish
<1>3. /\ activeView' \in Client!Views \cup {activeView}
      /\ publishWorkerBusy' \in {TRUE, publishWorkerBusy}
      /\ \/ content' = content \/ content' = Client!Loading
         \/ content' = Client!Show("claiming", Client!NoAttempt)
  <2>1. CASE \E v \in Client!Views : Client!Navigate(s, v)
    BY <2>1 DEF Client!Navigate
  <2>2. CASE Client!Refresh(s)
    BY <2>2 DEF Client!Refresh
  <2>3. CASE Client!claimDueAttempt(s)
    BY <2>3 DEF Client!claimDueAttempt
  <2>4. CASE Client!recordPublishResult(s)
    BY <2>4 DEF Client!recordPublishResult
  <2>5. CASE \E a \in Attempts :
               Client!openSubmission(s, a) \/ Client!enqueuePublish(s, a)
    BY <2>5 DEF Client!openSubmission, Client!enqueuePublish
  <2> QED
    BY <2>1, <2>2, <2>3, <2>4, <2>5
<1>4. content' \in Shown
  BY <1>0, <1>3, ShowTyped, PageTypes, NothingIsAnAttempt DEF PageTyped
<1> QED
  BY <1>0, <1>1, <1>2, <1>3, <1>4, PageTypes DEF PageTyped
LEMMA TimersTyped ==
  ASSUME Client!ClientPageAssumption, ViewInv, NEW s \in Slots,
         Client!PublishTick(s) \/ Client!RefreshTick(s) \/ Client!Return(s)
  PROVE  PageTyped'
<1> USE DEF Client!flags
<1>0. PageTyped
  BY PageTypes DEF ViewInv
<1>1. slot' \in [Slots -> SlotRow] /\ starts' \in 0 .. MaxStarts
  <2>1. \/ slot' = slot /\ starts' = starts
        \/ Client!Begin(s, "timer", "data", Client!NoAttempt)
        \/ Client!Begin(s, "refresh", "data", Client!NoAttempt)
    BY DEF Client!PublishTick, Client!RefreshTick, Client!Return,
           Client!RefreshOrders
  <2> QED
    BY <1>0, <2>1, BeginTyped, NothingIsAnAttempt DEF PageTyped
<1>2. /\ UNCHANGED <<activeView, content, publishWorkerBusy, prompted, meFailed,
                     attempt, faults>>
      /\ by' \in {"user", "page"} /\ hidden' \in {FALSE, hidden}
      /\ orderRefreshBusy' \in {TRUE, orderRefreshBusy}
      /\ orderRefreshQueued' \in {TRUE, orderRefreshQueued}
  <2>1. CASE Client!PublishTick(s)
    BY <2>1 DEF Client!PublishTick
  <2>2. CASE Client!RefreshTick(s)
    BY <2>2 DEF Client!RefreshTick, Client!RefreshOrders
  <2>3. CASE Client!Return(s)
    BY <2>3 DEF Client!Return, Client!RefreshOrders
  <2> QED
    BY <2>1, <2>2, <2>3
<1> QED
  BY <1>0, <1>1, <1>2 DEF PageTyped

LEMMA PromptTyped ==
  ASSUME ViewInv, NEW shown \in Shown, NEW due \in Client!Some,
         Client!WithPrompt(shown, due)
  PROVE  content' \in Shown /\ prompted' \subseteq Attempts
<1>1. PageTyped
  BY PageTypes DEF ViewInv
<1>2. due # Client!NoAttempt => due \in Attempts
  BY DEF Client!Some
<1>3. [shown EXCEPT !.prompt = due] \in Shown
  BY DEF Shown
<1> QED
  BY <1>1, <1>2, <1>3 DEF Client!WithPrompt, Client!Prompts, PageTyped

LEMMA LeaveTyped ==
  ASSUME Client!ClientPageAssumption, ViewInv, NEW s \in Slots, Client!Leave(s)
  PROVE  /\ slot' \in [Slots -> SlotRow] /\ starts' \in 0 .. MaxStarts
         /\ orderRefreshBusy' \in BOOLEAN /\ orderRefreshQueued' \in BOOLEAN
<1>1. PageTyped
  BY PageTypes DEF ViewInv
<1>2. slot' \in [Slots -> SlotRow]
  BY LeavesRow, RowTyped
<1>3. starts' \in 0 .. MaxStarts
  <2>1. CASE starts' = starts
    BY <1>1, <2>1 DEF PageTyped
  <2>2. CASE starts < MaxStarts /\ starts' = starts + 1
    BY <1>1, <2>2 DEF PageTyped, Client!ClientPageAssumption
  <2> QED
    BY <2>1, <2>2 DEF Client!Leave, Client!EndRefresh
<1>4. orderRefreshBusy' \in {FALSE, orderRefreshBusy}
      /\ orderRefreshQueued' \in {FALSE, orderRefreshQueued}
  BY DEF Client!Leave, Client!EndRefresh
<1> QED
  BY <1>1, <1>2, <1>3, <1>4 DEF PageTyped

LEMMA PageActsTyped ==
  ASSUME Client!ClientPageAssumption, ViewInv, NEW s \in Slots,
         \/ Client!Me(s) \/ Client!Load(s) \/ Client!Draw(s)
         \/ Client!DrawCatalog(s)
  PROVE  PageTyped'
<1> USE DEF Client!flags
<1>0. /\ PageTyped
      /\ slot[s] \in SlotRow /\ slot[s].due \in Client!Some
  BY PageTypes DEF ViewInv, PageTyped, SlotRow
<1>1. Client!Idle \in SlotRow
      /\ \A pc \in {"data", "catalog"} : [slot[s] EXCEPT !.pc = pc] \in SlotRow
      /\ \A due \in Client!Some :
           [slot[s] EXCEPT !.pc = "ready", !.due = due] \in SlotRow
  BY <1>0, NothingIsAnAttempt DEF SlotRow, Client!Idle
<1>2. CASE Client!Me(s)
  <2>1. /\ UNCHANGED <<activeView, publishWorkerBusy, orderRefreshBusy,
                       orderRefreshQueued, prompted, hidden, attempt, starts>>
        /\ by' = "page"
        /\ meFailed' \in {TRUE, meFailed}
        /\ content' = content \/ content' = Client!Loading
    BY <1>2 DEF Client!Me
  <2>2. faults' \in 0 .. MaxPageFaults
    BY <1>2, FaultTyped DEF Client!Me
  <2>3. SlotTakes(s, Client!Idle) \/ SlotTakes(s, [slot[s] EXCEPT !.pc = "data"])
    BY <1>2 DEF Client!Me, SlotTakes
  <2>4. slot' \in [Slots -> SlotRow]
    BY <1>1, <2>3, RowTyped
  <2> QED
    BY <1>0, <2>1, <2>2, <2>4, ShowTyped DEF PageTyped
<1>3. CASE Client!Load(s)
  <2>1. /\ UNCHANGED <<activeView, publishWorkerBusy, orderRefreshBusy, content,
                       orderRefreshQueued, prompted, hidden, attempt, starts,
                       meFailed>>
        /\ by' = "server"
    BY <1>3 DEF Client!Load
  <2>2. faults' \in 0 .. MaxPageFaults
    BY <1>3, FaultTyped DEF Client!Load
  <2>3. PICK due \in Client!Some :
          slot' = [slot EXCEPT ![s].pc = "ready", ![s].due = due]
    BY <1>3 DEF Client!Load
  <2>4. SlotTakes(s, [slot[s] EXCEPT !.pc = "ready", !.due = due])
    BY <1>0, <2>3 DEF SlotTakes, SlotRow, PageTyped
  <2>5. slot' \in [Slots -> SlotRow]
    BY <1>1, <2>4, RowTyped
  <2> QED
    BY <1>0, <2>1, <2>2, <2>5 DEF PageTyped
<1>4. ASSUME NEW shown \in Shown,
             Client!WithPrompt(shown, slot[s].due), Client!Leave(s),
             by' = "page", meFailed' \in {FALSE, meFailed},
             UNCHANGED <<activeView, publishWorkerBusy, hidden, attempt, faults>>
      PROVE  PageTyped'
  BY <1>0, <1>4, PromptTyped, LeaveTyped DEF PageTyped
<1>5. CASE Client!Draw(s)
  <2>1. /\ UNCHANGED <<activeView, publishWorkerBusy, hidden, attempt, faults>>
        /\ by' = "page" /\ meFailed' \in {FALSE, meFailed}
    BY <1>5 DEF Client!Draw
  <2>2. CASE Client!WithPrompt(content, slot[s].due) /\ Client!Leave(s)
    BY <1>0, <1>4, <2>1, <2>2 DEF PageTyped
  <2>3. CASE /\ content' = Client!Loading
             /\ slot' = [slot EXCEPT ![s].pc = "catalog"]
             /\ UNCHANGED <<prompted, orderRefreshBusy, orderRefreshQueued,
                            starts>>
    <3>1. SlotTakes(s, [slot[s] EXCEPT !.pc = "catalog"])
      BY <2>3 DEF SlotTakes
    <3>2. slot' \in [Slots -> SlotRow]
      BY <1>1, <3>1, RowTyped
    <3> QED
      BY <1>0, <2>1, <2>3, <3>2, ShowTyped DEF PageTyped
  <2>4. CASE Client!WithPrompt(Client!Drawn(s), slot[s].due) /\ Client!Leave(s)
    <3>1. Client!Drawn(s) \in Shown
      BY <1>0, DrawnShows DEF Client!Drawn, PageTyped
    <3> QED
      BY <1>4, <2>1, <2>4, <3>1
  <2> QED
    BY <1>5, <2>2, <2>3, <2>4 DEF Client!Draw
<1>6. CASE Client!DrawCatalog(s)
  <2> DEFINE shown == [Client!Loading EXCEPT !.kind = "view", !.view = "catalog"]
  <2>1. shown \in Shown
    BY DrawnShows DEF Client!Views
  <2>2. /\ Client!WithPrompt(shown, slot[s].due) /\ Client!Leave(s)
        /\ by' = "page" /\ meFailed' \in {FALSE, meFailed}
        /\ UNCHANGED <<activeView, publishWorkerBusy, hidden, attempt, faults>>
    BY <1>6 DEF Client!DrawCatalog
  <2> HIDE DEF shown
  <2> QED
    BY <1>4, <2>1, <2>2
<1> QED
  BY <1>2, <1>3, <1>5, <1>6

LEMMA AboutAnAttempt ==
  ASSUME ViewInv, NEW s \in Slots, NEW now, Client!Served(s, now)
  PROVE  Client!About(s, now) \in Client!Some
<1>0. PageTyped /\ slot[s].due \in Client!Some
  BY PageTypes DEF ViewInv, PageTyped, SlotRow
<1>1. CASE slot[s].kind = "claim"
  <2>1. PICK a \in Attempts :
          attempt[a] = "queued" /\ now = [attempt EXCEPT ![a] = "submitting"]
    BY <1>1 DEF Client!Served
  <2>2. now[a] # attempt[a]
    BY <1>0, <2>1 DEF PageTyped
  <2>3. Client!About(s, now) \in Attempts
    BY <1>1, <2>2 DEF Client!About
  <2> QED
    BY <2>3 DEF Client!Some
<1>2. CASE slot[s].kind # "claim"
  BY <1>0, <1>2 DEF Client!About
<1> QED
  BY <1>1, <1>2

LEMMA AnswerTyped ==
  ASSUME Client!ClientPageAssumption, ViewInv, NEW s \in Slots, Client!Answer(s)
  PROVE  PageTyped'
<1> DEFINE next == [kind |-> "render", pc |-> "data", due |-> Client!NoAttempt]
<1>0. PageTyped
  BY PageTypes DEF ViewInv
<1>1. Client!Idle \in SlotRow /\ next \in SlotRow
  BY NothingIsAnAttempt DEF SlotRow, Client!Idle
<1>2. SlotTakes(s, Client!Idle) \/ SlotTakes(s, next)
  BY DEF Client!Answer, SlotTakes
<1>3. slot' \in [Slots -> SlotRow]
  <2> HIDE DEF next
  <2> QED
    BY <1>1, <1>2, RowTyped
<1>4. /\ publishWorkerBusy' \in BOOLEAN /\ by' = "server"
      /\ UNCHANGED <<orderRefreshBusy, orderRefreshQueued, prompted, hidden,
                     meFailed, starts>>
  BY DEF Client!Answer
<1>5. ASSUME NEW now \in [Attempts -> {"none", "queued", "submitting", "done"}],
             Client!Served(s, now), attempt' = now, faults' = faults,
             \/ activeView' = "details" /\ content' = Client!Loading
             \/ /\ activeView' = activeView
                /\ \E kind \in {"queued", "handoff"} :
                     content' = Client!Show(kind, Client!About(s, now))
      PROVE  PageTyped'
  <2>1. activeView' \in Client!Views
    BY <1>0, <1>5 DEF PageTyped, Client!Views
  <2>2. content' \in Shown
    BY <1>5, ShowTyped, AboutAnAttempt
  <2> QED
    BY <1>0, <1>3, <1>4, <1>5, <2>1, <2>2 DEF PageTyped
<1>6. ASSUME NEW kind \in {"nothingDue", "error"},
             content' = Client!Show(kind, Client!NoAttempt),
             UNCHANGED <<activeView, attempt>>,
             faults' \in 0 .. MaxPageFaults
      PROVE  PageTyped'
  <2>1. content' \in Shown
    BY <1>6, ShowTyped, NothingIsAnAttempt
  <2> QED
    BY <1>0, <1>3, <1>4, <1>6, <2>1 DEF PageTyped
<1>7. CASE \E now \in [Attempts -> {"none", "queued", "submitting", "done"}] :
             /\ Client!Served(s, now)
             /\ attempt' = now
             /\ \/ activeView' = "details" /\ content' = Client!Loading
                \/ /\ activeView' = activeView
                   /\ \E kind \in {"queued", "handoff"} :
                        content' = Client!Show(kind, Client!About(s, now))
             /\ faults' = faults
  BY <1>5, <1>7
<1>8. CASE /\ content' = Client!Show("nothingDue", Client!NoAttempt)
           /\ UNCHANGED <<activeView, attempt, faults>>
  BY <1>0, <1>6, <1>8 DEF PageTyped
<1>9. CASE /\ Client!Fault(TRUE)
           /\ content' = Client!Show("error", Client!NoAttempt)
           /\ UNCHANGED <<activeView, attempt>>
  BY <1>6, <1>9, FaultTyped
<1> QED
  BY <1>7, <1>8, <1>9 DEF Client!Answer

-----------------------------------------------------------------------------

-----------------------------------------------------------------------------
LEMMA ViewInit ==
  Client!ClientPageAssumption /\ Client!Init => ViewInv
<1> SUFFICES ASSUME Client!ClientPageAssumption, Client!Init PROVE ViewInv
  OBVIOUS
<1>1. Client!Idle \in SlotRow /\ Client!Idle.kind = "idle"
  BY NothingIsAnAttempt DEF SlotRow, Client!Idle
<1>2. slot \in [Slots -> SlotRow] /\ RendersLoad
  BY <1>1 DEF Client!Init, RendersLoad
<1>3. content \in Shown /\ RenderIsDue
  BY ShowTyped DEF Client!Init, RenderIsDue, OtherView, Client!Loading
<1>4. /\ attempt \in [Attempts -> {"none", "queued", "submitting", "done"}]
      /\ starts \in 0 .. MaxStarts /\ faults \in 0 .. MaxPageFaults
  BY DEF Client!Init, Client!ClientPageAssumption
<1>5. PageTyped
  BY <1>2, <1>3, <1>4 DEF PageTyped, Client!Init
<1> QED
  BY <1>2, <1>3, <1>5, PageTypes DEF ViewInv

LEMMA ViewStep ==
  Client!ClientPageAssumption /\ ViewInv /\ [Client!Next]_(Client!vars)
    => ViewInv'
<1> SUFFICES ASSUME Client!ClientPageAssumption, ViewInv,
                    [Client!Next]_(Client!vars)
             PROVE  ViewInv'
  OBVIOUS
<1>1. ASSUME NEW s \in Slots,
             \/ \E v \in Client!Views : Client!Navigate(s, v)
             \/ Client!Refresh(s) \/ Client!claimDueAttempt(s)
             \/ Client!recordPublishResult(s)
             \/ \E a \in Attempts : \/ Client!openSubmission(s, a)
                                    \/ Client!enqueuePublish(s, a)
      PROVE  ViewInv'
  BY <1>1, ViewUserActs, UserActsTyped DEF ViewInv
<1>2. ASSUME NEW s \in Slots,
             \/ Client!Me(s) \/ Client!Load(s) \/ Client!Draw(s)
             \/ Client!DrawCatalog(s)
      PROVE  ViewInv'
  BY <1>2, ViewPageActs, PageActsTyped, PageTypes DEF ViewInv
<1>3. ASSUME NEW s \in Slots,
             Client!PublishTick(s) \/ Client!RefreshTick(s) \/ Client!Return(s)
      PROVE  ViewInv'
  BY <1>3, ViewTimers, TimersTyped, PageTypes DEF ViewInv
<1>4. ASSUME NEW s \in Slots, Client!Answer(s) PROVE ViewInv'
  BY <1>4, ViewAnswer, AnswerTyped, PageTypes DEF ViewInv
<1>5. CASE UNCHANGED Client!vars
  <2>1. UNCHANGED <<activeView, content, slot, publishWorkerBusy,
                    orderRefreshBusy, orderRefreshQueued, prompted, hidden,
                    meFailed, attempt, by, starts, faults>>
    BY <1>5 DEF Client!vars, Client!flags
  <2>2. PageTyped'
    BY <2>1, PageTypes DEF ViewInv, PageTyped
  <2>3. RendersLoad' /\ RenderIsDue'
    BY <2>1, SlotsStay DEF OtherView
  <2> QED
    BY <2>2, <2>3, PageTypes DEF ViewInv
<1>6. CASE Client!Hide
  <2>1. /\ slot' = slot /\ UNCHANGED <<meFailed, content, activeView>>
    BY <1>6 DEF Client!Hide
  <2>2. RendersLoad' /\ RenderIsDue'
    BY <2>1, SlotsStay DEF OtherView
  <2>3. PageTyped'
    BY <1>6, PageTypes DEF ViewInv, PageTyped, Client!Hide, Client!flags
  <2> QED
    BY <2>2, <2>3, PageTypes DEF ViewInv
<1> QED
  BY <1>1, <1>2, <1>3, <1>4, <1>5, <1>6 DEF Client!Next

\* The page of the setting.
ShownInv == setting = "page" => ViewInv

\* Once no function of the page is in flight, the view on the page is the
\* active one, whatever order navigations, timers, requests and their answers
\* came in (render, renderClient, refreshVisibleOrderData), for every set of
\* attempts and any number of functions in flight.  Only the catalog can be
\* drawn over another view, and only while a /me that failed is the last that
\* happened to the page can it show an older one.
THEOREM OnlyCatalogIsDrawnLate == ClientSpec => []SettledShowsView
<1>0. Client!ClientPageAssumption
  BY Parameters
<1>1. ClientInit => ShownInv
  BY <1>0, ViewInit DEF ClientInit, ShownInv
<1>2. ShownInv /\ [ClientNext]_ClientVars => ShownInv'
  <2> SUFFICES ASSUME ShownInv, [ClientNext]_ClientVars, setting' = "page"
               PROVE  ViewInv'
    BY DEF ShownInv
  <2>1. CASE UNCHANGED ClientVars
    BY <1>0, <2>1, ViewStep DEF ShownInv, ClientVars, PageVars, Client!vars,
       Client!flags
  <2>2. CASE ClientNext
    BY <1>0, <2>2, ViewStep DEF ShownInv, ClientNext
  <2> QED
    BY <2>1, <2>2
<1>3. ShownInv => SettledShowsView
  <2> SUFFICES ASSUME ViewInv PROVE Client!SettledShowsView
    BY DEF ShownInv, SettledShowsView
  <2> QED
    BY DEF ViewInv, RenderIsDue, OtherView, Client!SettledShowsView, Client!Idle
<1> QED
  BY <1>1, <1>2, <1>3, PTL DEF ClientSpec

-----------------------------------------------------------------------------
(***************************************************************************)
(* Several tabs, one tab: the invariant of HostedSessionProofs at the      *)
(* constants of each setting.  An instance of that module has names of its *)
(* own for what HostedSession defines; they stand for the same.            *)
(***************************************************************************)
BothSessions == INSTANCE HostedSessionProofs WITH
  call <- request, made <- requested, faults <- outages,
  Calls <- TabCalls, MaxLogins <- MaxTabLogins, MaxCalls <- MaxTabCalls,
  MaxFaults <- MaxTabFaults, Moves <- TRUE

OneSession == INSTANCE HostedSessionProofs WITH
  call <- request, made <- requested, faults <- outages,
  Tabs <- {Tab}, Calls <- Requests, MaxCalls <- MaxRequests, Moves <- FALSE

LEMMA TabsSame ==
  /\ BothTabs!HostedSessionAssumption <=> BothSessions!HostedSessionAssumption
  /\ BothTabs!TypeOK <=> BothSessions!TypeOK
  /\ BothTabs!Init <=> BothSessions!Init
  /\ BothTabs!StoresOwnLogin <=> BothSessions!StoresOwnLogin
  /\ BothTabs!vars = BothSessions!vars
BY DEF BothTabs!HostedSessionAssumption, BothSessions!HostedSessionAssumption,
   BothTabs!StoresOwnLogin, BothSessions!StoresOwnLogin, BothTabs!Page,
   BothSessions!Page, BothTabs!TypeOK, BothSessions!TypeOK, BothTabs!Tokens,
   BothSessions!Tokens, BothTabs!Logins, BothSessions!Logins, BothTabs!TabRow,
   BothSessions!TabRow, BothTabs!CallRow, BothSessions!CallRow, BothTabs!Idle,
   BothSessions!Idle, BothTabs!Pages, BothSessions!Pages, BothTabs!Init,
   BothSessions!Init, BothTabs!vars, BothSessions!vars, BothTabs!growth,
   BothSessions!growth, BothTabs!counters, BothSessions!counters

LEMMA TabsSameNext == BothTabs!Next <=> BothSessions!Next
BY DEF BothTabs!Idle, BothSessions!Idle, BothTabs!Page, BothSessions!Page,
   BothTabs!Logins, BothSessions!Logins, BothTabs!Open, BothSessions!Open,
   BothTabs!Load, BothSessions!Load, BothTabs!StartHostedAuth,
   BothSessions!StartHostedAuth, BothTabs!NextLogin, BothSessions!NextLogin,
   BothTabs!Cardinality, BothSessions!Cardinality, BothTabs!PostClick,
   BothSessions!PostClick, BothTabs!growth, BothSessions!growth,
   BothTabs!counters, BothSessions!counters, BothTabs!Unload,
   BothSessions!Unload, BothTabs!SignOut, BothSessions!SignOut,
   BothTabs!ChooseAuth, BothSessions!ChooseAuth, BothTabs!Authenticate,
   BothSessions!Authenticate, BothTabs!AuthReturn, BothSessions!AuthReturn,
   BothTabs!RegisterAndClose, BothSessions!RegisterAndClose,
   BothTabs!MatchingState, BothSessions!MatchingState, BothTabs!Callback,
   BothSessions!Callback, BothTabs!Provisioned, BothSessions!Provisioned,
   BothTabs!Request, BothSessions!Request, BothTabs!Accepted,
   BothSessions!Accepted, BothTabs!Verdict, BothSessions!Verdict,
   BothTabs!GiveUp, BothSessions!GiveUp, BothTabs!Validate,
   BothSessions!Validate, BothTabs!Answered, BothSessions!Answered,
   BothTabs!Unauthorized, BothSessions!Unauthorized, BothTabs!Expire,
   BothSessions!Expire, BothTabs!RecordClick, BothSessions!RecordClick,
   BothTabs!Next, BothSessions!Next

LEMMA OneTabSame ==
  /\ OneTab!HostedSessionAssumption <=> OneSession!HostedSessionAssumption
  /\ OneTab!TypeOK <=> OneSession!TypeOK
  /\ OneTab!Init <=> OneSession!Init
  /\ OneTab!vars = OneSession!vars
BY DEF OneTab!HostedSessionAssumption, OneSession!HostedSessionAssumption,
   OneTab!TypeOK, OneSession!TypeOK, OneTab!Tokens, OneSession!Tokens,
   OneTab!Logins, OneSession!Logins, OneTab!TabRow, OneSession!TabRow,
   OneTab!CallRow, OneSession!CallRow, OneTab!Idle, OneSession!Idle,
   OneTab!Pages, OneSession!Pages, OneTab!Init, OneSession!Init, OneTab!vars,
   OneSession!vars, OneTab!growth, OneSession!growth, OneTab!counters,
   OneSession!counters

LEMMA OneTabSameNext == OneTab!Next <=> OneSession!Next
BY DEF OneTab!Idle, OneSession!Idle, OneTab!Page, OneSession!Page,
   OneTab!Logins, OneSession!Logins, OneTab!Open, OneSession!Open,
   OneTab!Load, OneSession!Load, OneTab!StartHostedAuth,
   OneSession!StartHostedAuth, OneTab!NextLogin, OneSession!NextLogin,
   OneTab!Cardinality, OneSession!Cardinality, OneTab!PostClick,
   OneSession!PostClick, OneTab!growth, OneSession!growth, OneTab!counters,
   OneSession!counters, OneTab!Unload, OneSession!Unload, OneTab!SignOut,
   OneSession!SignOut, OneTab!ChooseAuth, OneSession!ChooseAuth,
   OneTab!Authenticate, OneSession!Authenticate, OneTab!AuthReturn,
   OneSession!AuthReturn, OneTab!RegisterAndClose,
   OneSession!RegisterAndClose, OneTab!MatchingState,
   OneSession!MatchingState, OneTab!Callback, OneSession!Callback,
   OneTab!Provisioned, OneSession!Provisioned, OneTab!Request,
   OneSession!Request, OneTab!Accepted, OneSession!Accepted, OneTab!Verdict,
   OneSession!Verdict, OneTab!GiveUp, OneSession!GiveUp, OneTab!Validate,
   OneSession!Validate, OneTab!Answered, OneSession!Answered,
   OneTab!Unauthorized, OneSession!Unauthorized, OneTab!Expire,
   OneSession!Expire, OneTab!RecordClick, OneSession!RecordClick, OneTab!Next,
   OneSession!Next

LEMMA TabsInit ==
  BothTabs!Init => BothSessions!SessionInv
BY Parameters, TabsSame, BothSessions!SessionInit

LEMMA TabsStep ==
  ASSUME BothSessions!SessionInv, [BothTabs!Next]_(BothTabs!vars)
  PROVE  /\ BothSessions!SessionInv'
         /\ BothTabs!StoresOwnLogin \/ UNCHANGED BothTabs!vars
<1>1. [BothSessions!Next]_(BothSessions!vars)
  BY TabsSameNext DEF BothTabs!vars, BothSessions!vars, BothTabs!growth,
     BothSessions!growth, BothTabs!counters, BothSessions!counters
<1>2. /\ BothSessions!SessionInv'
      /\ BothSessions!StoresOwnLogin \/ UNCHANGED BothSessions!vars
  BY <1>1, Parameters, TabsSame, BothSessions!SessionStep
<1>3. UNCHANGED BothSessions!vars => UNCHANGED BothTabs!vars
  BY DEF BothTabs!vars, BothSessions!vars, BothTabs!growth,
     BothSessions!growth, BothTabs!counters, BothSessions!counters
<1> QED
  BY <1>2, <1>3, TabsSame

LEMMA OneSessionInit ==
  OneTab!Init => OneSession!SessionInv
BY Parameters, OneTabSame, OneSession!SessionInit

LEMMA OneSessionStep ==
  ASSUME OneSession!SessionInv, [OneTab!Next]_(OneTab!vars)
  PROVE  OneSession!SessionInv'
<1>1. [OneSession!Next]_(OneSession!vars)
  BY OneTabSameNext DEF OneTab!vars, OneSession!vars, OneTab!growth,
     OneSession!growth, OneTab!counters, OneSession!counters
<1> QED
  BY <1>1, Parameters, OneTabSame, OneSession!SessionStep

\* A token is only stored by the tab that began the login it is of, whichever
\* tab Auth sends a login to (startHostedAuth keeps a fresh state in the tab's
\* sessionStorage, the callback compares it), for any number of tabs, logins
\* and calls.
THEOREM OnlyOwnLogins == ClientSpec => OwnLoginStored
<1> DEFINE Inv == setting = "tabs" => BothSessions!SessionInv
<1>1. ClientInit => Inv
  BY TabsInit DEF ClientInit
<1>2. Inv /\ [ClientNext]_ClientVars =>
        Inv' /\ [setting = "tabs" => BothTabs!StoresOwnLogin]_ClientVars
  <2> SUFFICES ASSUME Inv, [ClientNext]_ClientVars
               PROVE  Inv' /\ [setting = "tabs" => BothTabs!StoresOwnLogin]_ClientVars
    OBVIOUS
  <2>1. CASE setting # "tabs"
    BY <2>1 DEF ClientNext, ClientVars
  <2>2. CASE setting = "tabs"
    <3>1. [BothTabs!Next]_(BothTabs!vars) /\ setting' = setting
          /\ UNCHANGED <<PageVars, vars>>
      BY <2>2 DEF ClientNext, ClientVars, SessionVars, BothTabs!vars,
         BothTabs!growth, BothTabs!counters
    <3>2. UNCHANGED BothTabs!vars => UNCHANGED ClientVars
      BY <3>1 DEF ClientVars, SessionVars, BothTabs!vars, BothTabs!growth,
         BothTabs!counters
    <3> QED
      BY <2>2, <3>1, <3>2, TabsStep
  <2> QED
    BY <2>1, <2>2
<1> QED
  BY <1>1, <1>2, PTL DEF ClientSpec, OwnLoginStored

-----------------------------------------------------------------------------
(***************************************************************************)
(* One tab.                                                                *)
(***************************************************************************)
TabCall ==
  [tab : {Tab}, token : OneTab!Tokens, tries : Nat,
   step : {"sent", "accepted", "denied"}]

\* A tab that is away for a login comes back with the state it keeps.
ReturnsWithState ==
  tab[Tab].page \in {"leaving", "auth", "callback", "provisioning"} =>
    tab[Tab].url = tab[Tab].state /\ tab[Tab].state # 0

\* A call carries the token that is stored, if one is still stored; it has
\* failed at most as often as there were failures, and was denied only for a
\* token that Auth does not accept.
Follows(row, failures) ==
  /\ tab[Tab].page \in {"client", "panel", "leaving"}
  /\ row.tries <= failures
  /\ stored \in {0, row.token}
  /\ row.step = "denied" => ~OneTab!Accepted(row.token)

CallFollows(c) == Follows(request[c], outages)

CallsFollow ==
  \A c \in Requests : request[c].step # "idle" => CallFollows(c)

OneTabTypes ==
  /\ stored \in OneTab!Tokens
  /\ tab \in [{Tab} -> OneTab!TabRow]
  /\ request \in [Requests -> TabCall \cup {OneTab!Idle}]
  /\ outages \in 0 .. MaxFaults

OneTabInv == OneTabTypes /\ ReturnsWithState /\ CallsFollow

LEMMA NoToken ==
  ASSUME OneTab!HostedSessionAssumption PROVE 0 \in OneTab!Tokens
BY DEF OneTab!Tokens, OneTab!HostedSessionAssumption

\* The tab takes another row and its calls stay what they are.
LEMMA TabTakes ==
  ASSUME OneTabInv, NEW row \in OneTab!TabRow, tab' = [tab EXCEPT ![Tab] = row],
         row.page \in {"leaving", "auth", "callback", "provisioning"} =>
           row.url = row.state /\ row.state # 0,
         UNCHANGED <<request, outages, dead>>, stored' \in OneTab!Tokens,
         \/ stored' \in {0, stored} /\ row.page \in {"client", "panel", "leaving"}
         \/ tab[Tab].page \notin {"client", "panel", "leaving"}
  PROVE  OneTabInv' /\ tab'[Tab] = row
<1>1. tab' \in [{Tab} -> OneTab!TabRow] /\ tab'[Tab] = row
  BY DEF OneTabInv, OneTabTypes
<1>2. ReturnsWithState'
  BY <1>1 DEF ReturnsWithState
<1>3. CallsFollow'
  <2> SUFFICES ASSUME NEW c \in Requests, request[c].step # "idle"
               PROVE  CallFollows(c)'
    BY DEF CallsFollow
  <2>1. CallFollows(c)
    BY DEF OneTabInv, CallsFollow
  <2>2. row.page \in {"client", "panel", "leaving"} /\ stored' \in {0, stored}
    BY <2>1 DEF CallFollows, Follows
  <2> QED
    BY <1>1, <2>1, <2>2 DEF CallFollows, Follows, OneTab!Accepted
<1> QED
  BY <1>1, <1>2, <1>3 DEF OneTabInv, OneTabTypes

\* A login begins: the URL and the pending state are its number.
LEMMA StartsLogin ==
  ASSUME OneTab!HostedSessionAssumption, OneTabInv, NEW register \in BOOLEAN,
         OneTab!StartHostedAuth(Tab, register)
  PROVE  \E row \in OneTab!TabRow :
           /\ tab' = [tab EXCEPT ![Tab] = row]
           /\ row.page = "leaving" /\ row.url = row.state /\ row.state # 0
<1> DEFINE n == OneTab!NextLogin
           row == [page |-> "leaving", state |-> n, url |-> n,
                   register |-> register]
<1>1. n \in 1 .. MaxLogins /\ tab' = [tab EXCEPT ![Tab] = row]
  BY DEF OneTab!StartHostedAuth, OneTab!Logins
<1> HIDE DEF n
<1>2. n \in OneTab!Tokens /\ n # 0
  BY <1>1 DEF OneTab!Tokens, OneTab!HostedSessionAssumption
<1>3. row \in OneTab!TabRow
  BY <1>2 DEF OneTab!TabRow, OneTab!Pages
<1> QED
  BY <1>1, <1>2, <1>3

LEMMA OneTabLogin ==
  ASSUME OneTab!HostedSessionAssumption, OneTabInv, NEW register \in BOOLEAN,
         OneTab!StartHostedAuth(Tab, register),
         UNCHANGED <<request, outages, dead, stored>>
  PROVE  OneTabInv'
<1>1. PICK row \in OneTab!TabRow :
        /\ tab' = [tab EXCEPT ![Tab] = row]
        /\ row.page = "leaving" /\ row.url = row.state /\ row.state # 0
  BY StartsLogin
<1> QED
  BY <1>1, TabTakes DEF OneTabInv, OneTabTypes

\* Steps that change the tab's page, and perhaps its pending state.
LEMMA TabGoes ==
  ASSUME OneTabInv, NEW to \in OneTab!Pages, NEW keeps \in BOOLEAN,
         tab' = IF keeps THEN [tab EXCEPT ![Tab].page = to]
                ELSE [tab EXCEPT ![Tab].page = to, ![Tab].state = 0],
         0 \in OneTab!Tokens,
         to \in {"leaving", "auth", "callback", "provisioning"} =>
           /\ keeps /\ tab[Tab].url = tab[Tab].state /\ tab[Tab].state # 0,
         UNCHANGED <<request, outages, dead>>, stored' \in OneTab!Tokens,
         \/ stored' \in {0, stored} /\ to \in {"client", "panel", "leaving"}
         \/ tab[Tab].page \notin {"client", "panel", "leaving"}
  PROVE  OneTabInv' /\ tab'[Tab].page = to
<1>0. tab[Tab] \in OneTab!TabRow /\ tab = [x \in {Tab} |-> tab[x]]
  BY DEF OneTabInv, OneTabTypes
<1>1. ASSUME NEW row \in OneTab!TabRow, tab' = [tab EXCEPT ![Tab] = row],
             row.page = to, row.url = tab[Tab].url,
             keeps => row.state = tab[Tab].state
      PROVE  OneTabInv' /\ tab'[Tab].page = to
  BY <1>1, TabTakes
<1>2. CASE keeps
  <2> DEFINE row == [tab[Tab] EXCEPT !.page = to]
  <2>1. row \in OneTab!TabRow /\ row.page = to /\ row.url = tab[Tab].url
        /\ row.state = tab[Tab].state
    BY <1>0 DEF OneTab!TabRow
  <2>2. tab' = [tab EXCEPT ![Tab] = row]
    BY <1>2
  <2> HIDE DEF row
  <2> QED
    BY <1>1, <2>1, <2>2
<1>3. CASE ~keeps
  <2> DEFINE row == [tab[Tab] EXCEPT !.page = to, !.state = 0]
  <2>1. row \in OneTab!TabRow /\ row.page = to /\ row.url = tab[Tab].url
    BY <1>0 DEF OneTab!TabRow
  <2>2. tab' = [tab EXCEPT ![Tab] = row]
    BY <1>0, <1>3 DEF OneTab!TabRow
  <2> HIDE DEF row
  <2> QED
    BY <1>1, <1>3, <2>1, <2>2
<1> QED
  BY <1>2, <1>3

LEMMA OneTabGoesOn ==
  ASSUME OneTab!HostedSessionAssumption, OneTabInv,
         \/ OneTab!Open(Tab) \/ OneTab!ChooseAuth(Tab)
         \/ OneTab!Provisioned(Tab) \/ OneTab!SignOut(Tab)
         \/ OneTab!RegisterAndClose(Tab)
  PROVE  OneTabInv'
<1>0. /\ 0 \in OneTab!Tokens /\ stored \in OneTab!Tokens
      /\ UNCHANGED <<request, outages, dead>>
  BY NoToken DEF OneTabInv, OneTabTypes, OneTab!Open, OneTab!ChooseAuth,
     OneTab!Provisioned, OneTab!SignOut, OneTab!RegisterAndClose,
     OneTab!counters
<1>1. CASE /\ \E register \in BOOLEAN : OneTab!StartHostedAuth(Tab, register)
           /\ stored' = stored
  BY <1>0, <1>1, OneTabLogin
<1>2. CASE stored' = stored /\ tab' = [tab EXCEPT ![Tab].page = "client"]
  BY <1>0, <1>2, TabGoes DEF OneTab!Pages
<1>3. CASE /\ stored' = stored
           /\ tab' = [tab EXCEPT ![Tab].page = "client", ![Tab].state = 0]
  BY <1>0, <1>3, TabGoes DEF OneTab!Pages
<1>4. CASE OneTab!SignOut(Tab)
  <2>1. stored' = 0
        /\ tab' = [tab EXCEPT ![Tab].page = "panel", ![Tab].state = 0]
    BY <1>4 DEF OneTab!SignOut
  <2> QED
    BY <1>0, <2>1, TabGoes DEF OneTab!Pages
<1>5. CASE OneTab!RegisterAndClose(Tab)
  <2>1. /\ tab[Tab].page = "auth" /\ stored' = stored
        /\ tab' = [tab EXCEPT ![Tab].page = "closed"]
    BY <1>5 DEF OneTab!RegisterAndClose, OneTab!Page
  <2> QED
    BY <1>0, <2>1, TabGoes DEF OneTab!Pages
<1> QED
  BY <1>1, <1>2, <1>3, <1>4, <1>5 DEF OneTab!Open, OneTab!Load,
     OneTab!ChooseAuth, OneTab!Provisioned

LEMMA OneTabReturns ==
  ASSUME OneTab!HostedSessionAssumption, OneTabInv, OneTab!AuthReturn(Tab, Tab)
  PROVE  OneTabInv'
<1>0. tab[Tab] \in OneTab!TabRow /\ tab = [x \in {Tab} |-> tab[x]]
      /\ stored \in OneTab!Tokens
  BY DEF OneTabInv, OneTabTypes
<1>1. /\ tab[Tab].page = "auth" /\ UNCHANGED <<request, outages, dead, stored>>
      /\ tab' = [tab EXCEPT ![Tab].page = "callback", ![Tab].page = "callback",
                            ![Tab].url = tab[Tab].url]
  BY DEF OneTab!AuthReturn, OneTab!Page, OneTab!counters
<1> DEFINE row == [tab[Tab] EXCEPT !.page = "callback"]
<1>2. row \in OneTab!TabRow /\ row.page = "callback" /\ row.url = tab[Tab].url
      /\ row.state = tab[Tab].state
  BY <1>0 DEF OneTab!TabRow, OneTab!Pages
<1>3. tab' = [tab EXCEPT ![Tab] = row]
  BY <1>0, <1>1 DEF OneTab!TabRow
<1>4. row.url = row.state /\ row.state # 0
  BY <1>1, <1>2 DEF OneTabInv, ReturnsWithState
<1> HIDE DEF row
<1> QED
  BY <1>0, <1>1, <1>2, <1>3, <1>4, TabTakes

\* The callback of a tab that was away finds its state, and stores its token.
LEMMA OneTabCallback ==
  ASSUME OneTab!HostedSessionAssumption, OneTabInv, OneTab!Callback(Tab)
  PROVE  OneTabInv' /\ stored' # 0
<1>1. /\ tab[Tab].page = "callback" /\ UNCHANGED <<request, outages, dead>>
      /\ tab[Tab] \in OneTab!TabRow /\ 0 \in OneTab!Tokens
  BY NoToken DEF OneTab!Callback, OneTab!Page, OneTab!counters, OneTabInv,
     OneTabTypes
<1>2. tab[Tab].url = tab[Tab].state /\ tab[Tab].state # 0
  BY <1>1 DEF OneTabInv, ReturnsWithState
<1>3. /\ stored' = tab[Tab].url
      /\ tab' = [tab EXCEPT ![Tab].page = "provisioning"]
  BY <1>2 DEF OneTab!Callback, OneTab!MatchingState
<1>4. stored' \in OneTab!Tokens
  BY <1>1, <1>3 DEF OneTab!TabRow
<1> QED
  BY <1>1, <1>2, <1>3, <1>4, TabGoes DEF OneTab!Pages

\* A call takes another row; the others only have to bear one failure more.
LEMMA CallTakes ==
  ASSUME OneTabInv, NEW c \in Requests, NEW row \in TabCall \cup {OneTab!Idle},
         request' = [request EXCEPT ![c] = row],
         stored' = stored, tab' = tab, dead' = dead,
         outages' \in 0 .. MaxFaults, outages <= outages', outages \in Nat,
         row.step = "idle" \/ Follows(row, outages')
  PROVE  OneTabInv'
<1>1. /\ request' \in [Requests -> TabCall \cup {OneTab!Idle}]
      /\ request'[c] = row /\ \A d \in Requests \ {c} : request'[d] = request[d]
  BY DEF OneTabInv, OneTabTypes
<1>2. ReturnsWithState'
  BY DEF OneTabInv, ReturnsWithState
<1>3. CallsFollow'
  <2> SUFFICES ASSUME NEW d \in Requests, request'[d].step # "idle"
               PROVE  CallFollows(d)'
    BY DEF CallsFollow
  <2>1. CASE d = c
    BY <1>1, <2>1 DEF CallFollows, Follows, OneTab!Accepted
  <2>2. CASE d # c
    <3>1. request'[d] = request[d] /\ CallFollows(d)
      BY <1>1, <2>2 DEF OneTabInv, CallsFollow
    <3>2. request[d].tries \in Nat
      BY <1>1, <3>1, <2>2 DEF OneTabInv, OneTabTypes, TabCall, OneTab!Idle
    <3>3. outages' \in Nat
      OBVIOUS
    <3>4. request[d].tries <= outages'
      BY <3>1, <3>2, <3>3 DEF CallFollows, Follows
    <3> QED
      BY <3>1, <3>4 DEF CallFollows, Follows, OneTab!Accepted
  <2> QED
    BY <2>1, <2>2
<1> QED
  BY <1>1, <1>2, <1>3 DEF OneTabInv, OneTabTypes

LEMMA OneTabRequest ==
  ASSUME OneTab!HostedSessionAssumption, OneTabInv, NEW c \in Requests,
         OneTab!Request(Tab, c)
  PROVE  OneTabInv'
<1> DEFINE row == [tab |-> Tab, token |-> stored, tries |-> 0, step |-> "sent"]
<1>1. /\ request' = [request EXCEPT ![c] = row]
      /\ stored' = stored /\ tab' = tab /\ dead' = dead /\ outages' = outages
      /\ tab[Tab].page = "client"
  BY DEF OneTab!Request, OneTab!Page
<1>2. /\ row \in TabCall /\ row.step = "sent" /\ row.tries = 0
      /\ row.token = stored
  BY DEF OneTabInv, OneTabTypes, TabCall
<1>3. outages \in Nat /\ outages \in 0 .. MaxFaults /\ outages <= outages'
  BY <1>1 DEF OneTabInv, OneTabTypes
<1> HIDE DEF row
<1>4. Follows(row, outages')
  BY <1>1, <1>2, <1>3 DEF Follows
<1>5. row \in TabCall \cup {OneTab!Idle} /\ outages' \in 0 .. MaxFaults
  BY <1>1, <1>2, <1>3
<1> QED
  BY <1>1, <1>3, <1>4, <1>5, CallTakes

\* A failure is not the last try of a call: there are fewer failures than tries.
LEMMA OneTabValidate ==
  ASSUME OneTab!HostedSessionAssumption, MaxFaults < MaxTries, OneTabInv,
         NEW c \in Requests, OneTab!Validate(c)
  PROVE  OneTabInv'
<1>1. /\ request[c] \in TabCall /\ request[c].step = "sent" /\ CallFollows(c)
      /\ stored' = stored /\ tab' = tab /\ dead' = dead
  BY DEF OneTab!Validate, OneTabInv, OneTabTypes, CallsFollow, OneTab!Idle
<1>2. /\ outages \in Nat /\ outages \in 0 .. MaxFaults /\ outages <= MaxFaults
      /\ MaxFaults \in Nat /\ MaxTries \in Nat /\ request[c].tries \in Nat
      /\ request[c].tries <= outages
  BY <1>1 DEF OneTabInv, OneTabTypes, OneTab!HostedSessionAssumption, TabCall,
     CallFollows, Follows
<1>3. CASE /\ request' = [request EXCEPT ![c].step = OneTab!Verdict(c)]
           /\ outages' = outages
  <2> DEFINE row == [request[c] EXCEPT !.step = OneTab!Verdict(c)]
  <2>1. /\ row \in TabCall /\ row.tries = request[c].tries
        /\ row.token = request[c].token
        /\ row.step = "denied" => ~OneTab!Accepted(request[c].token)
    BY <1>1 DEF TabCall, OneTab!Verdict
  <2>2. request' = [request EXCEPT ![c] = row]
    BY <1>3
  <2> HIDE DEF row
  <2>3. Follows(row, outages')
    BY <1>1, <1>2, <1>3, <2>1 DEF Follows, CallFollows
  <2>4. /\ row \in TabCall \cup {OneTab!Idle}
        /\ outages' \in 0 .. MaxFaults /\ outages <= outages'
    BY <1>2, <1>3, <2>1
  <2> QED
    BY <1>1, <1>2, <2>2, <2>3, <2>4, CallTakes
<1>4. CASE /\ outages < MaxFaults /\ outages' = outages + 1
           /\ request' = [request EXCEPT ![c].tries = @ + 1,
                ![c].step = IF OneTab!GiveUp(c) THEN "denied" ELSE @]
  <2>1. request[c].tries + 1 \in Nat /\ request[c].tries + 1 # MaxTries
    BY <1>2, <1>4
  <2>2. ~OneTab!GiveUp(c)
    BY <2>1 DEF OneTab!GiveUp
  <2> DEFINE row == [request[c] EXCEPT !.tries = @ + 1]
  <2>3. /\ row \in TabCall /\ row.tries = request[c].tries + 1
        /\ row.token = request[c].token /\ row.step = "sent"
    BY <1>1, <2>1 DEF TabCall
  <2>4. request' = [request EXCEPT ![c] = row]
    BY <1>1, <1>4, <2>2 DEF OneTabInv, OneTabTypes, TabCall
  <2> HIDE DEF row
  <2>5. row.tries <= outages' /\ outages' \in 0 .. MaxFaults
        /\ outages <= outages'
    BY <1>2, <1>4, <2>3
  <2>6. Follows(row, outages')
    BY <1>1, <2>3, <2>5 DEF Follows, CallFollows
  <2>7. row \in TabCall \cup {OneTab!Idle}
    BY <2>3
  <2> QED
    BY <1>1, <1>2, <2>4, <2>5, <2>6, <2>7, CallTakes
<1> QED
  BY <1>3, <1>4 DEF OneTab!Validate

\* A token that was denied is not one that Auth accepts.
LEMMA OneTabUnauthorized ==
  ASSUME OneTab!HostedSessionAssumption, OneTabInv, NEW c \in Requests,
         OneTab!Unauthorized(c)
  PROVE  OneTabInv' /\ ~OneTab!Accepted(stored)
<1>1. /\ request[c] \in TabCall /\ request[c].step = "denied" /\ CallFollows(c)
      /\ request[c].tab = Tab
  BY DEF OneTab!Unauthorized, OneTabInv, OneTabTypes, CallsFollow, OneTab!Idle,
     TabCall
<1>2. /\ stored' = 0 /\ OneTab!StartHostedAuth(Tab, FALSE)
      /\ request' = [request EXCEPT ![c] = OneTab!Idle]
      /\ dead' = dead /\ outages' = outages
  BY <1>1 DEF OneTab!Unauthorized, OneTab!counters
<1>3. ~OneTab!Accepted(stored)
  BY <1>1 DEF CallFollows, Follows, OneTab!Accepted
<1>4. PICK row \in OneTab!TabRow :
        /\ tab' = [tab EXCEPT ![Tab] = row]
        /\ row.page = "leaving" /\ row.url = row.state /\ row.state # 0
  BY <1>2, StartsLogin
<1>5. tab' \in [{Tab} -> OneTab!TabRow] /\ tab'[Tab] = row
  BY <1>4 DEF OneTabInv, OneTabTypes
<1>6. /\ request' \in [Requests -> TabCall \cup {OneTab!Idle}]
      /\ request'[c] = OneTab!Idle
      /\ \A d \in Requests \ {c} : request'[d] = request[d]
  BY <1>2 DEF OneTabInv, OneTabTypes
<1>7. CallsFollow'
  <2> SUFFICES ASSUME NEW d \in Requests, request'[d].step # "idle"
               PROVE  CallFollows(d)'
    BY DEF CallsFollow
  <2>1. d # c
    BY <1>6 DEF OneTab!Idle
  <2>2. request'[d] = request[d] /\ CallFollows(d)
    BY <1>6, <2>1 DEF OneTabInv, CallsFollow
  <2> QED
    BY <1>2, <1>4, <1>5, <2>2 DEF CallFollows, Follows, OneTab!Accepted
<1> QED
  BY <1>2, <1>3, <1>4, <1>5, <1>6, <1>7, NoToken DEF OneTabInv, OneTabTypes,
     ReturnsWithState

\* Leaving the page ends its requests.
LEMMA OneTabUnload ==
  ASSUME OneTab!HostedSessionAssumption, OneTabInv, OneTab!Unload(Tab)
  PROVE  OneTabInv'
<1>1. /\ tab[Tab] \in OneTab!TabRow /\ tab[Tab].page = "leaving"
      /\ tab[Tab].url = tab[Tab].state /\ tab[Tab].state # 0
      /\ stored' = stored /\ dead' = dead /\ outages' = outages
  BY DEF OneTab!Unload, OneTab!Page, OneTab!counters, OneTabInv, OneTabTypes,
     ReturnsWithState
<1> DEFINE row == [tab[Tab] EXCEPT !.page = "auth"]
<1>2. /\ row \in OneTab!TabRow /\ row.page = "auth" /\ row.url = row.state
      /\ row.state # 0
  BY <1>1 DEF OneTab!TabRow, OneTab!Pages
<1>3. tab' = [tab EXCEPT ![Tab] = row]
  BY DEF OneTab!Unload
<1> HIDE DEF row
<1>4. tab' \in [{Tab} -> OneTab!TabRow] /\ tab'[Tab] = row
  BY <1>2, <1>3 DEF OneTabInv, OneTabTypes
<1>5. request' = [c \in Requests |-> OneTab!Idle]
  <2>1. \A c \in Requests : request[c].tab = Tab \/ request[c] = OneTab!Idle
    BY DEF OneTabInv, OneTabTypes, TabCall
  <2> QED
    BY <2>1 DEF OneTab!Unload
<1>6. \A c \in Requests : request'[c].step = "idle"
  BY <1>5 DEF OneTab!Idle
<1> QED
  BY <1>1, <1>2, <1>4, <1>5, <1>6 DEF OneTabInv, OneTabTypes, ReturnsWithState,
     CallsFollow

LEMMA OneTabAnswered ==
  ASSUME OneTabInv, NEW c \in Requests, OneTab!Answered(c)
  PROVE  OneTabInv'
<1>1. /\ stored' = stored /\ tab' = tab /\ dead' = dead /\ outages' = outages
      /\ request' = [request EXCEPT ![c] = OneTab!Idle]
  BY DEF OneTab!Answered, OneTab!counters
<1>2. outages \in Nat /\ outages' \in 0 .. MaxFaults /\ outages <= outages'
  BY <1>1 DEF OneTabInv, OneTabTypes
<1>3. /\ OneTab!Idle \in TabCall \cup {OneTab!Idle}
      /\ OneTab!Idle.step = "idle"
  BY DEF OneTab!Idle
<1> QED
  BY <1>1, <1>2, <1>3, CallTakes

LEMMA OneTabExpire ==
  ASSUME OneTabInv, NEW k \in OneTab!Logins, OneTab!Expire(k)
  PROVE  OneTabInv'
<1>1. /\ UNCHANGED <<stored, tab, request, outages>> /\ dead' = dead \cup {k}
  BY DEF OneTab!Expire, OneTab!counters
<1>2. CallsFollow'
  <2> SUFFICES ASSUME NEW d \in Requests, request'[d].step # "idle"
               PROVE  CallFollows(d)'
    BY DEF CallsFollow
  <2>1. CallFollows(d)
    BY <1>1 DEF OneTabInv, CallsFollow
  <2> QED
    BY <1>1, <2>1 DEF CallFollows, Follows, OneTab!Accepted
<1> QED
  BY <1>1, <1>2 DEF OneTabInv, OneTabTypes, ReturnsWithState

LEMMA OneTabStays ==
  ASSUME OneTabInv, UNCHANGED <<stored, tab, request, outages, dead>>
  PROVE  OneTabInv'
BY DEF OneTabInv, OneTabTypes, ReturnsWithState, CallsFollow, CallFollows, Follows,
   OneTab!Accepted

LEMMA OneTabStep ==
  ASSUME OneTab!HostedSessionAssumption, MaxFaults < MaxTries, OneTabInv,
         OneTab!Next
  PROVE  OneTabInv' /\ OneTab!KeepsValidToken
<1>2. ASSUME OneTab!SignOut(Tab)
      PROVE  OneTabInv' /\ OneTab!KeepsValidToken
  <2>1. OneTab!Page(Tab) = "client" /\ tab'[Tab].page = "panel"
    <3>1. tab[Tab] \in OneTab!TabRow /\ tab = [x \in {Tab} |-> tab[x]]
      BY DEF OneTabInv, OneTabTypes
    <3> QED
      BY <1>2, <3>1 DEF OneTab!SignOut, OneTab!TabRow
  <2>2. OneTabInv'
    BY <1>2, OneTabGoesOn
  <2> QED
    BY <2>1, <2>2 DEF OneTab!KeepsValidToken
<1>3. ASSUME stored' = stored, OneTabInv'
      PROVE  OneTabInv' /\ OneTab!KeepsValidToken
  BY <1>3 DEF OneTab!KeepsValidToken
<1>4. ASSUME \/ OneTab!Open(Tab) \/ OneTab!ChooseAuth(Tab)
             \/ OneTab!Provisioned(Tab) \/ OneTab!RegisterAndClose(Tab)
      PROVE  OneTabInv' /\ OneTab!KeepsValidToken
  BY <1>3, <1>4, OneTabGoesOn DEF OneTab!Open, OneTab!ChooseAuth,
     OneTab!Provisioned, OneTab!RegisterAndClose
<1>5. ASSUME OneTab!Unload(Tab)
      PROVE  OneTabInv' /\ OneTab!KeepsValidToken
  BY <1>3, <1>5, OneTabUnload DEF OneTab!Unload
<1>6. ASSUME OneTab!AuthReturn(Tab, Tab)
      PROVE  OneTabInv' /\ OneTab!KeepsValidToken
  BY <1>3, <1>6, OneTabReturns DEF OneTab!AuthReturn
<1>7. ASSUME OneTab!Callback(Tab)
      PROVE  OneTabInv' /\ OneTab!KeepsValidToken
  BY <1>7, OneTabCallback DEF OneTab!KeepsValidToken
<1>8. ASSUME NEW c \in Requests, OneTab!Request(Tab, c)
      PROVE  OneTabInv' /\ OneTab!KeepsValidToken
  BY <1>3, <1>8, OneTabRequest DEF OneTab!Request
<1>9. ASSUME NEW c \in Requests, OneTab!Validate(c)
      PROVE  OneTabInv' /\ OneTab!KeepsValidToken
  BY <1>3, <1>9, OneTabValidate DEF OneTab!Validate
<1>10. ASSUME NEW c \in Requests, OneTab!Answered(c)
       PROVE  OneTabInv' /\ OneTab!KeepsValidToken
  BY <1>3, <1>10, OneTabAnswered DEF OneTab!Answered
<1>11. ASSUME NEW c \in Requests, OneTab!Unauthorized(c)
       PROVE  OneTabInv' /\ OneTab!KeepsValidToken
  BY <1>11, OneTabUnauthorized DEF OneTab!KeepsValidToken
<1>12. ASSUME NEW k \in OneTab!Logins, OneTab!Expire(k)
       PROVE  OneTabInv' /\ OneTab!KeepsValidToken
  BY <1>3, <1>12, OneTabExpire DEF OneTab!Expire
<1>13. ASSUME NEW k \in OneTab!Logins, OneTab!RecordClick(k)
       PROVE  OneTabInv' /\ OneTab!KeepsValidToken
  BY <1>3, <1>13, OneTabStays DEF OneTab!RecordClick, OneTab!counters
<1> QED
  BY <1>2, <1>4, <1>5, <1>6, <1>7, <1>8, <1>9, <1>10, <1>11, <1>12, <1>13
     DEF OneTab!Next

LEMMA OneTabInit ==
  OneTab!HostedSessionAssumption /\ OneTab!Init => OneTabInv
<1> SUFFICES ASSUME OneTab!HostedSessionAssumption, OneTab!Init
             PROVE  OneTabInv
  OBVIOUS
<1>1. 0 \in OneTab!Tokens /\ 0 \in 0 .. MaxFaults
  BY NoToken DEF OneTab!HostedSessionAssumption
<1>2. tab \in [{Tab} -> OneTab!TabRow] /\ tab[Tab].page = "closed"
  BY <1>1 DEF OneTab!Init, OneTab!TabRow, OneTab!Pages
<1>3. /\ request \in [Requests -> TabCall \cup {OneTab!Idle}]
      /\ \A c \in Requests : request[c].step = "idle"
  BY DEF OneTab!Init, OneTab!Idle
<1> QED
  BY <1>1, <1>2, <1>3 DEF OneTab!Init, OneTabInv, OneTabTypes,
     ReturnsWithState, CallsFollow

\* While fewer calls to Auth fail than one validation may make, a token that
\* Auth accepts stays in the only tab until the user signs out or logs in again
\* (request removes the token on a 401, validateToken calls a token invalid
\* when its tries are used up), for any number of requests and logins.
THEOREM ValidTokenStays ==
  ASSUME MaxFaults < MaxTries
  PROVE  ClientSpec => ValidTokenKept
<1> DEFINE Inv == setting = "oneTab" => OneTabInv
<1>0. OneTab!HostedSessionAssumption
  BY Parameters
<1>1. ClientInit => Inv
  BY <1>0, OneTabInit DEF ClientInit
<1>2. Inv /\ [ClientNext]_ClientVars =>
        Inv' /\ [setting = "oneTab" => OneTab!KeepsValidToken]_ClientVars
  <2> SUFFICES ASSUME Inv, [ClientNext]_ClientVars
               PROVE  Inv' /\ [setting = "oneTab" => OneTab!KeepsValidToken]_ClientVars
    OBVIOUS
  <2>1. CASE UNCHANGED ClientVars
    <3>1. UNCHANGED <<setting, tab, stored, request, outages, dead>>
      BY <2>1 DEF ClientVars, SessionVars
    <3>2. OneTabInv => OneTabInv'
      BY <3>1, OneTabStays
    <3> QED
      BY <2>1, <3>1, <3>2
  <2>2. CASE ClientNext
    BY <1>0, <2>2, OneTabStep DEF ClientNext
  <2> QED
    BY <2>1, <2>2
<1> QED
  BY <1>1, <1>2, PTL DEF ClientSpec, ValidTokenKept

-----------------------------------------------------------------------------
(***************************************************************************)
(* The types of every setting.                                             *)
(***************************************************************************)
TypedInv ==
  /\ setting = "page" => ViewInv
  /\ setting = "tabs" => BothSessions!SessionInv
  /\ setting = "oneTab" => OneSession!SessionInv
  /\ setting \in {"overlap", "serial"} => CatalogInv
  /\ setting = "overlap" => made \in 0 .. 4
  /\ setting = "serial" => made \in 0 .. MaxCalls

LEMMA TypedStart == ClientInit => TypedInv
<1> SUFFICES ASSUME ClientInit PROVE TypedInv
  OBVIOUS
<1>1. CASE setting = "page" /\ Client!Init
  BY <1>1, Parameters, ViewInit DEF TypedInv
<1>2. CASE setting = "tabs" /\ BothTabs!Init
  BY <1>2, TabsInit DEF TypedInv
<1>3. CASE setting = "oneTab" /\ OneTab!Init
  BY <1>3, OneSessionInit DEF TypedInv
<1>4. CASE setting \in {"overlap", "serial"} /\ (Init \/ Overlap!Init)
  <2>1. CatalogInv /\ made = 0 /\ MaxCalls \in Nat
    BY <1>4, Parameters, CatalogStarts DEF CatalogPageAssumption
  <2> QED
    BY <1>4, <2>1 DEF TypedInv
<1> QED
  BY <1>1, <1>2, <1>3, <1>4 DEF ClientInit

LEMMA TypedStep == TypedInv /\ [ClientNext]_ClientVars => TypedInv'
<1> SUFFICES ASSUME TypedInv, [ClientNext]_ClientVars PROVE TypedInv'
  OBVIOUS
<1>1. setting' = setting
  BY DEF ClientNext, ClientVars
<1>2. CASE setting = "page"
  <2>1. [Client!Next]_(Client!vars)
    BY <1>2 DEF ClientNext, ClientVars, PageVars, Client!vars, Client!flags
  <2> QED
    BY <1>1, <1>2, <2>1, Parameters, ViewStep DEF TypedInv
<1>3. CASE setting = "tabs"
  <2>1. [BothTabs!Next]_(BothTabs!vars)
    BY <1>3 DEF ClientNext, ClientVars, SessionVars, BothTabs!vars,
       BothTabs!growth, BothTabs!counters
  <2> QED
    BY <1>1, <1>3, <2>1, TabsStep DEF TypedInv
<1>4. CASE setting = "oneTab"
  <2>1. [OneTab!Next]_(OneTab!vars)
    BY <1>4 DEF ClientNext, ClientVars, SessionVars, OneTab!vars,
       OneTab!growth, OneTab!counters
  <2> QED
    BY <1>1, <1>4, <2>1, OneSessionStep DEF TypedInv
<1>5. CASE setting = "overlap"
  <2>1. [Overlap!Next]_vars
    BY <1>5 DEF ClientNext, ClientVars
  <2> QED
    BY <1>1, <1>5, <2>1, Parameters, CatalogStep, CallsCounted DEF TypedInv
<1>6. CASE setting = "serial"
  <2>1. [Next]_vars
    BY <1>6 DEF ClientNext, ClientVars
  <2> QED
    BY <1>1, <1>6, <2>1, Parameters, CatalogStep, CallsCounted DEF TypedInv
<1> QED
  BY <1>1, <1>2, <1>3, <1>4, <1>5, <1>6 DEF TypedInv

\* The page, the session and the catalog view keep their types, however many
\* tabs, calls, products and attempts there are: each slot, call and tab holds
\* a state the code can be in, and an answer tells of a draft that is there or
\* of an ad that was queued.
THEOREM ClientTypesCorrect == ClientSpec => []ClientTypeOK
<1>1. TypedInv => ClientTypeOK
  <2> SUFFICES ASSUME TypedInv PROVE ClientTypeOK
    OBVIOUS
  <2>1. setting = "page" => Client!TypeOK
    BY DEF TypedInv, ViewInv
  <2>2. setting = "tabs" => BothTabs!TypeOK
    BY TabsSame DEF TypedInv, BothSessions!SessionInv
  <2>3. setting = "oneTab" => OneTab!TypeOK
    BY OneTabSame DEF TypedInv, OneSession!SessionInv
  <2>4. setting = "overlap" => Overlap!TypeOK
    BY CatalogTypes DEF TypedInv
  <2>5. setting = "serial" => TypeOK
    BY CatalogTypes DEF TypedInv
  <2> QED
    BY <2>1, <2>2, <2>3, <2>4, <2>5 DEF ClientTypeOK
<1> QED
  BY <1>1, TypedStart, TypedStep, PTL DEF ClientSpec
=============================================================================

---------------------------- MODULE CatalogPage ----------------------------
(***************************************************************************)
(* The catalog view of /client: search, select, form a draft, preview,     *)
(* confirm.  The page keeps variables that handlers set around awaits and  *)
(* a document that only draw replaces; the two may disagree while a call   *)
(* is in flight, and every button stays enabled.  The server keeps one     *)
(* draft per product and answers whatever its gates say.                   *)
(***************************************************************************)
EXTENDS Integers, Sequences, FiniteSets

CONSTANTS
  Products,
  Lists,             \* what a product search may answer
  Calls,             \* calls in flight
  MaxInFlight,       \* bound: calls at once; 1 is no overlap
  MaxCalls,          \* bound: calls ever made
  None

\* Asked of the parameters of an instance.
CatalogPageAssumption ==
  /\ Lists \subseteq Seq(Products)
  /\ {MaxInFlight, MaxCalls} \subseteq Nat \ {0}
  /\ None \notin Products

VARIABLES
  products, selected, preview, prepared,   \* variables of renderCatalog
  searchId, previewId,
  drawn,             \* the document: list, selection, form, preview card
  call,              \* what each call in flight carries
  draft, queued,     \* the server: draft of each product, ads queued
  made

page == <<products, selected, preview, prepared>>
ids == <<searchId, previewId>>
server == <<draft, queued>>
vars == <<page, ids, drawn, call, server, made>>

Content == [of: Products, edited: BOOLEAN]
Blank == [of |-> None, edited |-> FALSE]
Contents == Content \cup {Blank}
Generation(p) == Cardinality({q \in queued : q.ad[1] = p})
AdIds == Products \X Nat
NoAd == <<>>
NoAnswer == [ad |-> NoAd, content |-> Blank, allowed |-> FALSE]
Answers == [ad: AdIds \cup {NoAd}, content: Contents, allowed: BOOLEAN]
Some == Products \cup {None}

Idle == [kind |-> "none"]
CallRow ==
  [kind: {"search", "select", "prepare", "confirm"},
   step: {"list", "preview", "sent", "served"},
   id: Nat, product: Some, content: Contents, shown: Contents,
   answer: Answers, pid: Nat]

TypeOK ==
  /\ products \in Lists \cup {<<>>} /\ selected \in Some /\ preview \in Some
  /\ prepared \in Answers
  /\ searchId \in Nat /\ previewId \in Nat
  /\ drawn \in [list: Lists \cup {<<>>}, active: Some, form: Contents,
                card: Answers, preview: Some]
  /\ call \in [Calls -> CallRow \cup {Idle}]
  /\ draft \in [Products -> Contents]
  /\ \A q \in queued : q.ad \in AdIds /\ {q.content, q.shown} \subseteq Contents
  /\ made \in 0 .. MaxCalls

Init ==
  /\ \E list \in Lists \ {<<>>} : products = list /\ selected = list[1]
  /\ preview \in {selected, None}
  /\ prepared = NoAnswer
  /\ searchId = 0 /\ previewId = 1
  /\ drawn = [list |-> products, active |-> selected, preview |-> preview,
              form |-> [of |-> selected, edited |-> FALSE], card |-> NoAnswer]
  /\ call = [c \in Calls |-> Idle]
  /\ draft = [p \in Products |-> Blank] /\ queued = {}
  /\ made = 0

-----------------------------------------------------------------------------
At(c, step) == call[c] # Idle /\ call[c].step = step
InFlight == {c \in Calls : call[c] # Idle}
End(c) == call' = [call EXCEPT ![c] = Idle]

Begin(c, kind, step, id, p, content) ==
  /\ call[c] = Idle
  /\ Cardinality(InFlight) < MaxInFlight /\ made < MaxCalls
  /\ made' = made + 1
  /\ call' = [call EXCEPT ![c] =
       [kind |-> kind, step |-> step, id |-> id, pid |-> previewId', product |-> p,
        content |-> content, shown |-> drawn.card.content, answer |-> prepared]]

\* Mutant: what is in the form stays there.
FormKept == drawn.form

\* fillForm: values come from the prepared draft, else from the selection.
FilledForm ==
  IF prepared'.ad # NoAd /\ selected' # None THEN prepared'.content
  ELSE [of |-> selected', edited |-> FALSE]

Draw == drawn' = [list |-> products', active |-> selected', preview |-> preview',
                  form |-> FilledForm, card |-> prepared']

\* loadSelectedPreview up to its await; with nothing selected it ends there.
ForgetPreview ==
  /\ preview' = None
  /\ previewId' = previewId + 1

-----------------------------------------------------------------------------
(***************************************************************************)
(* Search and selection                                                    *)
(***************************************************************************)
RunSearch(c) ==
  /\ searchId' = searchId + 1
  /\ prepared' = NoAnswer
  /\ UNCHANGED <<products, selected, preview, previewId, drawn, server>>
  /\ Begin(c, "search", "list", searchId', None, Blank)

\* loadProducts: the list and the selection are replaced before the caller
\* looks whether a newer search has begun.
ListAnswer(c) ==
  /\ At(c, "list")
  /\ \E list \in Lists :
       /\ products' = list
       /\ selected' = IF list = <<>> THEN None ELSE list[1]
       /\ ForgetPreview
       /\ UNCHANGED <<prepared, searchId, server, made>>
       /\ IF selected' = None
          THEN End(c) /\ IF call[c].id = searchId THEN Draw ELSE UNCHANGED drawn
          ELSE /\ call' = [call EXCEPT ![c].step = "preview",
                             ![c].product = selected', ![c].pid = previewId']
               /\ UNCHANGED drawn

\* A failed search leaves its message and nothing else.
ListFails(c) ==
  /\ At(c, "list")
  /\ End(c)
  /\ UNCHANGED <<page, ids, drawn, server, made>>

Clicked(k) == IF k \in DOMAIN products THEN products[k] ELSE None

\* The click handler of a product button, up to its await.
Select(c, k) ==
  /\ k \in DOMAIN drawn.list
  /\ selected' = Clicked(k)
  /\ prepared' = NoAnswer
  /\ ForgetPreview
  /\ UNCHANGED <<products, searchId, server>>
  /\ IF selected' = None
     THEN Draw /\ UNCHANGED <<call, made>>
     ELSE UNCHANGED drawn /\ Begin(c, "select", "preview", 0, selected', Blank)

\* Mutant: a late preview is shown like any other.
AlwaysLatest(c) == TRUE

LatestPreview(c) == call[c].pid = previewId

Superseded(c) == call[c].kind = "search" /\ call[c].id # searchId

\* The answer of content-preview; a failure of Catalog reads as no preview.
PreviewAnswer(c) ==
  /\ At(c, "preview")
  /\ IF LatestPreview(c) THEN preview' \in {call[c].product, None}
     ELSE UNCHANGED preview
  /\ End(c)
  /\ UNCHANGED <<products, selected, prepared, ids, server, made>>
  /\ IF Superseded(c) THEN UNCHANGED drawn ELSE Draw

-----------------------------------------------------------------------------
(***************************************************************************)
(* Draft and confirmation                                                  *)
(***************************************************************************)
EditForm ==
  /\ drawn.form.of # None
  /\ drawn' = [drawn EXCEPT !.form.edited = TRUE]
  /\ UNCHANGED <<page, ids, call, server, made>>

\* prepare: the product is the selection of now, the values are the form's.
Prepare(c) ==
  /\ selected # None /\ drawn.form.of # None
  /\ UNCHANGED <<page, ids, drawn, server>>
  /\ Begin(c, "prepare", "sent", 0, selected, drawn.form)

\* The server makes or rewrites the draft, or answers Catalog's blockers.
ServePrepare(c) ==
  LET p == call[c].product IN
  /\ At(c, "sent") /\ call[c].kind = "prepare"
  /\ \/ /\ draft' = [draft EXCEPT ![p] = call[c].content]
        /\ \E allowed \in BOOLEAN :
             call' = [call EXCEPT ![c].step = "served", ![c].answer =
               [ad |-> <<p, Generation(p)>>, content |-> call[c].content,
                allowed |-> allowed]]
     \/ /\ call' = [call EXCEPT ![c].step = "served", ![c].answer = NoAnswer]
        /\ UNCHANGED draft
  /\ UNCHANGED <<page, ids, drawn, queued, made>>

\* findDraftForProduct: both the id and the product must match.
FindDraftForProduct(p, ad) == ad[1] = p

Confirm(c) ==
  /\ drawn.card.allowed /\ selected # None /\ prepared.ad # NoAd
  /\ UNCHANGED <<page, ids, drawn, server>>
  /\ Begin(c, "confirm", "sent", 0, selected, Blank)

\* The gates may refuse; an ad queued before is answered as it is.
ServeConfirm(c) ==
  LET ad == call[c].answer.ad
      p == ad[1]
      stored == IF ad[2] = Generation(p) THEN draft[p]
                ELSE (CHOOSE q \in queued : q.ad = ad).content
  IN /\ At(c, "sent") /\ call[c].kind = "confirm"
     /\ FindDraftForProduct(call[c].product, ad)
     /\ \/ /\ ad[2] = Generation(p) /\ draft[p] # Blank
           /\ queued' = queued \cup {[ad |-> ad, content |-> draft[p],
                                      shown |-> call[c].shown,
                                      by |-> call[c].product]}
           /\ draft' = [draft EXCEPT ![p] = Blank]
        \/ UNCHANGED server
     /\ call' = [call EXCEPT ![c].step = "served",
                                  ![c].answer.content = stored,
                                  ![c].answer.allowed = FALSE]
     /\ UNCHANGED <<page, ids, drawn, made>>

Refused(c) ==
  /\ At(c, "sent")
  /\ End(c)
  /\ UNCHANGED <<page, ids, drawn, server, made>>

Answered(c) == call[c].answer

Answer(c) ==
  /\ At(c, "served")
  /\ prepared' = Answered(c)
  /\ End(c)
  /\ UNCHANGED <<products, selected, preview, ids, server, made>>
  /\ Draw

Next ==
  \/ EditForm
  \/ \E c \in Calls :
       \/ RunSearch(c) \/ ListAnswer(c) \/ ListFails(c)
       \/ \E k \in 1 .. Len(drawn.list) : Select(c, k)
       \/ PreviewAnswer(c)
       \/ Prepare(c) \/ ServePrepare(c) \/ Confirm(c) \/ ServeConfirm(c)
       \/ Refused(c) \/ Answer(c)

Spec == Init /\ [][Next]_vars
-----------------------------------------------------------------------------
(***************************************************************************)
(* Properties.                                                             *)
(***************************************************************************)

\* The canonical content shown for a product is that product's, however late
\* a preview arrives: the request id of loadSelectedPreview.
PreviewIsOfSelected == preview # None => preview = selected

\* What a confirmation sends is the draft of the card on the page: prepared is
\* only ever set together with a draw.
CardIsPrepared == prepared.ad # NoAd => drawn.card = prepared

\* An ad is queued by a confirmation for its own product, even when the answer
\* of a prepare comes after another product was selected.
QueuedForItsProduct == \A q \in queued : q.by = q.ad[1]

\* With nothing in flight the page shows the selection its handlers work on.
SettledPageIsCurrent ==
  InFlight = {} => drawn.list = products /\ drawn.active = selected

\* A draft has the title and the price of its own product: what the seller
\* saw in the form is what the draft of the selected product is made of.
DraftIsOfItsProduct == \A p \in Products : draft[p].of \in {p, None}

\* What is queued is what the preview card showed when it was confirmed.
QueuedAsShown == \A q \in queued : q.content = q.shown

\* However answers overlap, nothing of one product is shown or sent as another's.
NothingMixed == PreviewIsOfSelected /\ CardIsPrepared /\ QueuedForItsProduct

\* With one call at a time the page and the server agree on what is meant.
PageAndServerAgree ==
  SettledPageIsCurrent /\ DraftIsOfItsProduct /\ QueuedAsShown
=============================================================================

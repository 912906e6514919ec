-------------------------- MODULE AdsOnSaleProofs ---------------------------
(***************************************************************************)
(* Theorems about ads on sale, for every value of the constants.           *)
(*   listings   what is noted of a listing that is watched, with handlers  *)
(*              that overlap and lookups that fail, and while one handler  *)
(*              runs at a time                                             *)
(*   catalog    products that are taken off, with events, reconciliations  *)
(*              and restarts that overlap                                  *)
(*   evidence   what the services note of an ad, one handler at a time     *)
(***************************************************************************)
EXTENDS AdsOnSaleMC, FiniteSetTheorems, WellFoundedInduction, TLAPS

-----------------------------------------------------------------------------
(***************************************************************************)
(* The inductive invariant.  A handler acts on an answer it got earlier:   *)
(* an answer that says gone stays true while it is held, because only a    *)
(* new publication brings a listing back, and that needs a row no handler  *)
(* works on.                                                               *)
(***************************************************************************)
RowTypes ==
  /\ ad \in [Ads -> AdRow]
  /\ listing \in [Ads -> [online: BOOLEAN, content: Contents, date: Days]]
  /\ worker \in [Workers -> Locals \cup {Idle}]
  /\ prepared \in [Ads -> Contents \cup {None}]
  /\ day \in Days /\ edits \in Contents

AnswersTrue ==
  \A w \in Workers :
    Busy(w) /\ IsGone(worker[w].answer) => ~listing[worker[w].ad].online

Pcs == {"pending", "resolve", "fetch", "apply", "schedule", "disable", "count",
        "write"}

GoneInv == RowTypes /\ AnswersTrue /\ DeletedOnlyIfGone

LEMMA ParameterTypes ==
  ASSUME AvailabilityAssumption
  PROVE
  /\ MinInterval \in Nat /\ MaxInterval \in Nat /\ MaxEdits \in Nat
  /\ MaxDays \in Nat /\ Interval \subseteq 0 .. MaxInterval
BY DEF AvailabilityAssumption, Interval

LEMMA ZeroInterval ==
  ASSUME AvailabilityAssumption
  PROVE  0 \in 0 .. MaxInterval
BY ParameterTypes

LEMMA BusyLocals ==
  ASSUME RowTypes, NEW w \in Workers, Busy(w)
  PROVE  worker[w] \in Locals
BY DEF RowTypes, Busy

LEMMA PutBackType ==
  ASSUME RowTypes, NEW a \in Ads, NEW read \in AdRow
  PROVE  /\ PutBack(a, read) \in AdRow
         /\ PutBack(a, read).status = ad[a].status
BY DEF RowTypes, PutBack, AdRow

LEMMA DeletedType ==
  ASSUME RowTypes, NEW a \in Ads, NEW read \in AdRow
  PROVE  Deleted(a, read) \in AdRow
BY PutBackType DEF Deleted, AdRow

LEMMA StoreType ==
  ASSUME RowTypes, NEW a \in Ads, NEW row \in AdRow, Store(a, row)
  PROVE  /\ ad' \in [Ads -> AdRow]
         /\ ad'[a] = row
         /\ \A b \in Ads : b # a => ad'[b] = ad[b]
BY DEF RowTypes, Store

LEMMA WorkerType ==
  ASSUME RowTypes, NEW w \in Workers, NEW local \in Locals \cup {Idle},
         worker' = [worker EXCEPT ![w] = local]
  PROVE  /\ worker' \in [Workers -> Locals \cup {Idle}]
         /\ worker'[w] = local
         /\ \A v \in Workers : v # w => worker'[v] = worker[v]
BY DEF RowTypes

\* Going on at another statement changes nothing else a handler holds.
LEMMA GotoType ==
  ASSUME RowTypes, NEW w \in Workers, Busy(w), NEW pc \in Pcs, Goto(w, pc)
  PROVE  /\ worker' \in [Workers -> Locals \cup {Idle}]
         /\ Busy(w)' => /\ worker'[w].ad = worker[w].ad
                        /\ worker'[w].answer = worker[w].answer
         /\ \A v \in Workers : v # w => worker'[v] = worker[v]
<1> DEFINE local == [worker[w] EXCEPT !.pc = pc]
<1>1. worker[w] \in Locals
  BY BusyLocals
<1>2. /\ local \in Locals
      /\ local.ad = worker[w].ad /\ local.answer = worker[w].answer
  BY <1>1 DEF Locals, Pcs
<1>3. worker' = [worker EXCEPT ![w] = local]
  BY DEF Goto
<1> QED
  BY <1>2, <1>3, WorkerType

LEMMA EndType ==
  ASSUME RowTypes, NEW w \in Workers, End(w)
  PROVE  /\ worker' \in [Workers -> Locals \cup {Idle}]
         /\ ~Busy(w)'
         /\ \A v \in Workers : v # w => worker'[v] = worker[v]
BY DEF RowTypes, End, Busy

\* A write that does not make a row deleted, or makes it so when its listing is
\* gone, keeps the property while no listing comes back.
LEMMA StoreKeeps ==
  ASSUME GoneInv, UNCHANGED listing, NEW a \in Ads, NEW row \in AdRow,
         Store(a, row),
         row.status = "deleted" => ad[a].status = "deleted" \/ ~listing[a].online
  PROVE  DeletedOnlyIfGone'
BY StoreType DEF GoneInv, DeletedOnlyIfGone, RowTypes

\* A handler that goes on with the answer it has, or ends, keeps the answers true.
LEMMA AnswersKept ==
  ASSUME GoneInv, UNCHANGED listing, NEW w \in Workers,
         \A v \in Workers : v # w => worker'[v] = worker[v],
         Busy(w)' => \/ ~IsGone(worker'[w].answer)
                     \/ /\ Busy(w) /\ worker'[w].ad = worker[w].ad
                        /\ worker'[w].answer = worker[w].answer
  PROVE  AnswersTrue'
BY DEF GoneInv, AnswersTrue, Busy, IsGone

-----------------------------------------------------------------------------
(***************************************************************************)
(* The actions.                                                            *)
(***************************************************************************)
LEMMA BeginKeeps ==
  ASSUME AvailabilityAssumption, GoneInv, NEW w \in Workers, NEW job \in Jobs, NEW a \in Ads,
         NEW pc \in Pcs, Begin(w, job, pc, a),
         UNCHANGED <<ad, listing, day, edits, prepared>>
  PROVE  GoneInv'
<1>1. PICK slot \in Interval :
        worker' = [worker EXCEPT ![w] =
          [job |-> job, ad |-> a, read |-> ad[a], slot |-> slot,
           answer |-> NoAnswer, pc |-> pc]]
  BY DEF Begin
<1>2. NoAnswer \in Answer /\ ~IsGone(NoAnswer)
  BY ParameterTypes DEF NoAnswer, Answer, IsGone, Contents, Days
<1>3. RowTypes'
  <2>1. [job |-> job, ad |-> a, read |-> ad[a], slot |-> slot,
         answer |-> NoAnswer, pc |-> pc] \in Locals
    BY <1>2, ParameterTypes DEF GoneInv, RowTypes, Locals, Pcs
  <2> QED
    BY <1>1, <2>1 DEF GoneInv, RowTypes
<1>4. AnswersTrue'
  <2>1. /\ worker'[w].answer = NoAnswer
        /\ \A v \in Workers : v # w => worker'[v] = worker[v]
    BY <1>1 DEF GoneInv, RowTypes
  <2> QED
    BY <1>2, <2>1, AnswersKept
<1>5. DeletedOnlyIfGone'
  BY DEF GoneInv, DeletedOnlyIfGone
<1> QED
  BY <1>3, <1>4, <1>5 DEF GoneInv

LEMMA FirstPcType ==
  ASSUME RowTypes, NEW job \in Jobs \ {"timer"}, NEW a \in Ads,
         FirstPc(job, a) # "end"
  PROVE  FirstPc(job, a) \in Pcs
BY DEF Pcs, FirstPc, ManagedPc, Jobs

LEMMA FetchKeeps ==
  ASSUME GoneInv, NEW w \in Workers, Fetch(w)
  PROVE  GoneInv'
<1> DEFINE c == worker[w]
           page == listing[c.ad]
           seen == [available |-> IF page.online THEN "yes" ELSE "no",
                    content |-> page.content, date |-> page.date]
<1>1. c \in Locals /\ Busy(w)
  BY BusyLocals DEF Fetch, GoneInv
<1>2. PICK pc \in {"resolve", "apply"} :
        \/ worker' = [worker EXCEPT ![w].answer = seen, ![w].pc = pc]
        \/ worker' = [worker EXCEPT ![w].pc = pc]
  BY DEF Fetch
<1>3. seen \in Answer /\ (IsGone(seen) => ~page.online)
  BY <1>1 DEF GoneInv, RowTypes, Locals, Answer, IsGone
<1>4. /\ worker' \in [Workers -> Locals \cup {Idle}]
      /\ \A v \in Workers : v # w => worker'[v] = worker[v]
      /\ worker'[w].ad = c.ad
      /\ worker'[w].answer \in {seen, c.answer}
  <2>1. PICK local \in {[c EXCEPT !.answer = seen, !.pc = pc],
                        [c EXCEPT !.pc = pc]} :
          worker' = [worker EXCEPT ![w] = local]
    BY <1>2
  <2>2. /\ local \in Locals /\ local.ad = c.ad
        /\ local.answer \in {seen, c.answer}
    BY <1>1, <1>3 DEF Locals
  <2> QED
    BY <2>1, <2>2, WorkerType DEF GoneInv
<1>5. UNCHANGED <<ad, listing, day, edits, prepared>>
  BY DEF Fetch, clock
<1>6. AnswersTrue'
  BY <1>1, <1>3, <1>4, <1>5 DEF GoneInv, AnswersTrue, Busy, IsGone
<1> QED
  BY <1>4, <1>5, <1>6 DEF GoneInv, RowTypes, DeletedOnlyIfGone

\* What a handler may do: write one row, and end or go on with its answer.
LEMMA HandlerKeeps ==
  ASSUME GoneInv, UNCHANGED <<listing, day>>, NEW w \in Workers,
         worker' \in [Workers -> Locals \cup {Idle}],
         \A v \in Workers : v # w => worker'[v] = worker[v],
         Busy(w)' => \/ ~IsGone(worker'[w].answer)
                     \/ /\ Busy(w) /\ worker'[w].ad = worker[w].ad
                        /\ worker'[w].answer = worker[w].answer,
         edits' \in Contents, prepared' \in [Ads -> Contents \cup {None}],
         \/ UNCHANGED ad
         \/ \E a \in Ads, row \in AdRow :
              /\ Store(a, row)
              /\ row.status = "deleted" =>
                   ad[a].status = "deleted" \/ ~listing[a].online
  PROVE  GoneInv'
<1>1. AnswersTrue'
  BY AnswersKept
<1>2. CASE UNCHANGED ad
  BY <1>1, <1>2 DEF GoneInv, RowTypes, DeletedOnlyIfGone
<1>3. ASSUME NEW a \in Ads, NEW row \in AdRow, Store(a, row),
             row.status = "deleted" =>
               ad[a].status = "deleted" \/ ~listing[a].online
      PROVE  GoneInv'
  <2>1. DeletedOnlyIfGone' /\ ad' \in [Ads -> AdRow]
    BY <1>3, StoreKeeps, StoreType DEF GoneInv
  <2> QED
    BY <1>1, <2>1 DEF GoneInv, RowTypes
<1> QED
  BY <1>2, <1>3

LEMMA ApplyKeeps ==
  ASSUME GoneInv, NEW w \in Workers,
         ApplyGone(w) \/ ApplyOnline(w) \/ ApplyUnknown(w)
  PROVE  GoneInv'
<1> DEFINE c == worker[w]
<1>1. Busy(w) /\ c \in Locals /\ RowTypes
  BY BusyLocals DEF GoneInv, ApplyGone, ApplyOnline, ApplyUnknown
<1>2. c.ad \in Ads /\ c.read \in AdRow /\ c.answer \in Answer
  BY <1>1 DEF Locals
<1>3. UNCHANGED <<listing, day, edits, prepared>>
  BY DEF ApplyGone, ApplyOnline, ApplyUnknown, clock, counters
<1>4. edits \in Contents /\ prepared \in [Ads -> Contents \cup {None}]
  BY <1>1 DEF RowTypes
<1>5. CASE ApplyGone(w)
  <2>1. IsGone(c.answer) /\ Goto(w, "count") /\ Store(c.ad, Deleted(c.ad, c.read))
    BY <1>5 DEF ApplyGone
  <2>2. ~listing[c.ad].online
    BY <1>1, <2>1 DEF GoneInv, AnswersTrue
  <2>3. Deleted(c.ad, c.read) \in AdRow
    BY <1>1, <1>2, DeletedType
  <2> QED
    BY <1>1, <1>2, <1>3, <1>4, <2>1, <2>2, <2>3, GotoType, HandlerKeeps DEF Pcs
<1>6. CASE ApplyUnknown(w)
  <2>1. UNCHANGED ad /\ \E pc \in Pcs : Goto(w, pc)
    BY <1>6 DEF ApplyUnknown, Pcs
  <2> QED
    BY <1>1, <1>3, <1>4, <2>1, GotoType, HandlerKeeps
<1>7. CASE ApplyOnline(w)
  <2> DEFINE row == [PutBack(c.ad, c.read) EXCEPT
                       !.content = IF c.answer.content # c.read.content
                                   THEN c.answer.content ELSE @]
  <2>1. PICK pc \in Pcs : worker' = [worker EXCEPT ![w].read = row, ![w].pc = pc]
    BY <1>7 DEF ApplyOnline, Pcs
  <2> DEFINE local == [c EXCEPT !.read = row, !.pc = pc]
  <2>2. /\ PutBack(c.ad, c.read) \in AdRow
        /\ PutBack(c.ad, c.read).status = ad[c.ad].status
    BY <1>1, <1>2, PutBackType
  <2>3. row \in AdRow /\ row.status = ad[c.ad].status
    BY <1>2, <2>2 DEF AdRow, Answer
  <2>4. /\ local \in Locals
        /\ local.ad = c.ad /\ local.answer = c.answer
    BY <1>1, <2>3 DEF Locals, Pcs
  <2>5. worker' = [worker EXCEPT ![w] = local]
    BY <2>1
  <2>6. Store(c.ad, row)
    BY <1>7 DEF ApplyOnline
  <2> HIDE DEF row, local
  <2>7. /\ worker' \in [Workers -> Locals \cup {Idle}]
        /\ worker'[w].ad = c.ad /\ worker'[w].answer = c.answer
        /\ \A v \in Workers : v # w => worker'[v] = worker[v]
    BY <1>1, <2>4, <2>5, WorkerType
  <2> QED
    BY <1>1, <1>2, <1>3, <1>4, <2>3, <2>6, <2>7, HandlerKeeps
<1> QED
  BY <1>5, <1>6, <1>7

LEMMA ResolveKeeps ==
  ASSUME AvailabilityAssumption, GoneInv, NEW w \in Workers, ResolvePending(w)
  PROVE  GoneInv'
<1> DEFINE c == worker[w]
           a == c.ad
           row == IF IsGone(c.answer) THEN Deleted(a, c.read)
                  ELSE [PutBack(a, c.read) EXCEPT !.pending = None]
<1>1. Busy(w) /\ c \in Locals /\ RowTypes
  BY BusyLocals DEF GoneInv, ResolvePending
<1>2. a \in Ads /\ c.read \in AdRow
  BY <1>1 DEF Locals
<1>3. /\ UNCHANGED <<listing, day, edits, prepared>>
      /\ edits \in Contents /\ prepared \in [Ads -> Contents \cup {None}]
  BY <1>1 DEF ResolvePending, clock, counters, RowTypes
<1>4. /\ row \in AdRow
      /\ row.status = "deleted" => ad[a].status = "deleted" \/ ~listing[a].online
  <2>1. CASE IsGone(c.answer)
    <3>1. ~listing[a].online
      BY <1>1, <2>1 DEF GoneInv, AnswersTrue
    <3> QED
      BY <1>1, <1>2, <2>1, <3>1, DeletedType
  <2>2. CASE ~IsGone(c.answer)
    <3>1. /\ PutBack(a, c.read) \in AdRow
          /\ PutBack(a, c.read).status = ad[a].status
      BY <1>1, <1>2, PutBackType
    <3> QED
      BY <2>2, <3>1 DEF AdRow
  <2> QED
    BY <2>1, <2>2
<1>5. UNCHANGED ad \/ Store(a, row)
  BY DEF ResolvePending
<1>6. \E local \in Locals \cup {Idle} :
        /\ worker' = [worker EXCEPT ![w] = local]
        /\ local # Idle => local.answer = NoAnswer
  <2>1. CASE worker' = [worker EXCEPT ![w] = Idle]
    BY <2>1
  <2>2. ASSUME NEW pc \in Pcs, NEW read \in AdRow,
               worker' = [worker EXCEPT ![w] =
                 [c EXCEPT !.pc = pc, !.answer = NoAnswer, !.read = read]]
        PROVE  \E local \in Locals \cup {Idle} :
                 /\ worker' = [worker EXCEPT ![w] = local]
                 /\ local # Idle => local.answer = NoAnswer
    <3> DEFINE local == [c EXCEPT !.pc = pc, !.answer = NoAnswer, !.read = read]
    <3>1. NoAnswer \in Answer
      BY ParameterTypes DEF NoAnswer, Answer, Contents, Days
    <3>2. local \in Locals /\ local.answer = NoAnswer
      BY <1>1, <3>1, <2>2 DEF Locals, Pcs
    <3> QED
      BY <2>2, <3>2
  <2>3. \A r : ManagedPc(a, r) # "end" => ManagedPc(a, r) \in Pcs
    BY DEF ManagedPc, Pcs
  <2>4. \/ worker' = [worker EXCEPT ![w] = Idle]
        \/ \E pc \in Pcs, read \in AdRow :
             worker' = [worker EXCEPT ![w] =
               [c EXCEPT !.pc = pc, !.answer = NoAnswer, !.read = read]]
    BY <1>2, <1>4, <2>3, Zenon DEF ResolvePending
  <2> QED
    BY <2>1, <2>2, <2>4
<1>7. PICK local \in Locals \cup {Idle} :
        /\ worker' = [worker EXCEPT ![w] = local]
        /\ local # Idle => local.answer = NoAnswer
  BY <1>6
<1>8. /\ worker' \in [Workers -> Locals \cup {Idle}]
      /\ worker'[w] = local
      /\ \A v \in Workers : v # w => worker'[v] = worker[v]
  BY <1>1, <1>7, WorkerType
<1>9. ~IsGone(NoAnswer)
  BY DEF IsGone, NoAnswer
<1>10. Busy(w)' => ~IsGone(worker'[w].answer)
  BY <1>7, <1>8, <1>9 DEF Busy
<1> HIDE DEF row
<1> QED
  BY <1>2, <1>3, <1>4, <1>5, <1>8, <1>10, HandlerKeeps

LEMMA GoesOn ==
  ASSUME RowTypes, NEW w \in Workers, Busy(w),
         End(w) \/ \E pc \in Pcs : Goto(w, pc)
  PROVE  /\ worker' \in [Workers -> Locals \cup {Idle}]
         /\ Busy(w)' => /\ worker'[w].ad = worker[w].ad
                        /\ worker'[w].answer = worker[w].answer
         /\ \A v \in Workers : v # w => worker'[v] = worker[v]
BY GotoType, EndType

\* The statements that write lastPolicyCheck, the next check or the content.
LEMMA WriteKeeps ==
  ASSUME AvailabilityAssumption, GoneInv, NEW w \in Workers,
         \/ Schedule(w) \/ DisableCheck(w) \/ UpdateDraft(w)
         \/ ManageOpened(w) \/ EvaluatePublishPolicy(w)
  PROVE  GoneInv'
<1> DEFINE c == worker[w]
           back == PutBack(c.ad, c.read)
<1>1. Busy(w) /\ c \in Locals /\ RowTypes
  BY BusyLocals DEF GoneInv, Schedule, DisableCheck, UpdateDraft, ManageOpened,
     EvaluatePublishPolicy
<1>2. /\ c.ad \in Ads /\ c.read \in AdRow /\ c.slot \in 0 .. MaxInterval
      /\ ad[c.ad] \in AdRow
  BY <1>1 DEF Locals, RowTypes
<1>3. back \in AdRow /\ back.status = ad[c.ad].status
  BY <1>1, <1>2, PutBackType
<1>4. UNCHANGED <<listing, day>>
  BY DEF Schedule, DisableCheck, UpdateDraft, ManageOpened,
     EvaluatePublishPolicy, clock
<1>5. edits' \in Contents /\ prepared' \in [Ads -> Contents \cup {None}]
  <2>1. CASE UpdateDraft(w)
    <3>1. edits' \in Contents
      BY <1>1, <2>1, ParameterTypes DEF UpdateDraft, RowTypes, Contents
    <3> QED
      BY <1>1, <1>2, <2>1, <3>1 DEF UpdateDraft, RowTypes
  <2>2. CASE UNCHANGED <<edits, prepared>>
    BY <1>1, <2>2 DEF RowTypes
  <2> QED
    BY <2>1, <2>2 DEF Schedule, DisableCheck, ManageOpened,
       EvaluatePublishPolicy, counters
<1>6. End(w) \/ \E pc \in Pcs : Goto(w, pc)
  BY DEF Schedule, AfterSchedule, DisableCheck, UpdateDraft, ManageOpened,
     EvaluatePublishPolicy, Pcs
<1>7. \E row \in AdRow : Store(c.ad, row) /\ row.status = ad[c.ad].status
  <2>1. CASE Schedule(w)
    <3> DEFINE row == IF c.read.enabled THEN [back EXCEPT !.next = c.slot]
                      ELSE back
    <3>1. row \in AdRow /\ row.status = ad[c.ad].status
      BY <1>2, <1>3 DEF AdRow
    <3> QED
      BY <2>1, <3>1 DEF Schedule
  <2>2. CASE DisableCheck(w)
    <3> DEFINE row == [back EXCEPT !.enabled = FALSE]
    <3>1. row \in AdRow /\ row.status = ad[c.ad].status
      BY <1>3 DEF AdRow
    <3> QED
      BY <2>2, <3>1 DEF DisableCheck
  <2>3. CASE UpdateDraft(w)
    <3> DEFINE row == [back EXCEPT !.content = edits', !.pending = day]
    <3>1. row \in AdRow /\ row.status = ad[c.ad].status
      BY <1>1, <1>3, <1>5 DEF AdRow, RowTypes
    <3> QED
      BY <2>3, <3>1 DEF UpdateDraft
  <2>4. CASE ManageOpened(w)
    <3> DEFINE row == [back EXCEPT !.enabled = TRUE, !.next = c.slot]
    <3>1. row \in AdRow /\ row.status = ad[c.ad].status
      BY <1>2, <1>3 DEF AdRow
    <3> QED
      BY <2>4, <3>1 DEF ManageOpened
  <2>5. CASE EvaluatePublishPolicy(w)
    <3> DEFINE row == [ad[c.ad] EXCEPT !.pending = None, !.enabled = FALSE,
                                       !.next = 0]
    <3>1. row \in AdRow /\ row.status = ad[c.ad].status
      BY <1>2, ZeroInterval DEF AdRow
    <3> QED
      BY <2>5, <3>1 DEF EvaluatePublishPolicy
  <2> QED
    BY <2>1, <2>2, <2>3, <2>4, <2>5
<1> HIDE DEF back
<1> QED
  BY <1>1, <1>2, <1>4, <1>5, <1>6, <1>7, GoesOn, HandlerKeeps

\* The recount and a statement that throws leave the rows as they are.
LEMMA EndKeeps ==
  ASSUME GoneInv, NEW w \in Workers, Recount(w) \/ Throw(w)
  PROVE  GoneInv'
<1>1. Busy(w) /\ RowTypes /\ End(w)
  BY DEF GoneInv, Recount, Throw
<1>2. UNCHANGED <<ad, listing, day, edits, prepared>>
  BY DEF Recount, Throw, clock, counters
<1>3. edits \in Contents /\ prepared \in [Ads -> Contents \cup {None}]
  BY <1>1 DEF RowTypes
<1> QED
  BY <1>1, <1>2, <1>3, GoesOn, HandlerKeeps

\* Bazos removes a listing, or a human edits one that is there.
LEMMA ListingKeeps ==
  ASSUME AvailabilityAssumption, GoneInv, NEW a \in Ads,
         ListingRemoved(a) \/ ListingEdited(a)
  PROVE  GoneInv'
<1>1. RowTypes /\ UNCHANGED <<ad, worker, day>>
  BY DEF GoneInv, ListingRemoved, ListingEdited, clock
<1>2. /\ listing' \in [Ads -> [online: BOOLEAN, content: Contents, date: Days]]
      /\ edits' \in Contents
      /\ prepared' \in [Ads -> Contents \cup {None}]
      /\ \A b \in Ads : listing'[b].online => listing[b].online
  <2>1. CASE ListingRemoved(a)
    BY <1>1, <2>1 DEF ListingRemoved, RowTypes, counters
  <2>2. CASE ListingEdited(a)
    <3>1. edits' \in Contents
      BY <1>1, <2>2, ParameterTypes DEF ListingEdited, RowTypes, Contents
    <3>2. PICK content \in Contents :
            listing' = [listing EXCEPT ![a].content = content, ![a].date = day]
      BY <1>1, <2>2, <3>1 DEF ListingEdited, RowTypes
    <3> QED
      BY <1>1, <2>2, <3>1, <3>2 DEF ListingEdited, RowTypes
  <2> QED
    BY <2>1, <2>2
<1>3. AnswersTrue'
  <2> SUFFICES ASSUME NEW w \in Workers, Busy(w), IsGone(worker[w].answer)
               PROVE  ~listing'[worker[w].ad].online
    BY <1>1 DEF AnswersTrue, Busy, IsGone
  <2>1. worker[w].ad \in Ads
    BY <1>1, BusyLocals DEF Locals
  <2> QED
    BY <1>2, <2>1 DEF GoneInv, AnswersTrue
<1> QED
  BY <1>1, <1>2, <1>3 DEF GoneInv, RowTypes, DeletedOnlyIfGone

\* Only a row that no handler works on is published anew.
LEMMA RepublishedKeeps ==
  ASSUME AvailabilityAssumption, GoneInv, NEW a \in Ads, Republished(a)
  PROVE  GoneInv'
<1> DEFINE row == [ad[a] EXCEPT !.status = "published", !.active = TRUE,
                                !.pending = None, !.enabled = FALSE, !.next = 0]
<1>1. RowTypes /\ UNCHANGED <<worker, day, edits>> /\ Store(a, row)
  BY DEF GoneInv, Republished
<1>2. row \in AdRow /\ row.status = "published"
  <2>1. ad[a] \in AdRow
    BY <1>1 DEF RowTypes
  <2> QED
    BY <2>1, ZeroInterval DEF AdRow
<1>3. /\ listing' \in [Ads -> [online: BOOLEAN, content: Contents, date: Days]]
      /\ \A b \in Ads : b # a => listing'[b] = listing[b]
  BY <1>1 DEF Republished, RowTypes, AdRow
<1>4. prepared' \in [Ads -> Contents \cup {None}]
  BY <1>1 DEF Republished, RowTypes
<1> HIDE DEF row
<1>5. /\ ad' \in [Ads -> AdRow] /\ ad'[a].status = "published"
      /\ \A b \in Ads : b # a => ad'[b] = ad[b]
  BY <1>1, <1>2, StoreType
<1>6. AnswersTrue'
  <2> SUFFICES ASSUME NEW w \in Workers, Busy(w), IsGone(worker[w].answer)
               PROVE  ~listing'[worker[w].ad].online
    BY <1>1 DEF AnswersTrue, Busy, IsGone
  <2>1. worker[w].ad \in Ads /\ worker[w].ad # a
    BY <1>1, BusyLocals DEF Locals, Republished
  <2> QED
    BY <1>3, <2>1 DEF GoneInv, AnswersTrue
<1>7. DeletedOnlyIfGone'
  BY <1>3, <1>5 DEF GoneInv, DeletedOnlyIfGone
<1> QED
  BY <1>1, <1>3, <1>4, <1>5, <1>6, <1>7 DEF GoneInv, RowTypes

\* Time passes.
LEMMA TickKeeps ==
  ASSUME AvailabilityAssumption, GoneInv, Tick
  PROVE  GoneInv'
<1>1. RowTypes /\ UNCHANGED <<listing, day, edits, prepared>>
  BY DEF GoneInv, Tick, counters
<1>2. \A n \in 0 .. MaxInterval : Down(n) \in 0 .. MaxInterval
  BY ParameterTypes DEF Down
<1>3. /\ ad' \in [Ads -> AdRow]
      /\ \A a \in Ads : ad'[a].status = ad[a].status
  <2>1. ASSUME NEW a \in Ads
        PROVE  /\ [ad[a] EXCEPT !.next = Down(@)] \in AdRow
               /\ [ad[a] EXCEPT !.next = Down(@)].status = ad[a].status
    BY <1>1, <1>2 DEF RowTypes, AdRow
  <2> QED
    BY <2>1 DEF Tick
<1>4. /\ worker' \in [Workers -> Locals \cup {Idle}]
      /\ \A w \in Workers : /\ Busy(w)' => Busy(w)
                            /\ Busy(w) => /\ worker'[w].ad = worker[w].ad
                                          /\ worker'[w].answer = worker[w].answer
  <2> SUFFICES ASSUME NEW w \in Workers
               PROVE  /\ worker'[w] \in Locals \cup {Idle}
                      /\ Busy(w)' => Busy(w)
                      /\ Busy(w) => /\ worker'[w].ad = worker[w].ad
                                    /\ worker'[w].answer = worker[w].answer
    BY DEF Tick
  <2>1. CASE Busy(w)
    <3> DEFINE local == [worker[w] EXCEPT !.read.next = Down(@), !.slot = Down(@)]
    <3>1. worker[w] \in Locals
      BY <1>1, <2>1, BusyLocals
    <3>2. /\ worker[w].read \in AdRow /\ worker[w].slot \in 0 .. MaxInterval
          /\ worker[w].read.next \in 0 .. MaxInterval
      BY <3>1 DEF Locals, AdRow
    <3>3. [worker[w].read EXCEPT !.next = Down(@)] \in AdRow
      BY <1>2, <3>2 DEF AdRow
    <3>4. /\ local \in Locals
          /\ local.ad = worker[w].ad /\ local.answer = worker[w].answer
      BY <1>2, <3>1, <3>2, <3>3 DEF Locals
    <3>5. worker'[w] = local
      BY <2>1 DEF Tick
    <3> QED
      BY <2>1, <3>4, <3>5
  <2>2. CASE ~Busy(w)
    BY <2>2 DEF Tick, Busy
  <2> QED
    BY <2>1, <2>2
<1>5. AnswersTrue'
  BY <1>1, <1>4 DEF GoneInv, AnswersTrue, IsGone
<1>6. DeletedOnlyIfGone'
  BY <1>1, <1>3 DEF GoneInv, DeletedOnlyIfGone
<1> QED
  BY <1>1, <1>3, <1>4, <1>5, <1>6 DEF GoneInv, RowTypes

LEMMA NextKeeps ==
  ASSUME AvailabilityAssumption, GoneInv, [Next]_vars
  PROVE  GoneInv'
<1>1. ASSUME NEW a \in Ads, TimerChecks(a) PROVE GoneInv'
  <2>1. /\ Begin("timer", "timer", "fetch", a)
        /\ UNCHANGED <<ad, listing, day, edits, prepared>>
    BY <1>1 DEF TimerChecks, counters
  <2> QED
    BY <2>1, BeginKeeps DEF Workers, Jobs, Pcs
<1>2. ASSUME NEW w \in Requests, NEW job \in Jobs \ {"timer"}, NEW a \in Ads,
             StartRequest(w, job, a)
      PROVE  GoneInv'
  <2>1. /\ FirstPc(job, a) # "end" /\ Begin(w, job, FirstPc(job, a), a)
        /\ UNCHANGED <<ad, listing, day, edits, prepared>>
    BY <1>2 DEF StartRequest, clock
  <2>2. FirstPc(job, a) \in Pcs /\ w \in Workers
    BY <2>1, FirstPcType DEF GoneInv, Workers
  <2> QED
    BY <2>1, <2>2, BeginKeeps
<1>3. ASSUME NEW w \in Workers, Handle(w) \/ Throw(w) PROVE GoneInv'
  BY <1>3, FetchKeeps, ResolveKeeps, ApplyKeeps, WriteKeeps, EndKeeps DEF Handle
<1>4. ASSUME NEW a \in Ads,
             ListingRemoved(a) \/ ListingEdited(a) \/ Republished(a)
      PROVE  GoneInv'
  BY <1>4, ListingKeeps, RepublishedKeeps
<1>5. CASE NextDay
  <2>1. day' \in Days /\ UNCHANGED <<ad, listing, worker, edits, prepared>>
    BY <1>5, ParameterTypes DEF GoneInv, RowTypes, NextDay, Days, counters
  <2> QED
    BY <2>1 DEF GoneInv, RowTypes, AnswersTrue, DeletedOnlyIfGone, Busy, IsGone
<1>6. CASE UNCHANGED vars
  BY <1>6 DEF vars, clock, counters, GoneInv, RowTypes, AnswersTrue,
     DeletedOnlyIfGone, Busy, IsGone
<1> QED
  BY <1>1, <1>2, <1>3, <1>4, <1>5, <1>6, TickKeeps DEF Next, TimerTick

LEMMA InitGone ==
  ASSUME AvailabilityAssumption, Init
  PROVE  GoneInv
<1>1. RowTypes
  BY ParameterTypes DEF Init, RowTypes, AdRow, Contents, Days
<1> QED
  BY <1>1 DEF Init, GoneInv, AnswersTrue, DeletedOnlyIfGone, Busy

-----------------------------------------------------------------------------
\* An ad is only marked deleted when its listing is gone, for any number of
\* ads, requests, failing lookups and thrown statements: markDeletedOnBazos
\* acts on an answer that stays true while it is held.
THEOREM DeletedIsGone ==
  ASSUME AvailabilityAssumption
  PROVE  Spec => []DeletedOnlyIfGone
<1>1. Init => GoneInv
  BY InitGone
<1>2. GoneInv /\ [Next]_vars => GoneInv'
  BY NextKeeps
<1>3. GoneInv => DeletedOnlyIfGone
  BY DEF GoneInv
<1> QED
  BY <1>1, <1>2, <1>3, PTL DEF Spec

-----------------------------------------------------------------------------
(***************************************************************************)
(* One handler at a time and no policy evaluated (the setting managed).    *)
(* What a handler read of the pending update is what is stored, so writing *)
(* it back changes nothing, and the date an answer shows is not after the  *)
(* date of the page, which only moves forward.                             *)
(***************************************************************************)
Handlers == {w \in Workers : Busy(w)}

OneRuns ==
  /\ IsFiniteSet(Handlers)
  /\ \A v, w \in Handlers : v = w

ReadsCurrent ==
  \A w \in Workers : Busy(w) =>
    worker[w].read.pending = ad[worker[w].ad].pending

NobodyEvaluates == \A w \in Workers : Busy(w) => worker[w].job # "evaluate"

DatesKnown ==
  /\ \A a \in Ads : listing[a].date <= day
  /\ \A w \in Workers : Busy(w) /\ worker[w].answer.available = "yes" =>
       worker[w].answer.date <= listing[worker[w].ad].date

CalmInv == GoneInv /\ OneRuns /\ ReadsCurrent /\ NobodyEvaluates /\ DatesKnown

\* What a handler keeps when it goes on, and what it may write.
HandlerHolds(w) ==
  /\ \A v \in Workers : v # w => worker'[v] = worker[v]
  /\ \A b \in Ads : b # worker[w].ad => ad'[b].pending = ad[b].pending
  /\ Busy(w)' =>
       /\ worker'[w].ad = worker[w].ad /\ worker'[w].job = worker[w].job
       /\ worker'[w].read.pending = ad'[worker[w].ad].pending
       /\ worker'[w].answer.available = "yes" =>
            worker'[w].answer.date <= listing[worker[w].ad].date

LEMMA CalmHandler ==
  ASSUME CalmInv, GoneInv', UNCHANGED <<listing, day>>, NEW w \in Workers,
         Busy(w), HandlerHolds(w)
  PROVE  CalmInv'
<1>1. w \in Handlers /\ Handlers = {w}
  BY DEF CalmInv, OneRuns, Handlers
<1>2. Handlers' \subseteq {w}
  BY <1>1 DEF Handlers, HandlerHolds, Busy
<1>3. OneRuns'
  <2>1. IsFiniteSet({w})
    BY FS_Singleton
  <2> QED
    BY <1>2, <2>1, FS_Subset DEF OneRuns
<1>4. \A v \in Workers : Busy(v)' => v = w
  BY <1>2 DEF Handlers
<1>5. ReadsCurrent' /\ NobodyEvaluates'
  BY <1>4 DEF HandlerHolds, CalmInv, ReadsCurrent, NobodyEvaluates
<1>6. DatesKnown'
  BY <1>4 DEF HandlerHolds, CalmInv, DatesKnown
<1> QED
  BY <1>3, <1>5, <1>6 DEF CalmInv

\* A handler that reads a row when nobody else runs.
LEMMA CalmBegin ==
  ASSUME CalmInv, GoneInv', MaxRunning = 1, NEW w \in Workers, NEW job, NEW pc,
         NEW a \in Ads, job # "evaluate", Begin(w, job, pc, a),
         UNCHANGED <<ad, listing, day>>
  PROVE  CalmInv'
<1>1. Handlers = {}
  <2>1. Running = Cardinality(Handlers) /\ Running < 1
    BY DEF Running, Handlers, Begin
  <2>2. Cardinality(Handlers) \in Nat
    BY FS_CardinalityType DEF CalmInv, OneRuns
  <2>3. Cardinality(Handlers) = 0
    BY <2>1, <2>2
  <2> QED
    BY <2>3, FS_EmptySet DEF CalmInv, OneRuns
<1>2. PICK slot \in Interval :
        worker' = [worker EXCEPT ![w] =
          [job |-> job, ad |-> a, read |-> ad[a], slot |-> slot,
           answer |-> NoAnswer, pc |-> pc]]
  BY DEF Begin
<1>3. /\ worker'[w].job = job /\ worker'[w].ad = a /\ worker'[w].read = ad[a]
      /\ worker'[w].answer = NoAnswer
      /\ \A v \in Workers : v # w => worker'[v] = worker[v]
  BY <1>2 DEF CalmInv, GoneInv, RowTypes
<1>4. \A v \in Workers : Busy(v)' => v = w
  BY <1>1, <1>3 DEF Handlers, Busy
<1>5. OneRuns'
  <2>1. Handlers' \subseteq {w} /\ IsFiniteSet({w})
    BY <1>4, FS_Singleton DEF Handlers
  <2> QED
    BY <2>1, FS_Subset DEF OneRuns
<1>6. ReadsCurrent' /\ NobodyEvaluates'
  BY <1>3, <1>4 DEF ReadsCurrent, NobodyEvaluates
<1>7. DatesKnown'
  BY <1>3, <1>4 DEF CalmInv, DatesKnown, NoAnswer
<1> QED
  BY <1>5, <1>6, <1>7 DEF CalmInv

-----------------------------------------------------------------------------
(***************************************************************************)
(* What the statements of a handler write.                                 *)
(***************************************************************************)
\* A write that puts back the pending update it read changes none.
PutsBack(w) == \A b \in Ads : ad'[b].pending = ad[b].pending

LEMMA PutBackPending ==
  ASSUME CalmInv, NEW w \in Workers, Busy(w), NEW row \in AdRow,
         Store(worker[w].ad, row), row.pending = worker[w].read.pending
  PROVE  PutsBack(w)
<1>1. worker[w].ad \in Ads
  BY BusyLocals DEF CalmInv, GoneInv, Locals
<1>2. worker[w].read.pending = ad[worker[w].ad].pending
  BY DEF CalmInv, ReadsCurrent
<1>3. /\ ad'[worker[w].ad] = row
      /\ \A b \in Ads : b # worker[w].ad => ad'[b] = ad[b]
  BY <1>1, StoreType DEF CalmInv, GoneInv
<1> QED
  BY <1>2, <1>3 DEF PutsBack

\* Going on at another statement, or ending, keeps what is held.
LEMMA HoldsOn ==
  ASSUME CalmInv, NEW w \in Workers, Busy(w),
         End(w) \/ \E pc \in Pcs : Goto(w, pc), PutsBack(w)
  PROVE  HandlerHolds(w)
<1>1. worker[w] \in Locals /\ RowTypes
  BY BusyLocals DEF CalmInv, GoneInv
<1>2. /\ worker[w].read.pending = ad[worker[w].ad].pending
      /\ worker[w].answer.available = "yes" =>
           worker[w].answer.date <= listing[worker[w].ad].date
      /\ worker[w].ad \in Ads
  BY <1>1 DEF CalmInv, ReadsCurrent, DatesKnown, Locals
<1>3. CASE End(w)
  BY <1>1, <1>3, EndType DEF HandlerHolds, PutsBack
<1>4. ASSUME NEW pc \in Pcs, Goto(w, pc) PROVE HandlerHolds(w)
  <2> DEFINE local == [worker[w] EXCEPT !.pc = pc]
  <2>1. /\ local.ad = worker[w].ad /\ local.job = worker[w].job
        /\ local.read = worker[w].read /\ local.answer = worker[w].answer
    BY <1>1 DEF Locals
  <2>2. worker' = [worker EXCEPT ![w] = local]
    BY <1>4 DEF Goto
  <2> HIDE DEF local
  <2>3. /\ worker'[w] = local
        /\ \A v \in Workers : v # w => worker'[v] = worker[v]
    BY <1>1, <2>2 DEF RowTypes
  <2> QED
    BY <1>2, <2>1, <2>3 DEF HandlerHolds, PutsBack
<1> QED
  BY <1>3, <1>4

-----------------------------------------------------------------------------
(***************************************************************************)
(* The actions.  Each keeps the invariant and takes no mark away before    *)
(* Bazos shows the update.                                                 *)
(***************************************************************************)
LEMMA CalmFetch ==
  ASSUME CalmInv, GoneInv', NEW w \in Workers, Fetch(w)
  PROVE  CalmInv' /\ KeepsPending
<1> DEFINE c == worker[w]
           page == listing[c.ad]
           seen == [available |-> IF page.online THEN "yes" ELSE "no",
                    content |-> page.content, date |-> page.date]
<1>1. c \in Locals /\ Busy(w) /\ RowTypes
  BY BusyLocals DEF Fetch, CalmInv, GoneInv
<1>2. UNCHANGED <<ad, listing, day>>
  BY DEF Fetch, clock
<1>3. PICK pc \in {"resolve", "apply"} :
        \/ worker' = [worker EXCEPT ![w].answer = seen, ![w].pc = pc]
        \/ worker' = [worker EXCEPT ![w].pc = pc]
  BY DEF Fetch
<1>4. PICK local \in {[c EXCEPT !.answer = seen, !.pc = pc],
                      [c EXCEPT !.pc = pc]} :
        worker' = [worker EXCEPT ![w] = local]
  BY <1>3
<1>5. /\ local.ad = c.ad /\ local.job = c.job /\ local.read = c.read
      /\ local.answer \in {seen, c.answer}
  BY <1>1 DEF Locals
<1>6. worker'[w] = local /\ \A v \in Workers : v # w => worker'[v] = worker[v]
  BY <1>1, <1>4 DEF RowTypes
<1>7. /\ c.read.pending = ad[c.ad].pending /\ c.ad \in Ads
      /\ c.answer.available = "yes" => c.answer.date <= page.date
  BY <1>1 DEF CalmInv, ReadsCurrent, DatesKnown, Locals
<1>8. page.date <= page.date
  BY <1>1, <1>7 DEF RowTypes, Days
<1>9. seen.date = page.date
  OBVIOUS
<1> HIDE DEF seen
<1>10. HandlerHolds(w)
  BY <1>2, <1>5, <1>6, <1>7, <1>8, <1>9 DEF HandlerHolds
<1>11. CalmInv'
  BY <1>1, <1>2, <1>10, CalmHandler
<1> QED
  BY <1>2, <1>11 DEF KeepsPending

\* Statements that put back the mark they read, and go on or end.
LEMMA CalmPutsBack ==
  ASSUME CalmInv, GoneInv', UNCHANGED <<listing, day>>, NEW w \in Workers,
         Busy(w), End(w) \/ \E pc \in Pcs : Goto(w, pc), PutsBack(w)
  PROVE  CalmInv' /\ KeepsPending
<1>1. CalmInv'
  BY HoldsOn, CalmHandler
<1> QED
  BY <1>1 DEF PutsBack, KeepsPending

LEMMA CalmApply ==
  ASSUME CalmInv, GoneInv', NEW w \in Workers,
         ApplyGone(w) \/ ApplyOnline(w) \/ ApplyUnknown(w)
  PROVE  CalmInv' /\ KeepsPending
<1> DEFINE c == worker[w]
<1>1. Busy(w) /\ c \in Locals /\ RowTypes
  BY BusyLocals DEF CalmInv, GoneInv, ApplyGone, ApplyOnline, ApplyUnknown
<1>2. /\ c.ad \in Ads /\ c.read \in AdRow /\ c.answer \in Answer
      /\ ad[c.ad] \in AdRow
  BY <1>1 DEF Locals, RowTypes
<1>3. UNCHANGED <<listing, day>>
  BY DEF ApplyGone, ApplyOnline, ApplyUnknown, clock
<1>4. CASE ApplyGone(w)
  <2>1. Goto(w, "count") /\ Store(c.ad, Deleted(c.ad, c.read))
    BY <1>4 DEF ApplyGone
  <2>2. Deleted(c.ad, c.read) \in AdRow
    BY <1>1, <1>2, DeletedType
  <2>3. Deleted(c.ad, c.read).pending = c.read.pending
    BY <1>2 DEF Deleted, PutBack, AdRow
  <2>4. PutsBack(w)
    BY <1>1, <2>1, <2>2, <2>3, PutBackPending
  <2> QED
    BY <1>1, <1>3, <2>1, <2>4, CalmPutsBack DEF Pcs
<1>5. CASE ApplyUnknown(w)
  <2>1. UNCHANGED ad /\ \E pc \in Pcs : Goto(w, pc)
    BY <1>5 DEF ApplyUnknown, Pcs
  <2> QED
    BY <1>1, <1>3, <2>1, CalmPutsBack DEF PutsBack
<1>6. CASE ApplyOnline(w)
  <2> DEFINE row == [PutBack(c.ad, c.read) EXCEPT
                       !.content = IF c.answer.content # c.read.content
                                   THEN c.answer.content ELSE @]
  <2>1. PICK pc \in Pcs : worker' = [worker EXCEPT ![w].read = row, ![w].pc = pc]
    BY <1>6 DEF ApplyOnline, Pcs
  <2> DEFINE local == [c EXCEPT !.read = row, !.pc = pc]
  <2>2. PutBack(c.ad, c.read) \in AdRow
        /\ PutBack(c.ad, c.read).pending = c.read.pending
    BY <1>2 DEF PutBack, AdRow
  <2>3. row \in AdRow /\ row.pending = c.read.pending
    BY <1>2, <2>2 DEF AdRow, Answer
  <2>4. /\ local.ad = c.ad /\ local.job = c.job /\ local.read = row
        /\ local.answer = c.answer
    BY <1>1 DEF Locals
  <2>5. worker' = [worker EXCEPT ![w] = local]
    BY <2>1
  <2>6. Store(c.ad, row)
    BY <1>6 DEF ApplyOnline
  <2> HIDE DEF row, local
  <2>7. PutsBack(w)
    BY <1>1, <2>3, <2>6, PutBackPending
  <2>8. /\ worker'[w] = local
        /\ \A v \in Workers : v # w => worker'[v] = worker[v]
    BY <1>1, <2>5 DEF RowTypes
  <2>9. /\ c.read.pending = ad[c.ad].pending
        /\ c.answer.available = "yes" => c.answer.date <= listing[c.ad].date
    BY <1>1 DEF CalmInv, ReadsCurrent, DatesKnown
  <2>10. ad'[c.ad].pending = ad[c.ad].pending
         /\ \A b \in Ads : ad'[b].pending = ad[b].pending
    BY <1>2, <2>7 DEF PutsBack
  <2>11. HandlerHolds(w)
    BY <2>3, <2>4, <2>8, <2>9, <2>10 DEF HandlerHolds
  <2> QED
    BY <1>1, <1>3, <2>10, <2>11, CalmHandler DEF KeepsPending
<1> QED
  BY <1>4, <1>5, <1>6

\* Schedule, DisableCheck and ManageOpened change the entries of the check.
LEMMA CalmCheck ==
  ASSUME CalmInv, GoneInv', NEW w \in Workers,
         Schedule(w) \/ DisableCheck(w) \/ ManageOpened(w)
  PROVE  CalmInv' /\ KeepsPending
<1> DEFINE c == worker[w]
           back == PutBack(c.ad, c.read)
<1>1. Busy(w) /\ c \in Locals /\ RowTypes
  BY BusyLocals DEF CalmInv, GoneInv, Schedule, DisableCheck, ManageOpened
<1>2. /\ c.ad \in Ads /\ c.read \in AdRow /\ c.slot \in 0 .. MaxInterval
      /\ ad[c.ad] \in AdRow
  BY <1>1 DEF Locals, RowTypes
<1>3. back \in AdRow /\ back.pending = c.read.pending
  BY <1>2 DEF PutBack, AdRow
<1>4. UNCHANGED <<listing, day>>
  BY DEF Schedule, DisableCheck, ManageOpened, clock
<1>5. End(w) \/ \E pc \in Pcs : Goto(w, pc)
  BY DEF Schedule, AfterSchedule, DisableCheck, ManageOpened, Pcs
<1> HIDE DEF back
<1>6. \E row \in AdRow : Store(c.ad, row) /\ row.pending = c.read.pending
  <2> DEFINE scheduled == IF c.read.enabled THEN [back EXCEPT !.next = c.slot]
                          ELSE back
             disabled == [back EXCEPT !.enabled = FALSE]
             managed == [back EXCEPT !.enabled = TRUE, !.next = c.slot]
  <2>1. scheduled \in AdRow /\ scheduled.pending = c.read.pending
    BY <1>2, <1>3 DEF AdRow
  <2>2. disabled \in AdRow /\ disabled.pending = c.read.pending
    BY <1>3 DEF AdRow
  <2>3. managed \in AdRow /\ managed.pending = c.read.pending
    BY <1>2, <1>3 DEF AdRow
  <2>4. Store(c.ad, scheduled) \/ Store(c.ad, disabled) \/ Store(c.ad, managed)
    BY DEF Schedule, DisableCheck, ManageOpened, back
  <2> HIDE DEF scheduled, disabled, managed
  <2> QED
    BY <2>1, <2>2, <2>3, <2>4
<1>7. PutsBack(w)
  BY <1>1, <1>6, PutBackPending
<1> QED
  BY <1>1, <1>4, <1>5, <1>7, CalmPutsBack

\* The recount and a statement that throws leave the rows as they are.
LEMMA CalmEnd ==
  ASSUME CalmInv, GoneInv', NEW w \in Workers, Recount(w) \/ Throw(w)
  PROVE  CalmInv' /\ KeepsPending
<1>1. Busy(w) /\ End(w) /\ UNCHANGED <<ad, listing, day>>
  BY DEF Recount, Throw, clock
<1> QED
  BY <1>1, CalmPutsBack DEF PutsBack

\* Saving content marks it with the day it was saved.
LEMMA CalmEdit ==
  ASSUME CalmInv, GoneInv', NEW w \in Workers, UpdateDraft(w)
  PROVE  CalmInv' /\ KeepsPending
<1> DEFINE c == worker[w]
           row == [PutBack(c.ad, c.read) EXCEPT !.content = edits',
                                                !.pending = day]
<1>1. Busy(w) /\ c \in Locals /\ RowTypes /\ c.ad \in Ads
  BY BusyLocals DEF CalmInv, GoneInv, UpdateDraft, Locals
<1>2. UNCHANGED <<listing, day>> /\ End(w) /\ Store(c.ad, row)
  BY DEF UpdateDraft, clock
<1>3. row.pending = day
  <2>1. PutBack(c.ad, c.read) \in AdRow
    BY <1>1, PutBackType DEF Locals
  <2> QED
    BY <2>1 DEF AdRow
<1> HIDE DEF row
<1>4. /\ ad'[c.ad].pending = day
      /\ \A b \in Ads : b # c.ad => ad'[b] = ad[b]
  BY <1>1, <1>2, <1>3 DEF Store, RowTypes
<1>5. day # None
  BY <1>1 DEF RowTypes, Days, None
<1>6. HandlerHolds(w)
  BY <1>1, <1>2, <1>4, EndType DEF HandlerHolds
<1> QED
  BY <1>1, <1>2, <1>4, <1>5, <1>6, CalmHandler DEF KeepsPending

\* The mark goes when the page shows a day not before the save: that day is
\* still on the page, and the mark is the one that was read.
LEMMA CalmResolve ==
  ASSUME AvailabilityAssumption, CalmInv, GoneInv', NEW w \in Workers,
         ResolvePending(w)
  PROVE  CalmInv' /\ KeepsPending
<1> DEFINE c == worker[w]
           a == c.ad
           gone == IsGone(c.answer)
           fresh == IsFresh(c.read.pending, c.answer)
           row == IF gone THEN Deleted(a, c.read)
                  ELSE [PutBack(a, c.read) EXCEPT !.pending = None]
<1>1. Busy(w) /\ c \in Locals /\ RowTypes
  BY BusyLocals DEF CalmInv, GoneInv, ResolvePending
<1>2. /\ a \in Ads /\ c.read \in AdRow /\ ad[a] \in AdRow
      /\ c.answer \in Answer /\ listing[a].date \in Days
  BY <1>1 DEF Locals, RowTypes
<1>3. UNCHANGED <<listing, day>>
  BY DEF ResolvePending, clock
<1>4. c.read.pending = ad[a].pending
  BY <1>1 DEF CalmInv, ReadsCurrent
<1>5. /\ gone => row.pending = c.read.pending
      /\ ~gone => row.pending = None
  BY <1>2 DEF Deleted, PutBack, AdRow
<1>6. fresh => listing[a].date >= ad[a].pending
  <2>1. fresh => c.answer.date <= listing[a].date
    BY <1>1 DEF CalmInv, DatesKnown, IsFresh
  <2>2. fresh => c.answer.date >= ad[a].pending
    BY <1>4 DEF IsFresh
  <2>3. c.answer.date \in Int /\ listing[a].date \in Int /\ ad[a].pending \in Int
    BY <1>2 DEF Answer, AdRow, Days, None
  <2> QED
    BY <2>1, <2>2, <2>3
<1>7. IF gone \/ fresh THEN Store(a, row) ELSE UNCHANGED ad
  BY DEF ResolvePending
<1>8. \E next : worker' = [worker EXCEPT ![w] =
        IF next = "end" THEN Idle
        ELSE [c EXCEPT !.pc = next, !.answer = NoAnswer,
                       !.read = IF gone \/ fresh THEN row ELSE c.read]]
  BY DEF ResolvePending
<1> HIDE DEF gone, fresh, row
<1>9. /\ (gone \/ fresh) => ad'[a] = row
      /\ ~(gone \/ fresh) => ad'[a] = ad[a]
      /\ \A b \in Ads : b # a => ad'[b] = ad[b]
  BY <1>1, <1>2, <1>7 DEF Store, RowTypes
<1>10. HandlerHolds(w)
  <2>1. PICK next : worker' = [worker EXCEPT ![w] =
          IF next = "end" THEN Idle
          ELSE [c EXCEPT !.pc = next, !.answer = NoAnswer,
                         !.read = IF gone \/ fresh THEN row ELSE c.read]]
    BY <1>8
  <2>2. \A v \in Workers : v # w => worker'[v] = worker[v]
    BY <1>1, <2>1 DEF RowTypes
  <2>3. CASE next = "end"
    <3>1. ~Busy(w)'
      BY <1>1, <2>1, <2>3 DEF Busy, RowTypes
    <3> QED
      BY <1>9, <2>2, <3>1 DEF HandlerHolds
  <2>4. CASE next # "end"
    <3> DEFINE local == [c EXCEPT !.pc = next, !.answer = NoAnswer,
                           !.read = IF gone \/ fresh THEN row ELSE c.read]
    <3>1. /\ local.ad = a /\ local.job = c.job /\ local.answer = NoAnswer
          /\ local.read = IF gone \/ fresh THEN row ELSE c.read
      BY <1>1 DEF Locals
    <3>2. worker' = [worker EXCEPT ![w] = local]
      BY <2>1, <2>4
    <3> HIDE DEF local
    <3>3. worker'[w] = local
      BY <1>1, <3>2 DEF RowTypes
    <3>4. local.read.pending = ad'[a].pending
      BY <1>4, <1>9, <3>1
    <3>5. NoAnswer.available # "yes"
      BY DEF NoAnswer
    <3> QED
      BY <1>9, <2>2, <3>1, <3>3, <3>4, <3>5 DEF HandlerHolds
  <2> QED
    BY <2>3, <2>4
<1>11. CalmInv'
  BY <1>1, <1>3, <1>10, CalmHandler
<1>12. KeepsPending
  BY <1>4, <1>5, <1>6, <1>9 DEF KeepsPending
<1> QED
  BY <1>11, <1>12

\* Dates of the pages only move forward, up to today.
LEMMA CalmListing ==
  ASSUME CalmInv, GoneInv', NEW a \in Ads, ListingRemoved(a) \/ ListingEdited(a)
  PROVE  CalmInv' /\ KeepsPending
<1>1. RowTypes /\ UNCHANGED <<ad, worker, day>>
  BY DEF CalmInv, GoneInv, ListingRemoved, ListingEdited, clock
<1>2. /\ \A b \in Ads : b # a => listing'[b] = listing[b]
      /\ listing'[a].date \in {listing[a].date, day}
  BY <1>1 DEF ListingRemoved, ListingEdited, RowTypes
<1>3. \A b \in Ads : listing[b].date \in Int /\ day \in Int
                     /\ listing[b].date <= day
  BY <1>1 DEF RowTypes, Days, CalmInv, DatesKnown
<1>4. \A b \in Ads : listing[b].date <= listing'[b].date
                     /\ listing'[b].date <= day /\ listing'[b].date \in Int
  BY <1>2, <1>3
<1>5. DatesKnown'
  <2>1. \A w \in Workers : Busy(w) =>
          worker[w].ad \in Ads /\ worker[w].answer.date \in Int
    BY <1>1, BusyLocals DEF Locals, Answer, Days
  <2> QED
    BY <1>1, <1>3, <1>4, <2>1 DEF DatesKnown, CalmInv, Busy
<1>6. OneRuns' /\ ReadsCurrent' /\ NobodyEvaluates'
  BY <1>1 DEF CalmInv, OneRuns, Handlers, Busy, ReadsCurrent, NobodyEvaluates
<1> QED
  BY <1>1, <1>5, <1>6 DEF CalmInv, KeepsPending

LEMMA CalmRepublished ==
  ASSUME CalmInv, GoneInv', NEW a \in Ads, Republished(a)
  PROVE  CalmInv' /\ KeepsPending
<1>1. RowTypes /\ UNCHANGED <<worker, day>> /\ ad[a].status = "deleted"
      /\ \A w \in Workers : Busy(w) => worker[w].ad # a
  BY DEF CalmInv, GoneInv, Republished
<1>2. /\ \A b \in Ads : b # a => listing'[b] = listing[b] /\ ad'[b] = ad[b]
      /\ listing'[a].date = day
  BY <1>1 DEF Republished, Store, RowTypes
<1>3. day <= day /\ \A w \in Workers : Busy(w) => worker[w].ad \in Ads
  BY <1>1, BusyLocals DEF Locals, RowTypes, Days
<1>4. DatesKnown' /\ ReadsCurrent'
  BY <1>1, <1>2, <1>3 DEF DatesKnown, ReadsCurrent, CalmInv, Busy
<1>5. OneRuns' /\ NobodyEvaluates'
  BY <1>1 DEF CalmInv, OneRuns, Handlers, Busy, NobodyEvaluates
<1> QED
  BY <1>1, <1>2, <1>4, <1>5 DEF CalmInv, KeepsPending

LEMMA CalmTick ==
  ASSUME CalmInv, GoneInv', Tick
  PROVE  CalmInv' /\ KeepsPending
<1>1. RowTypes /\ UNCHANGED <<listing, day>>
  BY DEF CalmInv, GoneInv, Tick
<1>2. \A a \in Ads : ad'[a].pending = ad[a].pending
  BY <1>1 DEF Tick, RowTypes, AdRow
<1>3. \A w \in Workers :
        /\ Busy(w)' <=> Busy(w)
        /\ Busy(w) => /\ worker'[w].ad = worker[w].ad /\ worker[w].ad \in Ads
                      /\ worker'[w].job = worker[w].job
                      /\ worker'[w].answer = worker[w].answer
                      /\ worker'[w].read.pending = worker[w].read.pending
  <2> SUFFICES ASSUME NEW w \in Workers
               PROVE  /\ Busy(w)' <=> Busy(w)
                      /\ Busy(w) =>
                           /\ worker'[w].ad = worker[w].ad /\ worker[w].ad \in Ads
                           /\ worker'[w].job = worker[w].job
                           /\ worker'[w].answer = worker[w].answer
                           /\ worker'[w].read.pending = worker[w].read.pending
    OBVIOUS
  <2>1. CASE Busy(w)
    <3> DEFINE local == [worker[w] EXCEPT !.read.next = Down(@), !.slot = Down(@)]
    <3>1. worker[w] \in Locals
      BY <1>1, <2>1, BusyLocals
    <3>2. /\ local.ad = worker[w].ad /\ local.job = worker[w].job
          /\ local.answer = worker[w].answer
          /\ local.read = [worker[w].read EXCEPT !.next = Down(@)]
          /\ worker[w].read \in AdRow /\ worker[w].ad \in Ads
      BY <3>1 DEF Locals
    <3>3. local.read.pending = worker[w].read.pending
      BY <3>2 DEF AdRow
    <3>4. worker'[w] = local
      BY <2>1 DEF Tick
    <3>5. local # Idle
      BY <3>1 DEF Idle, Locals
    <3> HIDE DEF local
    <3> QED
      BY <2>1, <3>2, <3>3, <3>4, <3>5 DEF Busy
  <2>2. CASE ~Busy(w)
    BY <2>2 DEF Tick, Busy
  <2> QED
    BY <2>1, <2>2
<1>4. Handlers' = Handlers
  BY <1>3 DEF Handlers
<1>5. OneRuns'
  BY <1>4 DEF CalmInv, OneRuns
<1>6. ReadsCurrent' /\ NobodyEvaluates'
  BY <1>2, <1>3 DEF CalmInv, ReadsCurrent, NobodyEvaluates
<1>7. DatesKnown'
  BY <1>1, <1>3 DEF CalmInv, DatesKnown
<1> QED
  BY <1>2, <1>5, <1>6, <1>7 DEF CalmInv, KeepsPending

LEMMA CalmStays ==
  ASSUME AvailabilityAssumption, CalmInv, GoneInv', UNCHANGED vars \/ NextDay
  PROVE  CalmInv' /\ KeepsPending
<1>1. UNCHANGED <<ad, listing, worker>> /\ day' \in {day, day + 1}
  BY DEF vars, clock, NextDay
<1>2. \A a \in Ads : listing[a].date <= day /\ listing[a].date \in Int /\ day \in Int
  BY DEF CalmInv, DatesKnown, GoneInv, RowTypes, Days
<1>3. \A a \in Ads : listing[a].date <= day'
  BY <1>1, <1>2
<1> QED
  BY <1>1, <1>3 DEF CalmInv, OneRuns, Handlers, ReadsCurrent, NobodyEvaluates,
     DatesKnown, Busy, KeepsPending

LEMMA CalmNext ==
  ASSUME AvailabilityAssumption, MaxRunning = 1, ~Evaluates, CalmInv, [Next]_vars
  PROVE  CalmInv' /\ KeepsPending
<1>0. GoneInv'
  BY NextKeeps DEF CalmInv
<1>1. ASSUME NEW a \in Ads, TimerChecks(a) PROVE CalmInv' /\ KeepsPending
  <2>1. /\ Begin("timer", "timer", "fetch", a) /\ "timer" \in Workers
        /\ UNCHANGED <<ad, listing, day>>
    BY <1>1 DEF TimerChecks, Workers
  <2> QED
    BY <1>0, <2>1, CalmBegin DEF KeepsPending
<1>2. ASSUME NEW w \in Requests, NEW job \in Jobs \ {"timer"}, NEW a \in Ads,
             StartRequest(w, job, a)
      PROVE  CalmInv' /\ KeepsPending
  <2>1. /\ FirstPc(job, a) # "end" /\ Begin(w, job, FirstPc(job, a), a)
        /\ UNCHANGED <<ad, listing, day>> /\ w \in Workers
    BY <1>2 DEF StartRequest, clock, Workers
  <2>2. job # "evaluate"
    BY <2>1 DEF FirstPc
  <2> QED
    BY <1>0, <2>1, <2>2, CalmBegin DEF KeepsPending
<1>3. ASSUME NEW w \in Workers, Handle(w) \/ Throw(w)
      PROVE  CalmInv' /\ KeepsPending
  <2>1. ~EvaluatePublishPolicy(w)
    BY DEF CalmInv, NobodyEvaluates, EvaluatePublishPolicy
  <2> QED
    BY <1>0, <1>3, <2>1, CalmFetch, CalmResolve, CalmApply, CalmCheck, CalmEdit,
       CalmEnd DEF Handle
<1>4. ASSUME NEW a \in Ads,
             ListingRemoved(a) \/ ListingEdited(a) \/ Republished(a)
      PROVE  CalmInv' /\ KeepsPending
  BY <1>0, <1>4, CalmListing, CalmRepublished
<1> QED
  BY <1>0, <1>1, <1>2, <1>3, <1>4, CalmTick, CalmStays DEF Next, TimerTick

LEMMA InitCalm ==
  ASSUME AvailabilityAssumption, Init
  PROVE  CalmInv
<1>1. Handlers = {}
  BY DEF Init, Handlers, Busy
<1>2. OneRuns /\ ReadsCurrent /\ NobodyEvaluates
  BY <1>1, FS_EmptySet DEF OneRuns, Handlers, ReadsCurrent, NobodyEvaluates
<1>3. DatesKnown
  BY <1>1 DEF Init, DatesKnown, Handlers
<1> QED
  BY <1>2, <1>3, InitGone DEF CalmInv

\* A saved update stays marked until Bazos shows a day not before the save, or
\* the ad is deleted or published anew, for any number of ads and requests,
\* failing lookups and thrown statements: while one handler runs at a time and
\* the policy of published ads is not evaluated, the lastPolicyCheck a handler
\* writes back is the one that is stored.
THEOREM PendingIsKept ==
  ASSUME MaxRunning = 1, ~Evaluates
  PROVE  OnSaleSpec => PendingKept
<1> DEFINE ManagedInv == setting = "managed" => CalmInv
<1>0. AvailabilityAssumption
  BY Parameters
<1>1. OnSaleInit => ManagedInv
  BY <1>0, InitCalm DEF OnSaleInit
<1>2. ManagedInv /\ [OnSaleNext]_OnSaleVars => ManagedInv'
  <2> SUFFICES ASSUME ManagedInv, [OnSaleNext]_OnSaleVars, setting' = "managed"
               PROVE  CalmInv'
    OBVIOUS
  <2>1. setting = "managed" /\ [Next]_vars
    BY DEF OnSaleNext, OnSaleVars
  <2> QED
    BY <1>0, <2>1, CalmNext
<1>3. ManagedInv /\ [OnSaleNext]_OnSaleVars
        => [setting = "managed" => KeepsPending]_OnSaleVars
  <2> SUFFICES ASSUME ManagedInv, [OnSaleNext]_OnSaleVars, setting = "managed",
                      ~(UNCHANGED OnSaleVars)
               PROVE  KeepsPending
    OBVIOUS
  <2>1. Next
    BY DEF OnSaleNext
  <2> QED
    BY <1>0, <2>1, CalmNext
<1> HIDE DEF ManagedInv
<1> QED
  BY <1>1, <1>2, <1>3, PTL DEF OnSaleSpec, PendingKept

-----------------------------------------------------------------------------
(***************************************************************************)
(* Products that Catalog takes off.                                        *)
(***************************************************************************)
Sells(row) == row.active /\ row.stock > 0

\* Without Warehouse events no ad has an entry of them.
WithdrawnAd ==
  [status : {"absent", "draft", "published", "deleted"}, stock : Quantities,
   active : BOOLEAN, stockSync : {Catalog!NoSync}, catalogSync : Nat,
   reconciled : BOOLEAN]
Withdrawal ==
  [job : {"catalog", "reconcile"}, pc : {"ads", "warehouse", "disable"},
   event : Nat, todo : SUBSET CatalogAds, read : [CatalogAds -> WithdrawnAd],
   quantity : {0}]

Withdrawing == {w \in CatalogWorkers : projector[w].job # "none"}

WithdrawalTypes ==
  /\ stockEvents = << >> /\ stockQueue = {}
  /\ catalogEvents \in Nat /\ catalogQueue \subseteq 1 .. catalogEvents
  /\ projected \in [CatalogAds -> WithdrawnAd]
  /\ projector \in [CatalogWorkers -> Withdrawal \cup {Catalog!Idle}]
  /\ IsFiniteSet(Withdrawing)

\* An ad that a Catalog event was applied to is not sold again, and a handler
\* that skips an ad for having the event read it after that.
Knows(row) ==
  /\ row.job = "catalog" => row.event \in 1 .. catalogEvents
  /\ \A d \in row.todo :
       row.read[d].catalogSync # 0 => ~Sells(projected[d])

AppliedStops ==
  /\ \A d \in CatalogAds :
       projected[d].catalogSync # 0 => ~Sells(projected[d])
  /\ \A w \in Withdrawing : Knows(projector[w])

\* Of an event sent, no ad is forgotten: it is off sale, its write failed, an
\* event is queued, or a handler has yet to come to it.
Withdraws(w, d) == projector[w].job = "catalog" /\ d \in projector[w].todo

Reached(d) ==
  \/ projected[d].status = "absent" \/ ~Sells(projected[d])
  \/ d \in missed \/ catalogQueue # {}
  \/ \E w \in CatalogWorkers : Withdraws(w, d)

StopsInv ==
  /\ WithdrawalTypes /\ AppliedStops
  /\ ~offerable => catalogEvents # 0
  /\ catalogEvents # 0 => \A d \in CatalogAds : Reached(d)

\* What a step may do to the ads: leave an ad, or take it off sale.
AdsOnlyStop ==
  /\ projected' \in [CatalogAds -> WithdrawnAd]
  /\ \A d \in CatalogAds :
       projected'[d] = projected[d] \/ ~Sells(projected'[d])

\* A set of numbers has a least one.
Less == {ss \in Nat \X Nat : ss[1] < ss[2]}

LEMMA LessWellFounded == IsWellFoundedOn(Less, Nat)
BY NatLessThanWellFounded, Zenon DEF OpToRel, Less

LEMMA LeastIsThere ==
  ASSUME NEW S \in SUBSET Nat, S # {}
  PROVE  \E x \in S : \A y \in S : x <= y
<1>1. PICK x \in S : \A y \in S : ~(<<y, x>> \in Less)
  BY LessWellFounded, WFMin
<1>2. \A y \in S : ~(y < x)
  BY <1>1 DEF Less
<1> QED
  BY <1>2

LEMMA FirstEvent ==
  ASSUME StopsInv, catalogQueue # {}
  PROVE  Catalog!Min(catalogQueue) \in catalogQueue
<1>1. PICK x \in catalogQueue : \A y \in catalogQueue : x <= y
  BY LeastIsThere DEF StopsInv, WithdrawalTypes
<1> QED
  BY <1>1 DEF Catalog!Min

LEMMA WithdrawalNotIdle ==
  Catalog!Idle.job = "none" /\ Catalog!Idle \notin Withdrawal
BY DEF Catalog!Idle, Withdrawal

\* A worker takes another row.
LEMMA WithdrawalTakes ==
  ASSUME StopsInv, NEW w \in CatalogWorkers,
         NEW row \in Withdrawal \cup {Catalog!Idle},
         projector' = [projector EXCEPT ![w] = row]
  PROVE  /\ projector' \in [CatalogWorkers -> Withdrawal \cup {Catalog!Idle}]
         /\ projector'[w] = row
         /\ \A v \in CatalogWorkers \ {w} : projector'[v] = projector[v]
         /\ IsFiniteSet(Withdrawing')
<1>1. /\ projector' \in [CatalogWorkers -> Withdrawal \cup {Catalog!Idle}]
      /\ projector'[w] = row
      /\ \A v \in CatalogWorkers \ {w} : projector'[v] = projector[v]
  BY DEF StopsInv, WithdrawalTypes
<1>2. IsFiniteSet(Withdrawing \cup {w})
  BY FS_AddElement DEF StopsInv, WithdrawalTypes
<1>3. Withdrawing' \in SUBSET (Withdrawing \cup {w})
  BY <1>1 DEF Withdrawing
<1> QED
  BY <1>1, <1>2, <1>3, FS_Subset

\* The parts of the invariant that follow from what a step does to the ads.
LEMMA KnowledgeStays ==
  ASSUME StopsInv, AdsOnlyStop
  PROVE  /\ \A d \in CatalogAds :
              projected'[d].catalogSync # 0 => ~Sells(projected'[d])
         /\ \A d \in CatalogAds : Sells(projected'[d]) => Sells(projected[d])
         /\ \A d \in CatalogAds : projected[d].status = "absent" =>
              projected'[d].status = "absent" \/ ~Sells(projected'[d])
BY DEF StopsInv, AppliedStops, AdsOnlyStop

\* A worker that goes on keeps a part of what it has to do.
LEMMA WithdrawalGoesOn ==
  ASSUME StopsInv, AdsOnlyStop, NEW w \in Withdrawing,
         NEW row \in Withdrawal \cup {Catalog!Idle},
         projector' = [projector EXCEPT ![w] = row],
         row # Catalog!Idle =>
           /\ row.job = projector[w].job /\ row.event = projector[w].event
           /\ row.todo \subseteq projector[w].todo
           /\ \A e \in row.todo : row.read[e] = projector[w].read[e],
         UNCHANGED <<stockEvents, stockQueue, offerable, catalogEvents,
                     catalogQueue>>,
         projector[w].job = "catalog" => \A e \in projector[w].todo :
           \/ row # Catalog!Idle /\ e \in row.todo
           \/ e \in missed' \/ ~Sells(projected'[e]),
         \A e \in missed : e \in missed' \/ ~Sells(projected'[e])
  PROVE  StopsInv'
<1>1. /\ projector' \in [CatalogWorkers -> Withdrawal \cup {Catalog!Idle}]
      /\ projector'[w] = row
      /\ \A v \in CatalogWorkers \ {w} : projector'[v] = projector[v]
      /\ IsFiniteSet(Withdrawing')
  BY WithdrawalTakes DEF Withdrawing
<1>2. WithdrawalTypes'
  BY <1>1 DEF StopsInv, WithdrawalTypes, AdsOnlyStop
<1>3. ASSUME NEW v \in Withdrawing' PROVE Knows(projector[v])'
  <2>1. projector[v] \in Withdrawal /\ v \in Withdrawing /\ Knows(projector[v])
    BY <1>1, <1>3, WithdrawalNotIdle DEF Withdrawing, StopsInv, AppliedStops,
       WithdrawalTypes
  <2>2. projector[v].todo \subseteq CatalogAds
    BY <2>1 DEF Withdrawal
  <2>3. /\ projector'[v].job = projector[v].job
        /\ projector'[v].event = projector[v].event
        /\ projector'[v].todo \subseteq projector[v].todo
        /\ \A e \in projector'[v].todo : projector'[v].read[e] = projector[v].read[e]
    BY <1>1, <1>3, WithdrawalNotIdle DEF Withdrawing
  <2> QED
    BY <2>1, <2>2, <2>3, KnowledgeStays DEF Knows
<1>4. ASSUME NEW d \in CatalogAds, Reached(d) PROVE Reached(d)'
  <2>1. ASSUME NEW v \in CatalogWorkers, Withdraws(v, d)
        PROVE  \/ Withdraws(v, d)' \/ d \in missed' \/ ~Sells(projected'[d])
    BY <1>1, <2>1 DEF Withdraws
  <2> QED
    BY <1>4, <2>1, KnowledgeStays DEF Reached
<1> QED
  BY <1>2, <1>3, <1>4, KnowledgeStays DEF StopsInv, AppliedStops

LEMMA WithdrawalProceeds ==
  ASSUME StopsInv, AdsOnlyStop, NEW w \in Withdrawing, NEW d \in CatalogAds,
         Catalog!Proceed(w, d),
         UNCHANGED <<stockEvents, stockQueue, offerable, catalogEvents,
                     catalogQueue>>,
         projector[w].job = "catalog" \/ missed' # missed =>
           ~Sells(projected'[d]),
         missed' \in {missed, missed \ {d}}
  PROVE  StopsInv'
<1>0. /\ projector[w] \in Withdrawal /\ Catalog!NoAd \in WithdrawnAd
      /\ w \in CatalogWorkers /\ 0 \in Quantities
  BY Parameters DEF StopsInv, WithdrawalTypes, Withdrawing, Catalog!Idle,
     Catalog!StockAssumption, Catalog!NoAd, Catalog!NewAd, WithdrawnAd
<1> DEFINE rest == projector[w].todo \ {d}
           row == IF rest = {} THEN Catalog!Idle
                  ELSE [projector[w] EXCEPT !.pc = "ads", !.todo = rest,
                                            !.read[d] = Catalog!NoAd]
<1>1. projector' = [projector EXCEPT ![w] = row]
  BY DEF Catalog!Proceed
<1>2. rest # {} =>
        /\ row \in Withdrawal /\ row.job = projector[w].job
        /\ row.event = projector[w].event /\ row.todo = rest
        /\ \A e \in rest : row.read[e] = projector[w].read[e]
  BY <1>0 DEF Withdrawal
<1>3. rest = {} => row = Catalog!Idle
  OBVIOUS
<1> HIDE DEF row
<1>4. row \in Withdrawal \cup {Catalog!Idle}
  BY <1>2, <1>3
<1>5. row # Catalog!Idle =>
        /\ row.job = projector[w].job /\ row.event = projector[w].event
        /\ row.todo \subseteq projector[w].todo
        /\ \A e \in row.todo : row.read[e] = projector[w].read[e]
  BY <1>2, <1>3
<1>6. projector[w].job = "catalog" => \A e \in projector[w].todo :
        \/ row # Catalog!Idle /\ e \in row.todo
        \/ e \in missed' \/ ~Sells(projected'[e])
  BY <1>2, <1>4, WithdrawalNotIdle
<1>7. \A e \in missed : e \in missed' \/ ~Sells(projected'[e])
  OBVIOUS
<1> QED
  BY <1>1, <1>4, <1>5, <1>6, <1>7, WithdrawalGoesOn

\* An ad that is disabled is off sale, the others stay.
LEMMA DisablingStops ==
  ASSUME StopsInv, NEW d \in CatalogAds, NEW read \in WithdrawnAd,
         NEW row, row \in {[Catalog!Disabled(projected[d], read) EXCEPT
                             !.catalogSync = n] : n \in Nat} \cup
                          {[Catalog!Disabled(projected[d], read) EXCEPT
                             !.reconciled = TRUE]},
         projected' = [projected EXCEPT ![d] = row]
  PROVE  AdsOnlyStop /\ ~Sells(projected'[d])
<1>1. projected[d] \in WithdrawnAd /\ 0 \in Quantities
  BY Parameters DEF StopsInv, WithdrawalTypes, Catalog!StockAssumption
<1>2. /\ Catalog!Disabled(projected[d], read) \in WithdrawnAd
      /\ Catalog!Disabled(projected[d], read).active = FALSE
  BY <1>1 DEF Catalog!Disabled, WithdrawnAd
<1>3. row \in WithdrawnAd /\ row.active = FALSE
  BY <1>2 DEF WithdrawnAd
<1>4. /\ projected' \in [CatalogAds -> WithdrawnAd] /\ projected'[d] = row
      /\ \A e \in CatalogAds \ {d} : projected'[e] = projected[e]
  BY <1>3 DEF StopsInv, WithdrawalTypes
<1> QED
  BY <1>3, <1>4 DEF AdsOnlyStop, Sells

LEMMA AdsUntouched ==
  ASSUME StopsInv, projected' = projected PROVE AdsOnlyStop
BY DEF StopsInv, WithdrawalTypes, AdsOnlyStop

LEMMA WithdrawalRow ==
  ASSUME StopsInv, NEW w \in CatalogWorkers, projector[w].job # "none"
  PROVE  w \in Withdrawing /\ projector[w] \in Withdrawal /\ Knows(projector[w])
BY WithdrawalNotIdle DEF StopsInv, WithdrawalTypes, AppliedStops, Withdrawing

LEMMA StopsCatalogApply ==
  ASSUME StopsInv, NEW w \in CatalogWorkers, NEW d \in CatalogAds,
         Catalog!CatalogApply(w, d)
  PROVE  StopsInv'
<1> DEFINE n == projector[w].event
           read == projector[w].read[d]
<1>1. /\ projector[w].job = "catalog" /\ d \in projector[w].todo
      /\ Catalog!Proceed(w, d) /\ missed' = missed \ {d}
      /\ UNCHANGED <<stockEvents, stockQueue, offerable, catalogEvents,
                     catalogQueue>>
  BY DEF Catalog!CatalogApply, Catalog!external, Catalog!events, Catalog!queues
<1>2. w \in Withdrawing /\ projector[w] \in Withdrawal /\ Knows(projector[w])
  BY <1>1, WithdrawalRow
<1>3. n \in Nat /\ n # 0 /\ read \in WithdrawnAd
      /\ (read.catalogSync # 0 => ~Sells(projected[d]))
  BY <1>1, <1>2 DEF Withdrawal, Knows
<1>4. AdsOnlyStop /\ ~Sells(projected'[d])
  <2>1. CASE read.catalogSync = n /\ projected' = projected
    BY <1>3, <2>1, AdsUntouched
  <2>2. CASE projected' = [projected EXCEPT ![d] =
               [Catalog!Disabled(projected[d], read) EXCEPT !.catalogSync = n]]
    <3> DEFINE row == [Catalog!Disabled(projected[d], read) EXCEPT
                         !.catalogSync = n]
    <3>1. row \in {[Catalog!Disabled(projected[d], read) EXCEPT
                     !.catalogSync = k] : k \in Nat}
      BY <1>3
    <3>2. projected' = [projected EXCEPT ![d] = row]
      BY <2>2
    <3> HIDE DEF row, read
    <3> QED
      BY <1>3, <3>1, <3>2, DisablingStops
  <2> QED
    BY <2>1, <2>2 DEF Catalog!CatalogApply
<1> QED
  BY <1>1, <1>2, <1>4, WithdrawalProceeds

LEMMA StopsCatalogApplyFails ==
  ASSUME StopsInv, NEW w \in CatalogWorkers, Catalog!CatalogApplyFails(w)
  PROVE  StopsInv'
<1>1. /\ projector[w].job = "catalog"
      /\ missed' = missed \cup projector[w].todo
      /\ projector' = [projector EXCEPT ![w] = Catalog!Idle]
      /\ UNCHANGED <<stockEvents, stockQueue, offerable, catalogEvents,
                     catalogQueue>>
      /\ projected' = projected
  BY DEF Catalog!CatalogApplyFails, Catalog!external, Catalog!events,
     Catalog!queues
<1>2. w \in Withdrawing /\ AdsOnlyStop
  BY <1>1, WithdrawalRow, AdsUntouched
<1> QED
  BY <1>1, <1>2, WithdrawalGoesOn

LEMMA StopsReconciles ==
  ASSUME StopsInv, NEW w \in CatalogWorkers,
         \/ Catalog!ReconcileCatalog(w)
         \/ \E d \in CatalogAds : \/ Catalog!ReconcileWarehouse(w, d)
                                  \/ Catalog!ReconcileDisable(w, d)
  PROVE  StopsInv'
<1>1. /\ projector[w].job = "reconcile" /\ missed' = missed
      /\ UNCHANGED <<stockEvents, stockQueue, offerable, catalogEvents,
                     catalogQueue>>
  BY DEF Catalog!ReconcileCatalog, Catalog!ReconcileWarehouse,
     Catalog!ReconcileDisable, Catalog!external, Catalog!events, Catalog!queues
<1>2. w \in Withdrawing /\ projector[w] \in Withdrawal
  BY <1>1, WithdrawalRow
<1>3. ASSUME NEW pc \in {"warehouse", "disable"}, Catalog!Goto(w, pc),
             projected' = projected
      PROVE  StopsInv'
  <2> DEFINE row == [projector[w] EXCEPT !.pc = pc]
  <2>1. /\ row \in Withdrawal /\ row.job = projector[w].job
        /\ row.event = projector[w].event /\ row.todo = projector[w].todo
        /\ row.read = projector[w].read
    BY <1>2 DEF Withdrawal
  <2>2. projector' = [projector EXCEPT ![w] = row]
    BY <1>3 DEF Catalog!Goto
  <2>3. row \in Withdrawal \cup {Catalog!Idle} /\ AdsOnlyStop
    BY <1>3, <2>1, AdsUntouched
  <2> HIDE DEF row
  <2> QED
    BY <1>1, <1>2, <2>1, <2>2, <2>3, WithdrawalGoesOn
<1>4. ASSUME NEW d \in CatalogAds, Catalog!Proceed(w, d), AdsOnlyStop
      PROVE  StopsInv'
  BY <1>1, <1>2, <1>4, WithdrawalProceeds
<1>5. CASE Catalog!ReconcileCatalog(w)
  BY <1>3, <1>5 DEF Catalog!ReconcileCatalog
<1>6. ASSUME NEW d \in CatalogAds, Catalog!ReconcileWarehouse(w, d)
      PROVE  StopsInv'
  <2>1. projected' = projected
    BY <1>6 DEF Catalog!ReconcileWarehouse
  <2>2. AdsOnlyStop
    BY <2>1, AdsUntouched
  <2> QED
    BY <1>3, <1>4, <1>6, <2>1, <2>2 DEF Catalog!ReconcileWarehouse
<1>7. ASSUME NEW d \in CatalogAds, Catalog!ReconcileDisable(w, d)
      PROVE  StopsInv'
  <2>1. Catalog!Proceed(w, d) /\ projector[w].read[d] \in WithdrawnAd
    BY <1>2, <1>7 DEF Catalog!ReconcileDisable, Withdrawal
  <2>2. CASE projected' = projected
    BY <1>4, <2>1, <2>2, AdsUntouched
  <2>3. CASE projected' = [projected EXCEPT ![d] =
               [Catalog!Disabled(projected[d], projector[w].read[d])
                  EXCEPT !.reconciled = TRUE]]
    <3> DEFINE row == [Catalog!Disabled(projected[d], projector[w].read[d])
                         EXCEPT !.reconciled = TRUE]
    <3>1. row \in {[Catalog!Disabled(projected[d], projector[w].read[d])
                      EXCEPT !.reconciled = TRUE]}
      OBVIOUS
    <3>2. projected' = [projected EXCEPT ![d] = row]
      BY <2>3
    <3> HIDE DEF row
    <3>3. AdsOnlyStop
      BY <2>1, <3>1, <3>2, DisablingStops
    <3> QED
      BY <1>4, <2>1, <3>3
  <2> QED
    BY <1>7, <2>2, <2>3 DEF Catalog!ReconcileDisable
<1> QED
  BY <1>5, <1>6, <1>7

\* A handler begins with the ads as they are.
LEMMA WithdrawalBegins ==
  ASSUME StopsInv, NEW w \in CatalogWorkers, projector[w].job = "none",
         NEW job \in {"catalog", "reconcile"}, NEW n \in Nat,
         NEW todo \in SUBSET CatalogAds, Catalog!Begin(w, job, "ads", n, todo),
         projected' = projected, catalogEvents' = catalogEvents,
         job = "catalog" => n \in 1 .. catalogEvents
  PROVE  /\ projector' \in [CatalogWorkers -> Withdrawal \cup {Catalog!Idle}]
         /\ IsFiniteSet(Withdrawing')
         /\ \A v \in Withdrawing' : Knows(projector[v])'
         /\ projector'[w].job = job /\ projector'[w].todo = todo
         /\ \A v \in CatalogWorkers, d \in CatalogAds :
              Withdraws(v, d) => Withdraws(v, d)'
<1> DEFINE row == [job |-> job, pc |-> "ads", event |-> n, todo |-> todo,
                   read |-> [d \in CatalogAds |-> IF d \in todo THEN projected[d]
                                                  ELSE Catalog!NoAd],
                   quantity |-> 0]
<1>1. projector' = [projector EXCEPT ![w] = row]
  BY DEF Catalog!Begin
<1>2. Catalog!NoAd \in WithdrawnAd
  BY Parameters DEF Catalog!StockAssumption, Catalog!NoAd, Catalog!NewAd,
     WithdrawnAd
<1>3. /\ row \in Withdrawal /\ row.job = job /\ row.event = n
      /\ row.todo = todo /\ \A d \in todo : row.read[d] = projected[d]
  BY <1>2 DEF Withdrawal, StopsInv, WithdrawalTypes
<1> HIDE DEF row
<1>4. row \in Withdrawal \cup {Catalog!Idle}
  BY <1>3
<1>5. /\ projector' \in [CatalogWorkers -> Withdrawal \cup {Catalog!Idle}]
      /\ projector'[w] = row
      /\ \A v \in CatalogWorkers \ {w} : projector'[v] = projector[v]
      /\ IsFiniteSet(Withdrawing')
  BY <1>1, <1>4, WithdrawalTakes
<1>6. ASSUME NEW v \in Withdrawing' PROVE Knows(projector[v])'
  <2>1. CASE v = w
    BY <1>3, <1>5, <2>1 DEF Knows, StopsInv, AppliedStops
  <2>2. CASE v # w
    BY <1>5, <1>6, <2>2 DEF Knows, StopsInv, AppliedStops, Withdrawing
  <2> QED
    BY <2>1, <2>2
<1>7. \A v \in CatalogWorkers, d \in CatalogAds :
        Withdraws(v, d) => Withdraws(v, d)'
  BY <1>5 DEF Withdraws
<1> QED
  BY <1>3, <1>5, <1>6, <1>7

LEMMA StopsList ==
  ASSUME StopsInv, NEW w \in CatalogWorkers, Catalog!ReconcileList(w)
  PROVE  StopsInv'
<1> DEFINE listed == {d \in Catalog!Existing : Catalog!OnSale(d)}
<1>1. /\ projector[w].job = "none"
      /\ Catalog!Begin(w, "reconcile", "ads", 0, listed)
      /\ UNCHANGED <<stockEvents, stockQueue, offerable, catalogEvents,
                     catalogQueue, missed>>
      /\ projected' = projected /\ listed \in SUBSET CatalogAds
  BY DEF Catalog!ReconcileList, Catalog!external, Catalog!events,
     Catalog!queues, Catalog!MayStart, Catalog!Existing
<1> HIDE DEF listed
<1>2. /\ projector' \in [CatalogWorkers -> Withdrawal \cup {Catalog!Idle}]
      /\ IsFiniteSet(Withdrawing')
      /\ \A v \in Withdrawing' : Knows(projector[v])'
      /\ \A v \in CatalogWorkers, d \in CatalogAds :
           Withdraws(v, d) => Withdraws(v, d)'
  BY <1>1, WithdrawalBegins
<1>3. \A d \in CatalogAds : Reached(d) => Reached(d)'
  BY <1>1, <1>2 DEF Reached
<1> QED
  BY <1>1, <1>2, <1>3 DEF StopsInv, WithdrawalTypes, AppliedStops

LEMMA StopsDeliver ==
  ASSUME StopsInv, NEW w \in CatalogWorkers, Catalog!CatalogDeliver(w)
  PROVE  StopsInv'
<1> DEFINE n == Catalog!Min(catalogQueue)
<1>1. /\ projector[w].job = "none" /\ catalogQueue # {}
      /\ catalogQueue' = catalogQueue \ {n}
      /\ UNCHANGED <<stockEvents, stockQueue, offerable, catalogEvents>>
      /\ projected' = projected
  BY DEF Catalog!CatalogDeliver, Catalog!external, Catalog!events,
     Catalog!MayStart
<1>2. /\ n \in Nat /\ n \in 1 .. catalogEvents
      /\ catalogQueue' \subseteq 1 .. catalogEvents
  <2>1. n \in catalogQueue
    BY <1>1, FirstEvent
  <2>2. catalogQueue \subseteq 1 .. catalogEvents /\ catalogEvents \in Nat
    BY DEF StopsInv, WithdrawalTypes
  <2> HIDE DEF n
  <2> QED
    BY <1>1, <2>1, <2>2
<1>3. Catalog!Existing \in SUBSET CatalogAds
  BY DEF Catalog!Existing
<1> HIDE DEF n
<1>4. ASSUME /\ projector' \in [CatalogWorkers -> Withdrawal \cup {Catalog!Idle}]
             /\ IsFiniteSet(Withdrawing')
             /\ \A v \in Withdrawing' : Knows(projector[v])',
             \A d \in Catalog!Existing : d \in missed' \/ Withdraws(w, d)'
      PROVE  StopsInv'
  <2>1. \A d \in CatalogAds : Reached(d)'
    BY <1>1, <1>4 DEF Reached, Catalog!Existing
  <2> QED
    BY <1>1, <1>2, <1>4, <2>1 DEF StopsInv, WithdrawalTypes, AppliedStops
<1>5. CASE Catalog!Begin(w, "catalog", "ads", n, Catalog!Existing)
  <2>1. /\ projector' \in [CatalogWorkers -> Withdrawal \cup {Catalog!Idle}]
        /\ IsFiniteSet(Withdrawing')
        /\ \A v \in Withdrawing' : Knows(projector[v])'
        /\ projector'[w].job = "catalog" /\ projector'[w].todo = Catalog!Existing
    BY <1>1, <1>2, <1>3, <1>5, WithdrawalBegins
  <2>2. \A d \in Catalog!Existing : Withdraws(w, d)'
    BY <2>1 DEF Withdraws
  <2> QED
    BY <1>4, <2>1, <2>2
<1>6. CASE /\ projector' = projector
           /\ Catalog!Existing = {} \/ missed' = Catalog!Existing
  <2>1. \A v \in Withdrawing : Knows(projector[v]) => Knows(projector[v])'
    BY <1>1, <1>6 DEF Knows
  <2>2. Withdrawing' = Withdrawing
    BY <1>6 DEF Withdrawing
  <2> QED
    BY <1>4, <1>6, <2>1, <2>2 DEF StopsInv, WithdrawalTypes, AppliedStops
<1> QED
  BY <1>5, <1>6 DEF Catalog!CatalogDeliver, n

\* What Catalog does: a change is an event in the queue.
LEMMA StopsOffering ==
  ASSUME StopsInv, Catalog!StopOffering \/ Catalog!OfferAgain
  PROVE  StopsInv'
<1>1. UNCHANGED <<stockEvents, stockQueue, projected, projector, missed>>
  BY DEF Catalog!StopOffering, Catalog!OfferAgain, Catalog!events,
     Catalog!queues
<1>2. ASSUME catalogEvents' \in Nat, catalogEvents \in Nat,
             catalogEvents <= catalogEvents'
      PROVE  AppliedStops'
  <2>1. 1 .. catalogEvents \subseteq 1 .. catalogEvents'
    BY <1>2
  <2> QED
    BY <1>1, <2>1 DEF StopsInv, AppliedStops, Withdrawing, Knows
<1>3. Withdrawing' = Withdrawing
  BY <1>1 DEF Withdrawing
<1>4. CASE Catalog!StopOffering
  <2>1. /\ catalogEvents' = catalogEvents + 1
        /\ catalogQueue' = catalogQueue \cup {catalogEvents + 1}
    BY <1>4 DEF Catalog!StopOffering
  <2>2. catalogEvents \in Nat /\ catalogQueue \subseteq 1 .. catalogEvents
    BY DEF StopsInv, WithdrawalTypes
  <2>3. /\ catalogEvents' \in Nat /\ catalogEvents' # 0
        /\ catalogEvents <= catalogEvents'
        /\ catalogQueue' \subseteq 1 .. catalogEvents' /\ catalogQueue' # {}
    BY <2>1, <2>2
  <2> QED
    BY <1>1, <1>2, <1>3, <2>2, <2>3 DEF StopsInv, WithdrawalTypes, Reached
<1>5. CASE Catalog!OfferAgain
  <2>1. UNCHANGED <<catalogEvents, catalogQueue>> /\ offerable' = TRUE
    BY <1>5 DEF Catalog!OfferAgain, Catalog!events, Catalog!queues
  <2>2. \A d \in CatalogAds : Reached(d) => Reached(d)'
    BY <1>1, <2>1 DEF Reached, Withdraws
  <2>3. catalogEvents' \in Nat /\ catalogEvents <= catalogEvents'
    BY <2>1 DEF StopsInv, WithdrawalTypes
  <2> QED
    BY <1>1, <1>2, <1>3, <2>1, <2>2, <2>3 DEF StopsInv, WithdrawalTypes
<1> QED
  BY <1>4, <1>5

\* A restart: the event a handler was at is queued again.
LEMMA StopsCrash ==
  ASSUME StopsInv, Catalog!Crash
  PROVE  StopsInv'
<1>1. /\ UNCHANGED <<stockEvents, offerable, catalogEvents, projected, missed>>
      /\ stockQueue' = stockQueue \cup Catalog!Unacked("stock")
      /\ catalogQueue' = catalogQueue \cup Catalog!Unacked("catalog")
      /\ projector' = [w \in CatalogWorkers |-> Catalog!Idle]
  BY DEF Catalog!Crash, Catalog!external, Catalog!events
<1>2. Withdrawing' = {}
  BY <1>1, WithdrawalNotIdle DEF Withdrawing
<1>3. \A w \in CatalogWorkers : projector[w].job # "stock"
  BY WithdrawalNotIdle DEF StopsInv, WithdrawalTypes, Withdrawal
<1>4. stockQueue' = {}
  BY <1>1, <1>3 DEF Catalog!Unacked, StopsInv, WithdrawalTypes
<1>5. \A w \in CatalogWorkers : projector[w].job = "catalog" =>
        projector[w].event \in 1 .. catalogEvents
  BY DEF StopsInv, AppliedStops, Knows, Withdrawing
<1>6. catalogQueue' \subseteq 1 .. catalogEvents
  BY <1>1, <1>5 DEF Catalog!Unacked, StopsInv, WithdrawalTypes
<1>7. ASSUME NEW d \in CatalogAds, Reached(d) PROVE Reached(d)'
  <2>1. ASSUME NEW w \in CatalogWorkers, Withdraws(w, d)
        PROVE  catalogQueue' # {}
    BY <1>1, <2>1 DEF Withdraws, Catalog!Unacked
  <2>2. catalogQueue # {} => catalogQueue' # {}
    BY <1>1
  <2> QED
    BY <1>1, <1>7, <2>1, <2>2 DEF Reached
<1>8. IsFiniteSet(Withdrawing')
  BY <1>2, FS_EmptySet
<1>9. WithdrawalTypes'
  BY <1>1, <1>4, <1>6, <1>8 DEF StopsInv, WithdrawalTypes
<1>10. AppliedStops'
  BY <1>1, <1>2 DEF StopsInv, AppliedStops
<1> QED
  BY <1>1, <1>7, <1>9, <1>10 DEF StopsInv

LEMMA StopsStays ==
  ASSUME StopsInv, UNCHANGED <<offerable, stockEvents, stockQueue, catalogEvents,
                               catalogQueue, projected, projector, missed>>
  PROVE  StopsInv'
BY DEF StopsInv, WithdrawalTypes, AppliedStops, Withdrawing, Knows, Reached,
   Withdraws

\* Nothing of Warehouse and of the offers moves in this setting.
LEMMA StopsStep ==
  ASSUME StopsInv, Catalog!Next
  PROVE  StopsInv'
<1>1. ASSUME Catalog!ChangeStock PROVE FALSE
  <2>1. stockEvents = << >> /\ Len(stockEvents) < 0
    BY <1>1 DEF Catalog!ChangeStock, StopsInv, WithdrawalTypes
  <2> QED
    BY <2>1
<1>2. ASSUME NEW w \in CatalogWorkers PROVE projector[w].job \notin {"stock", "sync"}
  BY WithdrawalNotIdle DEF StopsInv, WithdrawalTypes, Withdrawal
<1>3. ASSUME NEW w \in CatalogWorkers, Catalog!Work(w) PROVE StopsInv'
  <2>1. ASSUME Catalog!StockDeliver(w) PROVE FALSE
    BY <2>1 DEF Catalog!StockDeliver, StopsInv, WithdrawalTypes
  <2>2. ASSUME NEW d \in CatalogAds,
               \/ Catalog!StockProject(w, d) \/ Catalog!StockProjectFails(w, d)
               \/ Catalog!SyncUpdate(w, d) \/ Catalog!SyncCreate(w, d)
        PROVE  FALSE
    BY <1>2, <2>2 DEF Catalog!StockProject, Catalog!StockProjectFails,
       Catalog!SyncUpdate, Catalog!SyncCreate
  <2>3. ASSUME Catalog!SyncFindAd(w) PROVE FALSE
    BY <1>2, <2>3 DEF Catalog!SyncFindAd
  <2> QED
    BY <1>3, <2>1, <2>2, <2>3, StopsDeliver, StopsReconciles,
       StopsCatalogApply, StopsCatalogApplyFails DEF Catalog!Work
<1>4. ASSUME NEW w \in CatalogWorkers, Catalog!SyncReadStock(w) PROVE FALSE
  BY <1>4 DEF Catalog!SyncReadStock
<1>5. ASSUME NEW d \in CatalogAds,
             \/ \E active \in BOOLEAN : Catalog!SetActive(d, active)
             \/ Catalog!Publishing(d)
      PROVE  FALSE
  BY <1>5 DEF Catalog!SetActive, Catalog!Publishing, Catalog!CheckPolicy,
     Catalog!ClaimAd, Catalog!CreateDraft, Catalog!EditAd, Catalog!Prepare,
     Catalog!PublishAd, Catalog!SellerWrites
<1> QED
  BY <1>1, <1>3, <1>4, <1>5, StopsOffering, StopsList, StopsCrash
     DEF Catalog!Next

LEMMA StopsInit == Catalog!Init => StopsInv
<1> SUFFICES ASSUME Catalog!Init PROVE StopsInv
  OBVIOUS
<1>1. /\ stockEvents = << >> /\ stockQueue = {} /\ catalogEvents = 0
      /\ catalogQueue = {} /\ offerable = TRUE
      /\ projector = [w \in CatalogWorkers |-> Catalog!Idle]
      /\ available \in Quantities \ {0}
      /\ projected \in [CatalogAds ->
           {Catalog!NoAd, Catalog!NewAd("published", available)}]
  BY DEF Catalog!Init
<1>2. /\ {Catalog!NoAd, Catalog!NewAd("published", available)}
           \subseteq WithdrawnAd
      /\ Catalog!NoAd.catalogSync = 0
      /\ Catalog!NewAd("published", available).catalogSync = 0
  <2>1. 0 \in Quantities /\ (available > 0) \in BOOLEAN
    BY Parameters DEF Catalog!StockAssumption
  <2> QED
    BY <1>1, <2>1 DEF Catalog!NoAd, Catalog!NewAd, WithdrawnAd
<1>3. Withdrawing = {} /\ IsFiniteSet({})
  BY <1>1, WithdrawalNotIdle, FS_EmptySet DEF Withdrawing
<1>4. WithdrawalTypes
  BY <1>1, <1>2, <1>3 DEF WithdrawalTypes
<1>5. AppliedStops
  BY <1>1, <1>2, <1>3 DEF AppliedStops
<1> QED
  BY <1>1, <1>4, <1>5 DEF StopsInv

LEMMA OnSaleCardinality == \A S : Catalog!Cardinality(S) = Cardinality(S)
BY DEF Catalog!Cardinality, Cardinality

LEMMA StopsShown == StopsInv => Catalog!CatalogStops
<1> SUFFICES ASSUME StopsInv, Catalog!Drained, ~offerable,
                    NEW d \in Catalog!Existing \ missed
             PROVE  ~Catalog!Sellable(d)
  BY DEF Catalog!CatalogStops
<1>1. Withdrawing = {}
  BY OnSaleCardinality, FS_EmptySet DEF Catalog!Drained, Catalog!Running,
     StopsInv, WithdrawalTypes, Withdrawing
<1>2. Reached(d) /\ d \in CatalogAds /\ projected[d].status # "absent"
  BY DEF StopsInv, Catalog!Existing
<1>3. \A w \in CatalogWorkers : ~Withdraws(w, d)
  BY <1>1 DEF Withdraws, Withdrawing
<1> QED
  BY <1>2, <1>3 DEF Reached, Catalog!Drained, Catalog!Sellable, Sells

\* When a product is not offerable and its events are handled, no ad of it can
\* be bought, unless a write of that ad failed: Catalog events, reconciliations
\* and restarts may come in any order and overlap
\* (CatalogProductEventsSubscriber, BazosAvailabilityReconciliationService), for
\* any number of ads, handlers and events.
THEOREM WithdrawnIsStopped == OnSaleSpec => []CatalogStops
<1> DEFINE Inv == setting = "catalog" => StopsInv
<1>1. OnSaleInit => Inv
  BY StopsInit DEF OnSaleInit
<1>2. Inv /\ [OnSaleNext]_OnSaleVars => Inv'
  <2> SUFFICES ASSUME Inv, [OnSaleNext]_OnSaleVars PROVE Inv'
    OBVIOUS
  <2>1. CASE UNCHANGED OnSaleVars
    <3>1. UNCHANGED <<setting, offerable, stockEvents, stockQueue, catalogEvents,
                      catalogQueue, projected, projector, missed>>
      BY <2>1 DEF OnSaleVars, StockVars
    <3>2. StopsInv => StopsInv'
      BY <3>1, StopsStays
    <3> QED
      BY <3>1, <3>2
  <2>2. CASE OnSaleNext
    BY <2>2, StopsStep DEF OnSaleNext
  <2> QED
    BY <2>1, <2>2
<1>3. Inv => CatalogStops
  BY StopsShown DEF CatalogStops
<1> QED
  BY <1>1, <1>2, <1>3, PTL DEF OnSaleSpec

-----------------------------------------------------------------------------
(***************************************************************************)
(* What the services note of an ad, one handler at a time.                 *)
(***************************************************************************)
AdFields ==
  {"status", "stock", "active", "stockSync", "catalogSync", "reconciled"}
HandlerFields == {"job", "pc", "event", "todo", "read", "quantity"}

IsAd(row) == row = [f \in AdFields |-> row[f]]
IsHandler(row) ==
  /\ row = [f \in HandlerFields |-> row[f]]
  /\ row.read = [d \in StockAds |-> row.read[d]]

Serving == {w \in StockWorkers : projector[w].job # "none"}

\* Rows and workers are records of their fields, whatever most of these hold.
EvidenceRecords ==
  /\ projected = [d \in StockAds |-> projected[d]]
  /\ \A d \in StockAds : IsAd(projected[d])
  /\ projector = [w \in StockWorkers |-> projector[w]]
  /\ \A w \in StockWorkers : IsHandler(projector[w])
  /\ catalogEvents \in Nat /\ catalogQueue \subseteq 1 .. catalogEvents
  /\ \A d \in StockAds : projected[d].catalogSync \in 0 .. catalogEvents

OneServes == \A v, w \in Serving : v = w

SameEvidence(row, read) ==
  /\ read.stockSync = row.stockSync /\ read.catalogSync = row.catalogSync
  /\ read.reconciled = row.reconciled

\* A handler has read what is still in the row when it writes it back.
ReadsEvidence ==
  \A w \in Serving : projector[w].job # "sync" =>
    \A d \in projector[w].todo \cap StockAds :
      SameEvidence(projected[d], projector[w].read[d])

\* No ad has a Catalog event noted that is later than one still to be applied.
EventsInOrder ==
  /\ \A d \in StockAds, n \in catalogQueue : projected[d].catalogSync <= n
  /\ \A w \in Serving : projector[w].job = "catalog" =>
       /\ projector[w].event \in 1 .. catalogEvents
       /\ \A d \in StockAds : projected[d].catalogSync <= projector[w].event
       /\ \A n \in catalogQueue : projector[w].event <= n

EvidenceInv == EvidenceRecords /\ OneServes /\ ReadsEvidence /\ EventsInOrder

\* What a step leaves of the evidence of an ad.
Stays(d) ==
  /\ projected[d].stockSync # All!NoSync => projected'[d].stockSync # All!NoSync
  /\ projected[d].catalogSync # 0 =>
       projected'[d].catalogSync >= projected[d].catalogSync
  /\ projected[d].reconciled => projected'[d].reconciled

EvidenceStays == \A d \in All!Existing : Stays(d)

LEMMA IdleServes ==
  All!Idle.job = "none" /\ All!Idle.todo = {} /\ IsHandler(All!Idle)
BY DEF All!Idle, IsHandler, HandlerFields

\* The worker takes another row, and perhaps writes ads.
LEMMA EvidenceGoesOn ==
  ASSUME EvidenceInv, NEW w \in Serving, NEW row, IsHandler(row),
         projector' = [projector EXCEPT ![w] = row],
         row.job = "none" \/ /\ row.job = projector[w].job
                             /\ row.event = projector[w].event,
         row.job \in {"none", "sync"} \/
           /\ row.todo \subseteq projector[w].todo
           /\ \A d \in row.todo \cap StockAds :
                /\ row.read[d] = projector[w].read[d]
                /\ SameEvidence(projected'[d], projected[d]),
         UNCHANGED <<catalogEvents, catalogQueue>>,
         projected' = [d \in StockAds |-> projected'[d]],
         \A d \in StockAds :
           /\ IsAd(projected'[d])
           /\ \/ projected'[d].catalogSync \in {0, projected[d].catalogSync}
              \/ /\ projector[w].job = "catalog"
                 /\ projected'[d].catalogSync = projector[w].event
  PROVE  EvidenceInv'
<1>1. /\ projector' = [v \in StockWorkers |-> projector'[v]]
      /\ projector'[w] = row
      /\ \A v \in StockWorkers \ {w} : projector'[v] = projector[v]
  BY DEF EvidenceInv, EvidenceRecords, Serving
<1>2. Serving' \subseteq {w}
  BY <1>1 DEF EvidenceInv, OneServes, Serving
<1>3. \A d \in StockAds : projected'[d].catalogSync \in 0 .. catalogEvents
  <2>1. \A d \in StockAds : projected[d].catalogSync \in 0 .. catalogEvents
    BY DEF EvidenceInv, EvidenceRecords
  <2>2. catalogEvents \in Nat /\ 0 \in 0 .. catalogEvents
    BY DEF EvidenceInv, EvidenceRecords
  <2>3. projector[w].job = "catalog" =>
          projector[w].event \in 0 .. catalogEvents
    BY <2>2 DEF EvidenceInv, EventsInOrder
  <2> QED
    BY <2>1, <2>2, <2>3
<1>4. EvidenceRecords'
  BY <1>1, <1>3 DEF EvidenceInv, EvidenceRecords
<1>5. ReadsEvidence'
  <2> SUFFICES ASSUME w \in Serving', row.job # "sync",
                      NEW d \in row.todo \cap StockAds
               PROVE  SameEvidence(projected'[d], row.read[d])
    BY <1>1, <1>2 DEF ReadsEvidence, SameEvidence
  <2>1. row.job # "none"
    BY <1>1 DEF Serving
  <2>2. SameEvidence(projected[d], projector[w].read[d])
    BY <2>1 DEF EvidenceInv, ReadsEvidence
  <2> QED
    BY <2>1, <2>2 DEF SameEvidence
<1>6. \A d \in StockAds : projected'[d].catalogSync \in Nat
      /\ projected[d].catalogSync \in Nat
  BY <1>3 DEF EvidenceInv, EvidenceRecords
<1>7. \A d \in StockAds, n \in catalogQueue : projected'[d].catalogSync <= n
  <2> SUFFICES ASSUME NEW d \in StockAds, NEW n \in catalogQueue
               PROVE  projected'[d].catalogSync <= n
    OBVIOUS
  <2>1. n \in Nat
    BY DEF EvidenceInv, EvidenceRecords
  <2> QED
    BY <1>6, <2>1 DEF EvidenceInv, EventsInOrder
<1>8. w \in Serving' /\ row.job = "catalog" =>
        /\ row.event \in 1 .. catalogEvents
        /\ \A d \in StockAds : projected'[d].catalogSync <= row.event
        /\ \A n \in catalogQueue : row.event <= n
  BY <1>6 DEF EvidenceInv, EventsInOrder
<1>9. EventsInOrder'
  BY <1>1, <1>2, <1>7, <1>8 DEF EventsInOrder
<1>10. OneServes'
  BY <1>2 DEF OneServes
<1> QED
  BY <1>4, <1>5, <1>9, <1>10 DEF EvidenceInv

\* A worker begins, and the seller's requests come, when none serves.
LEMMA NoneServes ==
  ASSUME EvidenceInv, All!Running < 1
  PROVE  Serving = {}
<1>1. \A S : All!Cardinality(S) = Cardinality(S)
  BY DEF All!Cardinality, Cardinality
<1>2. Cardinality(Serving) < 1
  BY <1>1 DEF All!Running, Serving
<1>3. SUFFICES ASSUME NEW v \in Serving PROVE FALSE
  OBVIOUS
<1>4. Serving = {v}
  BY <1>3 DEF EvidenceInv, OneServes
<1>5. Cardinality(Serving) = 1
  BY <1>4, FS_Singleton
<1> QED
  BY <1>2, <1>5

LEMMA EvidenceBegins ==
  ASSUME EvidenceInv, NEW w \in StockWorkers, Serving = {},
         NEW row, IsHandler(row),
         projector' = [projector EXCEPT ![w] = row],
         row.job # "sync" => \A d \in row.todo \cap StockAds :
           SameEvidence(projected[d], row.read[d]),
         projected' = projected, catalogEvents' = catalogEvents,
         catalogQueue' \subseteq catalogQueue,
         row.job = "catalog" =>
           /\ row.event \in catalogQueue
           /\ \A n \in catalogQueue : row.event <= n
  PROVE  EvidenceInv'
<1>1. /\ projector' = [v \in StockWorkers |-> projector'[v]]
      /\ projector'[w] = row
      /\ \A v \in StockWorkers \ {w} : projector'[v] = projector[v]
  BY DEF EvidenceInv, EvidenceRecords
<1>2. Serving' \subseteq {w}
  BY <1>1 DEF Serving
<1>3. EvidenceRecords'
  BY <1>1 DEF EvidenceInv, EvidenceRecords
<1>4. ReadsEvidence'
  BY <1>1, <1>2 DEF ReadsEvidence
<1>5. row.job = "catalog" =>
        /\ row.event \in 1 .. catalogEvents
        /\ \A d \in StockAds : projected[d].catalogSync <= row.event
        /\ \A n \in catalogQueue' : row.event <= n
  BY DEF EvidenceInv, EvidenceRecords, EventsInOrder
<1>6. EventsInOrder'
  BY <1>1, <1>2, <1>5 DEF EvidenceInv, EventsInOrder
<1> QED
  BY <1>2, <1>3, <1>4, <1>6 DEF EvidenceInv, OneServes

\* A set of event numbers has its first.
LEMMA FirstQueued ==
  ASSUME EvidenceInv, catalogQueue # {}
  PROVE  /\ All!Min(catalogQueue) \in catalogQueue
         /\ \A n \in catalogQueue : All!Min(catalogQueue) <= n
<1>1. PICK x \in catalogQueue : \A y \in catalogQueue : x <= y
  BY LeastIsThere DEF EvidenceInv, EvidenceRecords
<1> QED
  BY <1>1 DEF All!Min

\* Begin reads the ads there are.
LEMMA EvidenceReads ==
  ASSUME EvidenceInv, NEW w \in StockWorkers, Serving = {}, NEW job, NEW n,
         NEW todo, All!Begin(w, job, "ads", n, todo),
         projected' = projected, catalogEvents' = catalogEvents,
         catalogQueue' \subseteq catalogQueue,
         job = "catalog" =>
           n \in catalogQueue /\ \A k \in catalogQueue : n <= k
  PROVE  EvidenceInv'
<1> DEFINE row == [job |-> job, pc |-> "ads", event |-> n, todo |-> todo,
                   read |-> [d \in StockAds |-> IF d \in todo THEN projected[d]
                                                ELSE All!NoAd],
                   quantity |-> 0]
<1>1. projector' = [projector EXCEPT ![w] = row]
  BY DEF All!Begin
<1>2. /\ IsHandler(row) /\ row.job = job /\ row.event = n
      /\ row.todo = todo
      /\ \A d \in todo \cap StockAds : row.read[d] = projected[d]
  BY DEF IsHandler, HandlerFields
<1> HIDE DEF row
<1>3. \A d \in row.todo \cap StockAds : SameEvidence(projected[d], row.read[d])
  BY <1>2 DEF SameEvidence
<1>4. row.job = "catalog" =>
        row.event \in catalogQueue /\ \A k \in catalogQueue : row.event <= k
  BY <1>2
<1> QED
  BY <1>1, <1>2, <1>3, <1>4, EvidenceBegins

LEMMA Untouched ==
  projected' = projected /\ EvidenceInv => EvidenceStays
BY DEF EvidenceInv, EvidenceRecords, EvidenceStays, Stays, All!Existing

\* The worker keeps what it has to do, or is done, and writes no ad.
LEMMA WorkerChanges ==
  ASSUME EvidenceInv, NEW w \in StockWorkers, projector[w].job # "none",
         NEW row, IsHandler(row), projector' = [projector EXCEPT ![w] = row],
         row.job = "none" \/ /\ row.job = projector[w].job
                             /\ row.event = projector[w].event,
         row.job \in {"none", "sync"} \/
           /\ row.todo \subseteq projector[w].todo
           /\ \A d \in row.todo \cap StockAds :
                row.read[d] = projector[w].read[d],
         UNCHANGED <<catalogEvents, catalogQueue>>, projected' = projected
  PROVE  EvidenceInv' /\ EvidenceStays
<1>1. w \in Serving
  BY DEF Serving
<1>2. \A d \in StockAds :
        /\ IsAd(projected'[d])
        /\ SameEvidence(projected'[d], projected[d])
        /\ projected'[d].catalogSync \in {0, projected[d].catalogSync}
  BY DEF EvidenceInv, EvidenceRecords, SameEvidence
<1>3. projected' = [d \in StockAds |-> projected'[d]]
  BY DEF EvidenceInv, EvidenceRecords
<1>4. EvidenceInv'
  BY <1>1, <1>2, <1>3, EvidenceGoesOn
<1> QED
  BY <1>4, Untouched

\* The worker writes the ad, or not, and goes on to the next.
LEMMA EvidenceProceeds ==
  ASSUME EvidenceInv, NEW w \in StockWorkers, projector[w].job # "none",
         NEW d \in StockAds, NEW new, IsAd(new),
         projected' = [projected EXCEPT ![d] = new], All!Proceed(w, d),
         UNCHANGED <<catalogEvents, catalogQueue>>,
         \/ new.catalogSync = projected[d].catalogSync
         \/ /\ projector[w].job = "catalog"
            /\ new.catalogSync = projector[w].event,
         projected[d].stockSync # All!NoSync => new.stockSync # All!NoSync,
         projected[d].reconciled => new.reconciled
  PROVE  EvidenceInv' /\ EvidenceStays
<1> DEFINE rest == projector[w].todo \ {d}
           row == IF rest = {} THEN All!Idle
                  ELSE [projector[w] EXCEPT !.pc = "ads", !.todo = rest,
                                            !.read[d] = All!NoAd]
<1>0. w \in Serving /\ IsHandler(projector[w])
  BY DEF EvidenceInv, EvidenceRecords, Serving
<1>1. projector' = [projector EXCEPT ![w] = row]
  BY DEF All!Proceed
<1>2. rest # {} =>
        /\ IsHandler(row) /\ row.job = projector[w].job
        /\ row.event = projector[w].event /\ row.todo = rest
        /\ \A e \in rest \cap StockAds : row.read[e] = projector[w].read[e]
  BY <1>0 DEF IsHandler, HandlerFields
<1>3. rest = {} => IsHandler(row) /\ row.job = "none"
  BY IdleServes
<1>4. d \notin rest /\ rest \subseteq projector[w].todo
  OBVIOUS
<1>5. /\ projected' = [e \in StockAds |-> projected'[e]]
      /\ projected'[d] = new
      /\ \A e \in StockAds \ {d} : projected'[e] = projected[e]
  BY DEF EvidenceInv, EvidenceRecords
<1>6. \A e \in StockAds :
        /\ IsAd(projected'[e])
        /\ e # d => SameEvidence(projected'[e], projected[e])
        /\ \/ projected'[e].catalogSync \in {0, projected[e].catalogSync}
           \/ /\ projector[w].job = "catalog"
              /\ projected'[e].catalogSync = projector[w].event
  BY <1>5 DEF EvidenceInv, EvidenceRecords, SameEvidence
<1> HIDE DEF row, rest
<1>7. /\ IsHandler(row)
      /\ row.job = "none" \/ /\ row.job = projector[w].job
                             /\ row.event = projector[w].event
      /\ row.job \in {"none", "sync"} \/
           /\ row.todo \subseteq projector[w].todo
           /\ \A e \in row.todo \cap StockAds :
                /\ row.read[e] = projector[w].read[e]
                /\ SameEvidence(projected'[e], projected[e])
  BY <1>2, <1>3, <1>4, <1>6
<1>8. EvidenceInv'
  BY <1>0, <1>1, <1>5, <1>6, <1>7, EvidenceGoesOn
<1>9. \A e \in StockAds : /\ projected[e].catalogSync \in Nat
                          /\ projected'[e].catalogSync \in Nat
  BY <1>8 DEF EvidenceInv, EvidenceRecords
<1>10. projected'[d].catalogSync >= projected[d].catalogSync
  BY <1>0, <1>5, <1>9 DEF EvidenceInv, EventsInOrder
<1>11. ASSUME NEW e \in StockAds PROVE Stays(e)
  <2>1. CASE e = d
    BY <1>5, <1>10, <2>1 DEF Stays
  <2>2. CASE e # d
    <3>1. projected'[e].catalogSync >= projected[e].catalogSync
      BY <1>5, <1>9, <2>2
    <3> QED
      BY <1>5, <2>2, <3>1 DEF Stays
  <2> QED
    BY <2>1, <2>2
<1> QED
  BY <1>8, <1>11 DEF EvidenceStays, All!Existing

\* What a handler is at, and what it has read of the ad it writes.
LEMMA HandlerReads ==
  ASSUME EvidenceInv, NEW w \in StockWorkers, NEW d \in StockAds,
         projector[w].job \in {"stock", "catalog", "reconcile"},
         d \in projector[w].todo
  PROVE  /\ IsAd(projected[d])
         /\ SameEvidence(projected[d], projector[w].read[d])
BY DEF EvidenceInv, EvidenceRecords, ReadsEvidence, Serving

\* A handler that finds nothing to write goes on to the next ad.
LEMMA EvidenceSkips ==
  ASSUME EvidenceInv, NEW w \in StockWorkers, projector[w].job # "none",
         NEW d \in StockAds, projected' = projected, All!Proceed(w, d),
         UNCHANGED <<catalogEvents, catalogQueue>>
  PROVE  EvidenceInv' /\ EvidenceStays
<1> DEFINE new == projected[d]
<1>1. IsAd(new) /\ projected' = [projected EXCEPT ![d] = new]
  BY DEF EvidenceInv, EvidenceRecords
<1>2. /\ new.catalogSync = projected[d].catalogSync
      /\ new.stockSync = projected[d].stockSync
      /\ new.reconciled = projected[d].reconciled
  OBVIOUS
<1> HIDE DEF new
<1> QED
  BY <1>1, <1>2, EvidenceProceeds

LEMMA NotedIsNoted ==
  \A n : /\ All!Evidence(n, "applied") # All!NoSync
         /\ All!Evidence(n, "failed") # All!NoSync
<1> SUFFICES ASSUME NEW n
             PROVE  /\ All!Evidence(n, "applied") # All!NoSync
                    /\ All!Evidence(n, "failed") # All!NoSync
  OBVIOUS
<1>1. /\ All!Evidence(n, "applied").status = "applied"
      /\ All!Evidence(n, "failed").status = "failed"
      /\ All!NoSync.status = "none"
  BY DEF All!Evidence, All!NoSync
<1> QED
  BY <1>1

LEMMA EvidenceProject ==
  ASSUME EvidenceInv, NEW w \in StockWorkers, NEW d \in StockAds,
         All!StockProject(w, d)
  PROVE  EvidenceInv' /\ EvidenceStays
<1> DEFINE n == projector[w].event
           read == projector[w].read[d]
           new == All!Projected(projected[d], read, n)
<1>1. /\ projector[w].job = "stock" /\ d \in projector[w].todo
      /\ All!Proceed(w, d) /\ UNCHANGED <<catalogEvents, catalogQueue>>
  BY DEF All!StockProject, All!external, All!events, All!queues
<1>2. IsAd(projected[d]) /\ SameEvidence(projected[d], read)
  BY <1>1, HandlerReads
<1>3. CASE projected' = projected
  BY <1>1, <1>3, EvidenceSkips
<1>4. CASE projected' = [projected EXCEPT ![d] = new]
  <2>1. /\ IsAd(new) /\ new.catalogSync = projected[d].catalogSync
        /\ new.reconciled = projected[d].reconciled
        /\ new.stockSync = All!Evidence(n, "applied")
    BY <1>2 DEF All!Projected, IsAd, AdFields, SameEvidence
  <2>2. new.stockSync # All!NoSync
    BY <2>1, NotedIsNoted
  <2> HIDE DEF new
  <2> QED
    BY <1>1, <1>4, <2>1, <2>2, EvidenceProceeds
<1> QED
  BY <1>3, <1>4 DEF All!StockProject

LEMMA EvidenceProjectFails ==
  ASSUME EvidenceInv, NEW w \in StockWorkers, NEW d \in StockAds,
         All!StockProjectFails(w, d)
  PROVE  EvidenceInv' /\ EvidenceStays
<1> DEFINE n == projector[w].event
           read == projector[w].read[d]
           new == [projected[d] EXCEPT !.stockSync = All!Evidence(n, "failed"),
                     !.catalogSync = read.catalogSync,
                     !.reconciled = read.reconciled]
<1>1. /\ projector[w].job = "stock" /\ d \in projector[w].todo
      /\ All!Proceed(w, d) /\ UNCHANGED <<catalogEvents, catalogQueue>>
  BY DEF All!StockProjectFails, All!external, All!events, All!queues
<1>2. IsAd(projected[d]) /\ SameEvidence(projected[d], read)
  BY <1>1, HandlerReads
<1>3. CASE projected' = projected
  BY <1>1, <1>3, EvidenceSkips
<1>4. CASE projected' =
             [projected EXCEPT ![d].stockSync = All!Evidence(n, "failed"),
                               ![d].catalogSync = read.catalogSync,
                               ![d].reconciled = read.reconciled]
  <2>1. /\ IsAd(new) /\ new.catalogSync = projected[d].catalogSync
        /\ new.reconciled = projected[d].reconciled
        /\ new.stockSync = All!Evidence(n, "failed")
    BY <1>2 DEF IsAd, AdFields, SameEvidence
  <2>2. new.stockSync # All!NoSync
    BY <2>1, NotedIsNoted
  <2>3. projected' = [projected EXCEPT ![d] = new]
    BY <1>2, <1>4 DEF EvidenceInv, EvidenceRecords, IsAd, AdFields
  <2> HIDE DEF new
  <2> QED
    BY <1>1, <2>1, <2>2, <2>3, EvidenceProceeds
<1> QED
  BY <1>3, <1>4 DEF All!StockProjectFails

LEMMA EvidenceApply ==
  ASSUME EvidenceInv, NEW w \in StockWorkers, NEW d \in StockAds,
         All!CatalogApply(w, d)
  PROVE  EvidenceInv' /\ EvidenceStays
<1> DEFINE n == projector[w].event
           read == projector[w].read[d]
           new == [All!Disabled(projected[d], read) EXCEPT !.catalogSync = n]
<1>1. /\ projector[w].job = "catalog" /\ d \in projector[w].todo
      /\ All!Proceed(w, d) /\ UNCHANGED <<catalogEvents, catalogQueue>>
  BY DEF All!CatalogApply, All!external, All!events, All!queues
<1>2. IsAd(projected[d]) /\ SameEvidence(projected[d], read)
  BY <1>1, HandlerReads
<1>3. CASE projected' = projected
  BY <1>1, <1>3, EvidenceSkips
<1>4. CASE projected' = [projected EXCEPT ![d] = new]
  <2>1. /\ IsAd(new) /\ new.catalogSync = n
        /\ new.reconciled = projected[d].reconciled
        /\ new.stockSync = projected[d].stockSync
    BY <1>2 DEF All!Disabled, IsAd, AdFields, SameEvidence
  <2> HIDE DEF new
  <2> QED
    BY <1>1, <1>4, <2>1, EvidenceProceeds
<1> QED
  BY <1>3, <1>4 DEF All!CatalogApply

LEMMA EvidenceDisable ==
  ASSUME EvidenceInv, NEW w \in StockWorkers, NEW d \in StockAds,
         All!ReconcileDisable(w, d)
  PROVE  EvidenceInv' /\ EvidenceStays
<1> DEFINE read == projector[w].read[d]
           new == [All!Disabled(projected[d], read) EXCEPT !.reconciled = TRUE]
<1>1. /\ projector[w].job = "reconcile" /\ d \in projector[w].todo
      /\ All!Proceed(w, d) /\ UNCHANGED <<catalogEvents, catalogQueue>>
  BY DEF All!ReconcileDisable, All!external, All!events, All!queues
<1>2. IsAd(projected[d]) /\ SameEvidence(projected[d], read)
  BY <1>1, HandlerReads
<1>3. CASE projected' = projected
  BY <1>1, <1>3, EvidenceSkips
<1>4. CASE projected' = [projected EXCEPT ![d] = new]
  <2>1. /\ IsAd(new) /\ new.catalogSync = projected[d].catalogSync
        /\ new.reconciled = TRUE
        /\ new.stockSync = projected[d].stockSync
    BY <1>2 DEF All!Disabled, IsAd, AdFields, SameEvidence
  <2> HIDE DEF new
  <2> QED
    BY <1>1, <1>4, <2>1, EvidenceProceeds
<1> QED
  BY <1>3, <1>4 DEF All!ReconcileDisable

LEMMA EvidenceLooks ==
  ASSUME EvidenceInv, NEW w \in StockWorkers,
         \/ All!ReconcileCatalog(w) \/ All!SyncFindAd(w)
         \/ All!CatalogApplyFails(w)
         \/ \E d \in StockAds : All!ReconcileWarehouse(w, d)
  PROVE  EvidenceInv' /\ EvidenceStays
<1>1. /\ projector[w].job # "none" /\ projected' = projected
      /\ UNCHANGED <<catalogEvents, catalogQueue>>
      /\ IsHandler(projector[w])
  BY DEF All!ReconcileCatalog, All!SyncFindAd, All!CatalogApplyFails,
     All!ReconcileWarehouse, All!external, All!events, All!queues, EvidenceInv,
     EvidenceRecords
<1>2. ASSUME NEW pc, All!Goto(w, pc) PROVE EvidenceInv' /\ EvidenceStays
  <2> DEFINE row == [projector[w] EXCEPT !.pc = pc]
  <2>1. /\ IsHandler(row) /\ row.job = projector[w].job
        /\ row.event = projector[w].event /\ row.todo = projector[w].todo
        /\ row.read = projector[w].read
    BY <1>1 DEF IsHandler, HandlerFields
  <2>2. projector' = [projector EXCEPT ![w] = row]
    BY <1>2 DEF All!Goto
  <2> HIDE DEF row
  <2> QED
    BY <1>1, <2>1, <2>2, WorkerChanges
<1>3. CASE All!CatalogApplyFails(w)
  <2> DEFINE row == All!Idle
  <2>1. IsHandler(row) /\ row.job = "none"
    BY IdleServes
  <2>2. projector' = [projector EXCEPT ![w] = row]
    BY <1>3 DEF All!CatalogApplyFails
  <2> HIDE DEF row
  <2> QED
    BY <1>1, <2>1, <2>2, WorkerChanges
<1>4. ASSUME NEW d \in StockAds, All!ReconcileWarehouse(w, d)
      PROVE  EvidenceInv' /\ EvidenceStays
  BY <1>1, <1>2, <1>4, EvidenceSkips DEF All!ReconcileWarehouse
<1>5. CASE All!SyncFindAd(w)
  <2>1. ASSUME NEW d \in All!Existing,
               projector' = [projector EXCEPT ![w].pc = "update",
                                              ![w].todo = {d}]
        PROVE  EvidenceInv' /\ EvidenceStays
    <3> DEFINE row == [projector[w] EXCEPT !.pc = "update", !.todo = {d}]
    <3>1. /\ IsHandler(row) /\ row.job = projector[w].job
          /\ row.event = projector[w].event
      BY <1>1 DEF IsHandler, HandlerFields
    <3>2. projector' = [projector EXCEPT ![w] = row]
      BY <1>1, <2>1 DEF IsHandler, HandlerFields, EvidenceInv, EvidenceRecords
    <3>3. row.job = "sync"
      BY <1>5, <3>1 DEF All!SyncFindAd
    <3> HIDE DEF row
    <3> QED
      BY <1>1, <3>1, <3>2, <3>3, WorkerChanges
  <2> QED
    BY <1>2, <1>5, <2>1 DEF All!SyncFindAd
<1> QED
  BY <1>2, <1>3, <1>4, <1>5 DEF All!ReconcileCatalog

\* What was read at once is what is there.
LEMMA EvidenceStarts ==
  ASSUME EvidenceInv, NEW w \in StockWorkers,
         \/ All!StockDeliver(w) \/ All!CatalogDeliver(w)
         \/ All!ReconcileList(w) \/ All!SyncReadStock(w)
  PROVE  EvidenceInv' /\ EvidenceStays
<1>1. /\ Serving = {} /\ projected' = projected
      /\ catalogEvents' = catalogEvents
  BY NoneServes DEF All!StockDeliver, All!CatalogDeliver, All!ReconcileList,
     All!SyncReadStock, All!MayStart, All!external, All!events
<1>2. SUFFICES EvidenceInv'
  BY <1>1, Untouched
<1>3. ASSUME projector' = projector, catalogQueue' \subseteq catalogQueue
      PROVE  EvidenceInv'
  BY <1>1, <1>3 DEF EvidenceInv, EvidenceRecords, OneServes, ReadsEvidence,
     EventsInOrder, Serving
<1>4. CASE All!StockDeliver(w)
  <2>1. /\ catalogQueue' = catalogQueue
        /\ \/ projector' = projector
           \/ All!Begin(w, "stock", "ads", All!Min(stockQueue), All!Existing)
    BY <1>4 DEF All!StockDeliver
  <2>2. CASE All!Begin(w, "stock", "ads", All!Min(stockQueue), All!Existing)
    <3> DEFINE n == All!Min(stockQueue)
               todo == All!Existing
    <3>1. All!Begin(w, "stock", "ads", n, todo)
      BY <2>2
    <3> HIDE DEF n, todo
    <3> QED
      BY <1>1, <2>1, <3>1, EvidenceReads
  <2> QED
    BY <1>3, <2>1, <2>2
<1>5. CASE All!CatalogDeliver(w)
  <2> DEFINE n == All!Min(catalogQueue)
             todo == All!Existing
  <2>1. /\ catalogQueue # {} /\ catalogQueue' = catalogQueue \ {n}
        /\ \/ projector' = projector
           \/ All!Begin(w, "catalog", "ads", n, todo)
    BY <1>5 DEF All!CatalogDeliver
  <2>2. n \in catalogQueue /\ \A k \in catalogQueue : n <= k
    BY <2>1, FirstQueued
  <2> HIDE DEF n, todo
  <2>3. CASE All!Begin(w, "catalog", "ads", n, todo)
    BY <1>1, <2>1, <2>2, <2>3, EvidenceReads
  <2> QED
    BY <1>3, <2>1, <2>3
<1>6. CASE All!ReconcileList(w)
  <2> DEFINE todo == {d \in All!Existing : All!OnSale(d)}
  <2>1. /\ catalogQueue' = catalogQueue
        /\ All!Begin(w, "reconcile", "ads", 0, todo)
    BY <1>6 DEF All!ReconcileList, All!queues
  <2> HIDE DEF todo
  <2> QED
    BY <1>1, <2>1, EvidenceReads
<1>7. CASE All!SyncReadStock(w)
  <2> DEFINE row == [All!Idle EXCEPT !.job = "sync", !.pc = "find",
                                     !.quantity = available]
  <2>1. /\ projector' = [projector EXCEPT ![w] = row]
        /\ catalogQueue' = catalogQueue
    BY <1>7 DEF All!SyncReadStock, All!queues
  <2>2. IsHandler(row) /\ row.job = "sync"
    BY DEF All!Idle, IsHandler, HandlerFields
  <2> HIDE DEF row
  <2> QED
    BY <1>1, <2>1, <2>2, EvidenceBegins
<1> QED
  BY <1>4, <1>5, <1>6, <1>7

LEMMA EvidenceOffers ==
  ASSUME EvidenceInv, NEW w \in StockWorkers, NEW d \in StockAds,
         All!SyncUpdate(w, d)
  PROVE  EvidenceInv' /\ EvidenceStays
<1> DEFINE new == [projected[d] EXCEPT !.stock = projector[w].quantity,
                                       !.active = projector[w].quantity > 0]
<1>1. /\ projector[w].job # "none" /\ All!Proceed(w, d)
      /\ UNCHANGED <<catalogEvents, catalogQueue>> /\ IsAd(projected[d])
  BY DEF All!SyncUpdate, All!external, All!events, All!queues, EvidenceInv,
     EvidenceRecords
<1>2. /\ IsAd(new) /\ new.catalogSync = projected[d].catalogSync
      /\ new.stockSync = projected[d].stockSync
      /\ new.reconciled = projected[d].reconciled
  BY <1>1 DEF IsAd, AdFields
<1>3. projected' = [projected EXCEPT ![d] = new]
  BY <1>1 DEF All!SyncUpdate, EvidenceInv, EvidenceRecords, IsAd, AdFields
<1> HIDE DEF new
<1> QED
  BY <1>1, <1>2, <1>3, EvidenceProceeds

LEMMA EvidenceCreates ==
  ASSUME EvidenceInv, NEW w \in StockWorkers, NEW d \in StockAds,
         All!SyncCreate(w, d)
  PROVE  EvidenceInv' /\ EvidenceStays
<1> DEFINE new == All!NewAd("draft", projector[w].quantity)
           row == All!Idle
<1>1. /\ w \in Serving /\ d \notin All!Existing
      /\ projected' = [projected EXCEPT ![d] = new]
      /\ projector' = [projector EXCEPT ![w] = row]
      /\ UNCHANGED <<catalogEvents, catalogQueue>>
  BY DEF All!SyncCreate, All!external, All!events, All!queues, Serving
<1>2. IsAd(new) /\ new.catalogSync = 0
  BY DEF All!NewAd, IsAd, AdFields
<1>3. IsHandler(row) /\ row.job = "none"
  BY IdleServes
<1> HIDE DEF new, row
<1>4. /\ projected' = [e \in StockAds |-> projected'[e]]
      /\ projected'[d] = new
      /\ \A e \in StockAds \ {d} : projected'[e] = projected[e]
  BY <1>1 DEF EvidenceInv, EvidenceRecords
<1>5. \A e \in StockAds :
        /\ IsAd(projected'[e])
        /\ projected'[e].catalogSync \in {0, projected[e].catalogSync}
  BY <1>2, <1>4 DEF EvidenceInv, EvidenceRecords
<1>6. EvidenceInv'
  BY <1>1, <1>3, <1>4, <1>5, EvidenceGoesOn
<1>7. \A e \in StockAds \ {d} : Stays(e)
  BY <1>4 DEF EvidenceInv, EvidenceRecords, Stays
<1> QED
  BY <1>1, <1>6, <1>7 DEF EvidenceStays, All!Existing

\* What the seller's operations write: no handler has read the row.
LEMMA EvidenceSeller ==
  ASSUME EvidenceInv, NEW d \in StockAds, NEW row, All!SellerWrites(d, row),
         IsAd(row), row.catalogSync \in {0, projected[d].catalogSync}
  PROVE  /\ EvidenceInv' /\ projected'[d] = row
         /\ \A e \in StockAds \ {d} : Stays(e)
<1>1. /\ projected' = [projected EXCEPT ![d] = row]
      /\ UNCHANGED <<catalogEvents, catalogQueue, projector>>
      /\ All!Running = 0
  BY DEF All!SellerWrites, All!MaySlipIn, All!external, All!events, All!queues
<1>2. Serving = {} /\ Serving' = {}
  BY <1>1, NoneServes DEF Serving
<1>3. /\ projected' = [e \in StockAds |-> projected'[e]]
      /\ projected'[d] = row
      /\ \A e \in StockAds \ {d} : projected'[e] = projected[e]
  BY <1>1 DEF EvidenceInv, EvidenceRecords
<1>4. \A e \in StockAds :
        /\ IsAd(projected'[e])
        /\ projected'[e].catalogSync \in {0, projected[e].catalogSync}
  BY <1>3 DEF EvidenceInv, EvidenceRecords
<1>5. EvidenceRecords'
  BY <1>1, <1>3, <1>4 DEF EvidenceInv, EvidenceRecords
<1>6. EventsInOrder'
  <2>1. \A e \in StockAds, n \in catalogQueue : projected'[e].catalogSync <= n
    BY <1>4 DEF EvidenceInv, EvidenceRecords, EventsInOrder
  <2> QED
    BY <1>1, <1>2, <2>1 DEF EventsInOrder
<1>7. \A e \in StockAds \ {d} : Stays(e)
  BY <1>3 DEF EvidenceInv, EvidenceRecords, Stays
<1> QED
  BY <1>2, <1>3, <1>5, <1>6, <1>7 DEF EvidenceInv, OneServes, ReadsEvidence

\* Offers, new drafts, edits and results leave what was noted.
LEMMA EvidenceEdits ==
  ASSUME EvidenceInv, NEW d \in StockAds,
         \/ \E active \in BOOLEAN : All!SetActive(d, active)
         \/ \E q \in Quantities : All!CreateDraft(d, q) \/ All!EditAd(d, q)
         \/ \E status \in {"draft", "published"} : All!PublishAd(d, status)
  PROVE  EvidenceInv' /\ EvidenceStays
<1>1. IsAd(projected[d]) /\ projected[d].catalogSync \in Nat
  BY DEF EvidenceInv, EvidenceRecords
<1>2. ASSUME NEW row, All!SellerWrites(d, row), IsAd(row),
             SameEvidence(row, projected[d])
      PROVE  EvidenceInv' /\ EvidenceStays
  <2>1. /\ EvidenceInv' /\ projected'[d] = row
        /\ \A e \in StockAds \ {d} : Stays(e)
    BY <1>2, EvidenceSeller DEF SameEvidence
  <2>2. Stays(d)
    BY <1>1, <1>2, <2>1 DEF Stays, SameEvidence
  <2> QED
    BY <2>1, <2>2 DEF EvidenceStays, All!Existing
<1>3. ASSUME NEW active \in BOOLEAN, All!SetActive(d, active)
      PROVE  EvidenceInv' /\ EvidenceStays
  <2> DEFINE row == [projected[d] EXCEPT !.active = active]
  <2>1. All!SellerWrites(d, row)
    BY <1>3 DEF All!SetActive
  <2>2. IsAd(row) /\ SameEvidence(row, projected[d])
    BY <1>1 DEF IsAd, AdFields, SameEvidence
  <2> QED
    BY <1>2, <2>1, <2>2
<1>4. ASSUME NEW q \in Quantities, All!EditAd(d, q)
      PROVE  EvidenceInv' /\ EvidenceStays
  <2> DEFINE row == [projected[d] EXCEPT !.stock = q]
  <2>1. All!SellerWrites(d, row)
    BY <1>4 DEF All!EditAd
  <2>2. IsAd(row) /\ SameEvidence(row, projected[d])
    BY <1>1 DEF IsAd, AdFields, SameEvidence
  <2> QED
    BY <1>2, <2>1, <2>2
<1>5. ASSUME NEW status, All!PublishAd(d, status)
      PROVE  EvidenceInv' /\ EvidenceStays
  <2> DEFINE row == [projected[d] EXCEPT !.status = status]
  <2>1. All!SellerWrites(d, row)
    BY <1>5 DEF All!PublishAd
  <2>2. IsAd(row) /\ SameEvidence(row, projected[d])
    BY <1>1 DEF IsAd, AdFields, SameEvidence
  <2> QED
    BY <1>2, <2>1, <2>2
<1>6. ASSUME NEW q \in Quantities, All!CreateDraft(d, q)
      PROVE  EvidenceInv' /\ EvidenceStays
  <2> DEFINE row == [All!NewAd("draft", q) EXCEPT !.active = TRUE]
  <2>1. All!SellerWrites(d, row) /\ d \notin All!Existing
    BY <1>6 DEF All!CreateDraft
  <2>2. IsAd(row) /\ row.catalogSync = 0
    BY DEF All!NewAd, IsAd, AdFields
  <2>3. EvidenceInv' /\ \A e \in StockAds \ {d} : Stays(e)
    BY <2>1, <2>2, EvidenceSeller
  <2> QED
    BY <2>1, <2>3 DEF EvidenceStays, All!Existing
<1> QED
  BY <1>3, <1>4, <1>5, <1>6

\* A policy check, a claim and a prepared draft take the notes of one ad away.
LEMMA EvidenceReplaced ==
  ASSUME EvidenceInv, NEW d \in StockAds,
         \/ All!CheckPolicy(d) \/ All!ClaimAd(d)
         \/ \E q \in Quantities : All!Prepare(d, q)
  PROVE  EvidenceInv' /\ All!Replaces
<1> SUFFICES EvidenceInv'
  BY DEF All!Replaces
<1>1. IsAd(projected[d])
  BY DEF EvidenceInv, EvidenceRecords
<1> DEFINE bare == All!Unnoted(projected[d])
<1>2. IsAd(bare) /\ bare.catalogSync = 0
  BY <1>1 DEF All!Unnoted, IsAd, AdFields
<1> HIDE DEF bare
<1>3. CASE All!CheckPolicy(d)
  BY <1>2, <1>3, EvidenceSeller DEF All!CheckPolicy, bare
<1>4. CASE All!ClaimAd(d)
  <2> DEFINE row == [bare EXCEPT !.status = "draft"]
  <2>1. All!SellerWrites(d, row)
    BY <1>4 DEF All!ClaimAd, bare
  <2>2. IsAd(row) /\ row.catalogSync = 0
    BY <1>2 DEF IsAd, AdFields
  <2> QED
    BY <2>1, <2>2, EvidenceSeller
<1>5. ASSUME NEW q \in Quantities, All!Prepare(d, q) PROVE EvidenceInv'
  <2> DEFINE row == [bare EXCEPT !.stock = q, !.status = "draft"]
  <2>1. All!SellerWrites(d, row)
    BY <1>5 DEF All!Prepare, bare
  <2>2. IsAd(row) /\ row.catalogSync = 0
    BY <1>2 DEF IsAd, AdFields
  <2> QED
    BY <2>1, <2>2, EvidenceSeller
<1> QED
  BY <1>3, <1>4, <1>5

\* Catalog and Warehouse, and a restart.
LEMMA EvidenceOutside ==
  ASSUME EvidenceInv,
         \/ All!ChangeStock \/ All!StopOffering \/ All!OfferAgain \/ All!Crash
  PROVE  EvidenceInv' /\ EvidenceStays
<1>1. projected' = projected
  BY DEF All!ChangeStock, All!StopOffering, All!OfferAgain, All!Crash
<1>2. SUFFICES EvidenceInv'
  BY <1>1, Untouched
<1>3. CASE All!ChangeStock \/ All!OfferAgain
  <2>1. UNCHANGED <<projected, projector, catalogEvents, catalogQueue>>
    BY <1>3 DEF All!ChangeStock, All!OfferAgain, All!events, All!queues
  <2> QED
    BY <2>1 DEF EvidenceInv, EvidenceRecords, OneServes, ReadsEvidence,
       EventsInOrder, Serving
<1>4. CASE All!StopOffering
  <2>1. /\ projector' = projector /\ catalogEvents' = catalogEvents + 1
        /\ catalogQueue' = catalogQueue \cup {catalogEvents + 1}
    BY <1>4 DEF All!StopOffering
  <2>2. /\ catalogEvents \in Nat /\ catalogQueue \subseteq 1 .. catalogEvents
        /\ \A d \in StockAds : projected[d].catalogSync \in 0 .. catalogEvents
    BY DEF EvidenceInv, EvidenceRecords
  <2>3. /\ catalogEvents' \in Nat /\ catalogQueue' \subseteq 1 .. catalogEvents'
        /\ \A d \in StockAds : projected[d].catalogSync \in 0 .. catalogEvents'
        /\ \A d \in StockAds : projected[d].catalogSync <= catalogEvents + 1
        /\ \A n \in 1 .. catalogEvents : n \in 1 .. catalogEvents'
                                         /\ n <= catalogEvents + 1
    BY <2>1, <2>2
  <2>4. EvidenceRecords' /\ OneServes' /\ ReadsEvidence'
    BY <1>1, <2>1, <2>3 DEF EvidenceInv, EvidenceRecords, OneServes,
       ReadsEvidence, Serving
  <2>5. EventsInOrder'
    BY <1>1, <2>1, <2>3 DEF EvidenceInv, EventsInOrder, Serving
  <2> QED
    BY <2>4, <2>5 DEF EvidenceInv
<1>5. CASE All!Crash
  <2>1. /\ catalogEvents' = catalogEvents
        /\ catalogQueue' = catalogQueue \cup All!Unacked("catalog")
        /\ projector' = [w \in StockWorkers |-> All!Idle]
    BY <1>5 DEF All!Crash, All!external, All!events
  <2>2. Serving' = {}
    BY <2>1, IdleServes DEF Serving
  <2>3. \A n \in All!Unacked("catalog") :
          /\ n \in 1 .. catalogEvents
          /\ \A d \in StockAds : projected[d].catalogSync <= n
    BY DEF All!Unacked, EvidenceInv, EventsInOrder, Serving
  <2>4. EvidenceRecords'
    BY <1>1, <2>1, <2>3, IdleServes DEF EvidenceInv, EvidenceRecords
  <2> QED
    BY <1>1, <2>1, <2>2, <2>3, <2>4 DEF EvidenceInv, OneServes, ReadsEvidence,
       EventsInOrder
<1> QED
  BY <1>3, <1>4, <1>5

LEMMA EvidenceStep ==
  ASSUME EvidenceInv, All!Next
  PROVE  EvidenceInv' /\ (EvidenceStays \/ All!Replaces)
<1>1. ASSUME NEW w \in StockWorkers, All!Work(w)
      PROVE  EvidenceInv' /\ EvidenceStays
  BY <1>1, EvidenceStarts, EvidenceLooks, EvidenceProject, EvidenceProjectFails,
     EvidenceApply, EvidenceDisable, EvidenceOffers, EvidenceCreates
     DEF All!Work
<1>2. ASSUME NEW d \in StockAds, All!Publishing(d)
      PROVE  EvidenceInv' /\ (EvidenceStays \/ All!Replaces)
  BY <1>2, EvidenceEdits, EvidenceReplaced DEF All!Publishing
<1> QED
  BY <1>1, <1>2, EvidenceOutside, EvidenceStarts, EvidenceEdits DEF All!Next

LEMMA EvidenceInit == All!Init => EvidenceInv
<1> SUFFICES ASSUME All!Init PROVE EvidenceInv
  OBVIOUS
<1>1. /\ catalogEvents = 0 /\ catalogQueue = {}
      /\ projector = [w \in StockWorkers |-> All!Idle]
      /\ projected \in [StockAds -> {All!NoAd, All!NewAd("published", available)}]
  BY DEF All!Init
<1>2. /\ IsAd(All!NoAd) /\ All!NoAd.catalogSync = 0
      /\ IsAd(All!NewAd("published", available))
      /\ All!NewAd("published", available).catalogSync = 0
  BY DEF All!NoAd, All!NewAd, IsAd, AdFields
<1>3. Serving = {}
  BY <1>1, IdleServes DEF Serving
<1>4. EvidenceRecords
  BY <1>1, <1>2, IdleServes DEF EvidenceRecords
<1> QED
  BY <1>1, <1>3, <1>4 DEF EvidenceInv, OneServes, ReadsEvidence, EventsInOrder

\* While no two of them overlap, stock events, Catalog events, reconciliations,
\* offer operations, edits, queueing and results keep what was noted in
\* lastPolicyCheck, through failures and restarts (buildAdStockProjection and
\* the Catalog subscriber write the whole column back), for any number of ads
\* and events.  Only a policy check, a claim and a prepared draft, which write
\* a new column, remove a note.
THEOREM EvidenceIsKept == OnSaleSpec => EvidenceKept
<1> DEFINE Inv == setting = "all" => EvidenceInv
<1>1. OnSaleInit => Inv
  BY EvidenceInit DEF OnSaleInit
<1>2. Inv /\ [OnSaleNext]_OnSaleVars =>
        Inv' /\ [setting = "all" => All!KeepsEvidence \/ All!Replaces]_OnSaleVars
  <2> SUFFICES ASSUME Inv, [OnSaleNext]_OnSaleVars
               PROVE  Inv' /\ [setting = "all" => All!KeepsEvidence \/ All!Replaces]_OnSaleVars
    OBVIOUS
  <2>1. CASE UNCHANGED OnSaleVars
    <3>1. UNCHANGED <<setting, projected, projector, catalogEvents, catalogQueue>>
      BY <2>1 DEF OnSaleVars, StockVars
    <3>2. EvidenceInv => EvidenceInv'
      BY <3>1 DEF EvidenceInv, EvidenceRecords, OneServes, ReadsEvidence,
         EventsInOrder, Serving
    <3> QED
      BY <2>1, <3>1, <3>2
  <2>2. CASE OnSaleNext
    <3>1. EvidenceStays => All!KeepsEvidence
      BY DEF EvidenceStays, Stays, All!KeepsEvidence
    <3> QED
      BY <2>2, <3>1, EvidenceStep DEF OnSaleNext
  <2> QED
    BY <2>1, <2>2
<1> QED
  BY <1>1, <1>2, PTL DEF OnSaleSpec, EvidenceKept
=============================================================================

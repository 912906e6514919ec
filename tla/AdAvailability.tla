--------------------------- MODULE AdAvailability ---------------------------
(***************************************************************************)
(* What BazosAdService believes of listings already published, and how it  *)
(* finds out: a timer checks one due ad a minute, users open, list or      *)
(* refresh ads, and each of these fetches the public page (at most five    *)
(* seconds), then writes the row from what it read before.  Users edit,    *)
(* evaluate and manage the ads meanwhile.  Times are countdowns: next and  *)
(* left fall to 0 as Tick passes.                                          *)
(***************************************************************************)
EXTENDS Integers, Sequences, FiniteSets, SequencesExt

CONSTANTS
  Ads,               \* ads of one identity
  Requests,          \* user requests being served
  Window,            \* how many published ads the timer looks at (take: 100)
  MinInterval, MaxInterval,  \* ticks between checks of a managed ad, jitter
  Lifetime,          \* ticks a listing lives (30 days)
  FallbackAfter,     \* ticks after which an ad without expiresAt is checked
  MaxRunning,        \* bound: handlers running at once; 1 is no overlap
  MaxRequests,       \* bound: user requests
  MaxFaults,         \* bound: lookups without a usable answer
  MaxThrows,         \* bound: handlers that end with a database error
  MaxEdits,          \* bound: versions of the content
  MaxDays,           \* bound: midnights
  Evaluates          \* is the policy evaluated for published ads?

\* Asked of the parameters of an instance.
AvailabilityAssumption ==
  /\ {Window, MinInterval, MaxInterval, FallbackAfter, MaxRunning}
       \subseteq Nat \ {0}
  /\ {Lifetime, MaxRequests, MaxFaults, MaxThrows, MaxEdits, MaxDays}
       \subseteq Nat
  /\ MinInterval <= MaxInterval /\ FallbackAfter <= Lifetime
  /\ Evaluates \in BOOLEAN

VARIABLES
  ad,                \* bazosAd rows
  order,             \* the ads by updatedAt
  expiry,            \* expiresAt or, unknown, lastPublishedAt plus Lifetime
  activeAdCount,     \* of the identity
  listing,           \* the public pages on Bazos
  worker,            \* the timer and the user requests, with their locals
  day, edits, requests, faults, throws,
  prepared           \* content saved here that a human is to put on Bazos

clock == <<expiry, day>>
counters == <<edits, requests, faults, throws>>
vars == <<ad, order, activeAdCount, listing, worker, clock, counters, prepared>>

None == -1
Contents == 0 .. MaxEdits
Days == 0 .. MaxDays
Workers == {"timer"} \cup Requests
Interval == MinInterval .. MaxInterval

\* pending, enabled and next are entries of lastPolicyCheck.
AdRow == [status: {"published", "deleted"}, active: BOOLEAN, content: Contents,
          pending: Days \cup {None}, enabled: BOOLEAN, next: 0 .. MaxInterval]
Answer == [available: {"yes", "no", "unknown"}, content: Contents, date: Days]
NoAnswer == [available |-> "unknown", content |-> 0, date |-> 0]
Jobs == {"timer", "refresh", "open", "list", "edit", "manage", "evaluate"}
Locals ==
  [job: Jobs, ad: Ads, read: AdRow, slot: 0 .. MaxInterval, answer: Answer,
   pc: {"pending", "resolve", "fetch", "apply", "schedule", "disable", "count",
        "write"}]
Idle == [job |-> "none"]
Busy(w) == worker[w] # Idle

TypeOK ==
  /\ ad \in [Ads -> AdRow]
  /\ order \in [1 .. Cardinality(Ads) -> Ads]
  /\ expiry \in [Ads -> [left: 0 .. Lifetime, known: BOOLEAN]]
  /\ activeAdCount \in 0 .. Cardinality(Ads) + MaxRequests
  /\ listing \in [Ads -> [online: BOOLEAN, content: Contents, date: Days]]
  /\ worker \in [Workers -> Locals \cup {Idle}]
  /\ prepared \in [Ads -> Contents \cup {None}]

Init ==
  /\ ad = [a \in Ads |-> [status |-> "published", active |-> TRUE, content |-> 0,
                          pending |-> None, enabled |-> FALSE, next |-> 0]]
  /\ order \in SetToAllKPermutations(Ads) /\ Len(order) = Cardinality(Ads)
  /\ expiry \in [Ads -> [left: {Lifetime}, known: BOOLEAN]]
  /\ activeAdCount = Cardinality(Ads)
  /\ listing = [a \in Ads |-> [online |-> TRUE, content |-> 0, date |-> 0]]
  /\ worker = [w \in Workers |-> Idle]
  /\ day = 0 /\ edits = 0 /\ requests = 0 /\ faults = 0 /\ throws = 0
  /\ prepared = [a \in Ads |-> None]

-----------------------------------------------------------------------------
Place(a) == CHOOSE k \in DOMAIN order : order[k] = a

\* Every statement that writes a row moves it to the end of updatedAt.
Store(a, row) ==
  /\ ad' = [ad EXCEPT ![a] = row]
  /\ order' = Append(RemoveAt(order, Place(a)), a)

\* lastPolicyCheck is written as a whole, from what was read of it.
PutBack(a, read) ==
  [ad[a] EXCEPT !.pending = read.pending, !.enabled = read.enabled,
                !.next = read.next]

TrackingExpired(a) == expiry[a].left = 0

\* The fallback of ads nobody manages waits for 14 days, not for 30.
FallbackDue(a) == IF expiry[a].known THEN expiry[a].left = 0
                  ELSE expiry[a].left <= Lifetime - FallbackAfter
CheckDue(a) == IF ad[a].enabled THEN ad[a].next = 0 ELSE FallbackDue(a)

\* Mutant: the ads written last come first.
CandidatesNewest ==
  LET published == SelectSeq(Reverse(order),
                             LAMBDA a : ad[a].status = "published")
  IN SubSeq(published, 1, IF Len(published) < Window THEN Len(published)
                                                     ELSE Window)

Candidates ==
  LET published == SelectSeq(order, LAMBDA a : ad[a].status = "published")
  IN SubSeq(published, 1, IF Len(published) < Window THEN Len(published)
                                                     ELSE Window)

Running == Cardinality({w \in Workers : Busy(w)})

Begin(w, job, pc, a) ==
  /\ ~Busy(w) /\ Running < MaxRunning
  /\ \E slot \in Interval :
       worker' = [worker EXCEPT ![w] =
         [job |-> job, ad |-> a, read |-> ad[a], slot |-> slot,
          answer |-> NoAnswer, pc |-> pc]]

Goto(w, pc) == worker' = [worker EXCEPT ![w].pc = pc]
End(w) == worker' = [worker EXCEPT ![w] = Idle]

-----------------------------------------------------------------------------
(***************************************************************************)
(* The timer: at most one run at a time, at most one ad a run.             *)
(***************************************************************************)
TimerChecks(a) ==
  /\ LET due == SelectSeq(Candidates, CheckDue) IN due # << >> /\ a = Head(due)
  /\ Begin("timer", "timer", "fetch", a)
  /\ UNCHANGED <<ad, order, activeAdCount, listing, expiry, day, counters,
                 prepared>>

(***************************************************************************)
(* Requests of users.                                                      *)
(***************************************************************************)
\* Where opening an ad goes on once a pending update is resolved.
ManagedPc(a, row) ==
  IF ~row.enabled THEN "end"
  ELSE IF row.status = "deleted" \/ TrackingExpired(a) THEN "disable"
  ELSE "fetch"

FirstPc(job, a) ==
  CASE job \in {"open", "list"} /\ ad[a].pending # None -> "pending"
    [] job = "open" /\ ad[a].pending = None -> ManagedPc(a, ad[a])
    [] job = "list" /\ ad[a].pending = None -> "end"
    [] job = "refresh" -> IF ad[a].active /\ ad[a].status = "published"
                          THEN "fetch" ELSE "count"
    [] job = "manage" -> IF ad[a].status = "deleted" THEN "end" ELSE "write"
    [] job = "edit" -> IF edits < MaxEdits THEN "write" ELSE "end"
    [] job = "evaluate" -> IF Evaluates THEN "write" ELSE "end"

\* A request on several ads is one request on each of them.
StartRequest(w, job, a) ==
  /\ requests < MaxRequests
  /\ requests' = requests + 1
  /\ FirstPc(job, a) # "end"
  /\ Begin(w, job, FirstPc(job, a), a)
  /\ UNCHANGED <<ad, order, activeAdCount, listing, clock, edits, faults,
                 throws, prepared>>

\* fetchBazosPublicStatus: a 404, a 410 or a page that says so is gone; every
\* other answer than a page is unknown, as is a failure or the timeout.
Fetch(w) ==
  LET c == worker[w]
      page == listing[c.ad]
      seen == [available |-> IF page.online THEN "yes" ELSE "no",
               content |-> page.content, date |-> page.date]
  IN /\ Busy(w) /\ c.pc \in {"pending", "fetch"}
     /\ \/ /\ worker' = [worker EXCEPT ![w].answer = seen, ![w].pc =
                           IF c.pc = "pending" THEN "resolve" ELSE "apply"]
           /\ UNCHANGED faults
        \/ /\ faults < MaxFaults
           /\ faults' = faults + 1
           /\ worker' = [worker EXCEPT ![w].pc =
                           IF c.pc = "pending" THEN "resolve" ELSE "apply"]
     /\ UNCHANGED <<ad, order, activeAdCount, listing, clock, edits, requests,
                    throws, prepared>>

\* Mutant: no answer counts as gone.
IsGoneUnlessSeen(answer) == answer.available # "yes"
IsGone(answer) == answer.available = "no"

Deleted(a, read) ==
  [PutBack(a, read) EXCEPT !.status = "deleted", !.active = FALSE,
                           !.enabled = FALSE]

\* Mutant: any answer confirms the update.
FreshWhateverDay(savedAt, answer) == answer.available = "yes"
\* Compared by calendar day: Bazos shows no time.
IsFresh(savedAt, answer) == answer.available = "yes" /\ answer.date >= savedAt

\* resolvePendingBazosUpdate, then what opening the ad does next.
ResolvePending(w) ==
  LET c == worker[w]
      a == c.ad
      gone == IsGone(c.answer)
      fresh == IsFresh(c.read.pending, c.answer)
      row == IF gone THEN Deleted(a, c.read)
             ELSE [PutBack(a, c.read) EXCEPT !.pending = None]
      next == IF c.job = "list" THEN "end"
              ELSE ManagedPc(a, IF gone \/ fresh THEN row ELSE c.read)
  IN /\ Busy(w) /\ c.pc = "resolve"
     /\ IF gone \/ fresh THEN Store(a, row) ELSE UNCHANGED <<ad, order>>
     /\ worker' = [worker EXCEPT ![w] =
          IF next = "end" THEN Idle
          ELSE [c EXCEPT !.pc = next, !.answer = NoAnswer,
                         !.read = IF gone \/ fresh THEN row ELSE c.read]]
     /\ UNCHANGED <<activeAdCount, listing, clock, counters, prepared>>

\* markDeletedOnBazos
ApplyGone(w) ==
  LET c == worker[w] IN
  /\ Busy(w) /\ c.pc = "apply" /\ IsGone(c.answer)
  /\ Store(c.ad, Deleted(c.ad, c.read))
  /\ Goto(w, "count")
  /\ UNCHANGED <<activeAdCount, listing, clock, counters, prepared>>

\* syncFromPublicListing: the page overwrites what differed from it when the
\* row was read.
ApplyOnline(w) ==
  LET c == worker[w]
      row == [PutBack(c.ad, c.read) EXCEPT
                !.content = IF c.answer.content # c.read.content
                            THEN c.answer.content ELSE @]
  IN /\ Busy(w) /\ c.pc = "apply" /\ c.answer.available = "yes"
     /\ Store(c.ad, row)
     /\ worker' = [worker EXCEPT ![w].read = row, ![w].pc =
                     IF c.job = "refresh" THEN "count" ELSE "schedule"]
     /\ UNCHANGED <<activeAdCount, listing, clock, counters, prepared>>

ApplyUnknown(w) ==
  LET c == worker[w] IN
  /\ Busy(w) /\ c.pc = "apply" /\ c.answer.available = "unknown"
  /\ ~IsGone(c.answer)
  /\ Goto(w, IF c.job = "refresh" THEN "count" ELSE "schedule")
  /\ UNCHANGED <<ad, order, activeAdCount, listing, clock, counters, prepared>>

\* The recount follows the timer's and a refresh's checks; opening an ad only
\* recounts when it is gone.
AfterSchedule(w) == IF worker[w].job = "timer" THEN Goto(w, "count") ELSE End(w)

\* The time stored for an ad nobody manages is its expiry, which nothing reads.
Schedule(w) ==
  LET c == worker[w] IN
  /\ Busy(w) /\ c.pc = "schedule"
  /\ Store(c.ad, IF c.read.enabled
                 THEN [PutBack(c.ad, c.read) EXCEPT !.next = c.slot]
                 ELSE PutBack(c.ad, c.read))
  /\ AfterSchedule(w)
  /\ UNCHANGED <<activeAdCount, listing, clock, counters, prepared>>

\* reconcileIdentityCounts
Recount(w) ==
  /\ Busy(w) /\ worker[w].pc = "count"
  /\ activeAdCount' =
       Cardinality({a \in Ads : ad[a].active /\ ad[a].status = "published"})
  /\ End(w)
  /\ UNCHANGED <<ad, order, listing, clock, counters, prepared>>

\* disableAvailabilityCheck
DisableCheck(w) ==
  LET c == worker[w] IN
  /\ Busy(w) /\ c.pc = "disable"
  /\ Store(c.ad, [PutBack(c.ad, c.read) EXCEPT !.enabled = FALSE])
  /\ End(w)
  /\ UNCHANGED <<activeAdCount, listing, clock, counters, prepared>>

\* updateDraft of an ad that is on Bazos: the update is to be applied there.
UpdateDraft(w) ==
  LET c == worker[w] IN
  /\ Busy(w) /\ c.pc = "write" /\ c.job = "edit" /\ edits < MaxEdits
  /\ edits' = edits + 1
  /\ Store(c.ad, [PutBack(c.ad, c.read) EXCEPT !.content = edits',
                                               !.pending = day])
  /\ prepared' = [prepared EXCEPT ![c.ad] = edits']
  /\ End(w)
  /\ UNCHANGED <<activeAdCount, listing, clock, requests, faults, throws>>

\* recordBazosManageOpened
ManageOpened(w) ==
  LET c == worker[w] IN
  /\ Busy(w) /\ c.pc = "write" /\ c.job = "manage"
  /\ Store(c.ad, [PutBack(c.ad, c.read) EXCEPT !.enabled = TRUE,
                                               !.next = c.slot])
  /\ End(w)
  /\ UNCHANGED <<activeAdCount, listing, clock, counters, prepared>>

\* evaluatePublishPolicy stores its result with the draft options only.
EvaluatePublishPolicy(w) ==
  LET c == worker[w] IN
  /\ Busy(w) /\ c.pc = "write" /\ c.job = "evaluate"
  /\ Store(c.ad, [ad[c.ad] EXCEPT !.pending = None, !.enabled = FALSE,
                                  !.next = 0])
  /\ End(w)
  /\ UNCHANGED <<activeAdCount, listing, clock, counters, prepared>>

\* A statement throws: the request fails, the timer logs it and goes on.
Throw(w) ==
  /\ Busy(w) /\ throws < MaxThrows
  /\ throws' = throws + 1
  /\ End(w)
  /\ UNCHANGED <<ad, order, activeAdCount, listing, clock, edits, requests,
                 faults, prepared>>

-----------------------------------------------------------------------------
(***************************************************************************)
(* Bazos, the publish queue and time.                                      *)
(***************************************************************************)
ListingRemoved(a) ==
  /\ listing[a].online
  /\ listing' = [listing EXCEPT ![a].online = FALSE]
  /\ UNCHANGED <<ad, order, activeAdCount, worker, clock, counters, prepared>>

\* A human applies the prepared update, or edits the listing itself.
ListingEdited(a) ==
  /\ listing[a].online
  /\ \/ /\ prepared[a] # None
        /\ listing' = [listing EXCEPT ![a].content = prepared[a],
                                      ![a].date = day]
        /\ UNCHANGED edits
     \/ /\ edits < MaxEdits
        /\ edits' = edits + 1
        /\ listing' = [listing EXCEPT ![a].content = edits', ![a].date = day]
  /\ prepared' = [prepared EXCEPT ![a] = None]
  /\ UNCHANGED <<ad, order, activeAdCount, worker, clock, requests, faults,
                 throws>>

\* A deleted ad goes through the queue again, which needs a human and takes
\* longer than any check that read it as published.
Republished(a) ==
  /\ ad[a].status = "deleted" /\ requests < MaxRequests
  /\ \A w \in Workers : Busy(w) => worker[w].ad # a
  /\ requests' = requests + 1
  /\ Store(a, [ad[a] EXCEPT !.status = "published", !.active = TRUE,
                            !.pending = None, !.enabled = FALSE, !.next = 0])
  /\ activeAdCount' = activeAdCount + 1
  /\ listing' = [listing EXCEPT ![a] = [online |-> TRUE, date |-> day,
                                        content |-> ad[a].content]]
  /\ \E known \in BOOLEAN :
       expiry' = [expiry EXCEPT ![a] = [left |-> Lifetime, known |-> known]]
  /\ prepared' = [prepared EXCEPT ![a] = None]
  /\ UNCHANGED <<worker, day, edits, faults, throws>>

Down(n) == IF n = 0 THEN 0 ELSE n - 1

Tick ==
  /\ ad' = [a \in Ads |-> [ad[a] EXCEPT !.next = Down(@)]]
  /\ worker' = [w \in Workers |->
       IF Busy(w) THEN [worker[w] EXCEPT !.read.next = Down(@), !.slot = Down(@)]
       ELSE Idle]
  /\ expiry' = [a \in Ads |-> [expiry[a] EXCEPT !.left = Down(@)]]
  /\ UNCHANGED <<order, activeAdCount, listing, day, counters, prepared>>

NextDay ==
  /\ day < MaxDays
  /\ day' = day + 1
  /\ UNCHANGED <<ad, order, expiry, activeAdCount, listing, worker, counters,
                 prepared>>

Handle(w) ==
  \/ Fetch(w) \/ ResolvePending(w) \/ ApplyGone(w) \/ ApplyOnline(w)
  \/ ApplyUnknown(w) \/ Schedule(w) \/ Recount(w) \/ DisableCheck(w)
  \/ UpdateDraft(w) \/ ManageOpened(w) \/ EvaluatePublishPolicy(w)

TimerTick == \E a \in Ads : TimerChecks(a)

Next ==
  \/ TimerTick
  \/ \E w \in Requests, job \in Jobs \ {"timer"}, a \in Ads :
       StartRequest(w, job, a)
  \/ \E w \in Workers : Handle(w) \/ Throw(w)
  \/ \E a \in Ads : ListingRemoved(a) \/ ListingEdited(a) \/ Republished(a)
  \/ Tick
  \/ NextDay

Spec == Init /\ [][Next]_vars

\* The timer runs every minute, its run ends (a fetch times out after five
\* seconds), and time passes.
FairSpec == Spec /\ WF_vars(Tick) /\ WF_vars(TimerTick) /\ WF_vars(Handle("timer"))

-----------------------------------------------------------------------------
(***************************************************************************)
(* Properties.                                                             *)
(***************************************************************************)
\* An ad is only marked deleted when its listing is gone: lookups that fail or
\* answer something else leave the local state as it is.
DeletedOnlyIfGone == \A a \in Ads : ad[a].status = "deleted" => ~listing[a].online

\* A prepared update stays marked until Bazos shows a day not before the save,
\* or the ad is deleted or published anew.
KeepsPending ==
  \A a \in Ads : ad[a].pending # None /\ ad'[a].pending = None =>
    \/ listing[a].date >= ad[a].pending
    \/ ad[a].status = "deleted"

\* A listing that disappeared from Bazos is noticed in the end.
GoneIsNoticed ==
  \A a \in Ads : ad[a].status = "published" /\ ~listing[a].online
                   ~> ad[a].status = "deleted"
=============================================================================

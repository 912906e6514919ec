-------------------------- MODULE AttemptLifecycle --------------------------
(***************************************************************************)
(* What the publisher queue promises of its attempts, without handlers,    *)
(* clock or gates: "One queued attempt to submit a draft to Bazos.         *)
(* Attempts are serialized per identity" (SPEC.md:36).  A draft has at     *)
(* most one open attempt, an identity at most one running submission, and  *)
(* an attempt that left the queue never returns to it.                     *)
(*                                                                         *)
(* The one thing not promised is the outcome: a result and the expiry of   *)
(* the same submission may both be written, and the later one stays.       *)
(***************************************************************************)
EXTENDS Integers

CONSTANTS Attempts, Drafts, Identities, OwnerOf, NoDraft

VARIABLES
  phase,   \* phase[a]: status of attempt a
  draft    \* draft[a]: the draft it submits

lifecycleVars == <<phase, draft>>

OpenPhase == {"queued", "submitting"}
Ended == {"submitted", "challenge_required", "failed"}

IsOpen(a) == phase[a] \in OpenPhase

LifecycleInit ==
  /\ phase = [a \in Attempts |-> "absent"]
  /\ draft = [a \in Attempts |-> NoDraft]

\* A draft without an open attempt is queued, in the next free row.
Queue(a, d) ==
  /\ phase[a] = "absent"
  /\ \A b \in Attempts : draft[b] = d => ~IsOpen(b)
  /\ phase' = [phase EXCEPT ![a] = "queued"]
  /\ draft' = [draft EXCEPT ![a] = d]

\* The gates refuse a draft; the refusal is kept as a closed attempt.
Refuse(a, d) ==
  /\ phase[a] = "absent"
  /\ phase' = [phase EXCEPT ![a] = "policy_blocked"]
  /\ draft' = [draft EXCEPT ![a] = d]

\* The gates refuse a queued attempt when a worker asks for it.
Drop(a) ==
  /\ phase[a] = "queued"
  /\ phase' = [phase EXCEPT ![a] = "policy_blocked"]
  /\ UNCHANGED draft

Start(a) ==
  /\ phase[a] = "queued"
  /\ \A b \in Attempts :
       phase[b] = "submitting" => OwnerOf[draft[b]] # OwnerOf[draft[a]]
  /\ phase' = [phase EXCEPT ![a] = "submitting"]
  /\ UNCHANGED draft

End(a, outcome) ==
  /\ phase[a] \in {"submitting"} \cup Ended
  /\ phase' = [phase EXCEPT ![a] = outcome]
  /\ UNCHANGED draft

LifecycleNext ==
  \E a \in Attempts :
    \/ \E d \in Drafts : Queue(a, d) \/ Refuse(a, d)
    \/ Drop(a) \/ Start(a)
    \/ \E outcome \in Ended : End(a, outcome)

LifecycleSpec == LifecycleInit /\ [][LifecycleNext]_lifecycleVars
=============================================================================

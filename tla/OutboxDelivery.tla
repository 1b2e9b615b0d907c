--------------------------- MODULE OutboxDelivery ---------------------------
(***************************************************************************)
(* What the durable outbox promises: at-least-once delivery with a bounded *)
(* number of attempts.  There are no workers, leases or clocks here.       *)
(***************************************************************************)
EXTENDS Naturals

CONSTANTS Keys, MaxAttempts

VARIABLES
  outcome,   \* per key: "absent", "open", "delivered", "rejected", "exhausted"
  tries,     \* per key: attempts begun
  effects    \* per key: attempts the remote side accepted

dvars == <<outcome, tries, effects>>

Init ==
  /\ outcome = [k \in Keys |-> "absent"]
  /\ tries = [k \in Keys |-> 0]
  /\ effects = [k \in Keys |-> 0]

Submit(k) ==
  /\ outcome[k] = "absent"
  /\ outcome' = [outcome EXCEPT ![k] = "open"]
  /\ UNCHANGED <<tries, effects>>

\* An attempt begins only while the record is open and has attempts left.
Try(k) ==
  /\ outcome[k] = "open"
  /\ tries[k] < MaxAttempts[k]
  /\ tries' = [tries EXCEPT ![k] = @ + 1]
  /\ UNCHANGED <<outcome, effects>>

\* An attempt that has begun takes effect, at most once, possibly late: after
\* a worker lost its lease another one may already have settled the record.
Effect(k) ==
  /\ outcome[k] # "absent"
  /\ effects[k] < tries[k]
  /\ effects' = [effects EXCEPT ![k] = @ + 1]
  /\ UNCHANGED <<outcome, tries>>

\* A settled record stays settled, and each outcome has its justification.
MaySettle(k, o) ==
  \/ o = "delivered" /\ effects[k] > 0
  \/ o = "exhausted" /\ tries[k] = MaxAttempts[k]
  \/ o = "rejected"

\* One worker commits one result at a time; a claim may find several records
\* exhausted at once.
Settle ==
  /\ \E S \in SUBSET {k \in Keys : outcome[k] = "open"} :
       \E o \in [S -> {"delivered", "exhausted", "rejected"}] :
         /\ \A k \in S : MaySettle(k, o[k])
         /\ outcome' = [k \in Keys |-> IF k \in S THEN o[k] ELSE outcome[k]]
  /\ UNCHANGED <<tries, effects>>

Next == Settle \/ \E k \in Keys : Submit(k) \/ Try(k) \/ Effect(k)

Spec == Init /\ [][Next]_dvars
=============================================================================

---------------------------- MODULE DraftSource ----------------------------
(***************************************************************************)
(* The source of a drafter (drafter/source.rs): what the producer has      *)
(* pushed, behind a mutex that the producers, the worker and the callers   *)
(* share.  Both sources, ReplacePreview and AccumulatorSource, behave as   *)
(* below; the content of a preview stands for its revision.  Each operator *)
(* is one critical section.                                                *)
(***************************************************************************)
EXTENDS Integers

CONSTANT MaxUpdates  \* bound on the updates pushed, over all segments

ASSUME SourceAssumption == MaxUpdates \in Nat

VARIABLES
  gate,     \* SourceGate
  revision, \* revision: the updates of this segment
  dirty,    \* dirty_since: "clean" is None, "ripe" older than coalesce_window
  pushed    \* history: updates accepted from the producer, over all segments

source == <<gate, revision, dirty, pushed>>

Revisions == 0..MaxUpdates

SourceTypeOK ==
  /\ gate \in {"Running", "Transition", "Closed"}
  /\ revision \in Revisions /\ dirty \in {"clean", "fresh", "ripe"}
  /\ pushed \in Revisions

SourceInit == gate = "Running" /\ revision = 0 /\ dirty = "clean" /\ pushed = 0

IsRunning == gate = "Running"

\* Anything but a running source refuses the update.
Apply ==
  /\ IsRunning /\ pushed < MaxUpdates
  /\ revision' = revision + 1 /\ pushed' = pushed + 1
  /\ dirty' = IF dirty = "clean" THEN "fresh" ELSE dirty
  /\ UNCHANGED gate

\* The coalesce window of the first undelivered update ends.
Ripen == dirty = "fresh" /\ dirty' = "ripe" /\ UNCHANGED <<gate, revision, pushed>>

\* Mutant of AfterDelivery: every delivery cleans the source.
AfterDelivery_Clean(r) == "clean"

\* An update that came after the delivered one keeps the source dirty.
AfterDelivery(r) == IF revision <= r THEN "clean" ELSE dirty

MarkDelivered(r) == dirty' = AfterDelivery(r) /\ UNCHANGED <<gate, revision, pushed>>

BeginTransition ==
  /\ gate' = IF IsRunning THEN "Transition" ELSE gate
  /\ UNCHANGED <<revision, dirty, pushed>>

ReopenSegment ==
  /\ gate' = "Running" /\ revision' = 0 /\ dirty' = "clean"
  /\ UNCHANGED pushed

Close == gate' = "Closed" /\ UNCHANGED <<revision, dirty, pushed>>

=============================================================================

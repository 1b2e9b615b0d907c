-------------------------- MODULE MCOutboundActor --------------------------
(* Small instances of OutboundActor. *)
EXTENDS OutboundActor, TLC

CONSTANTS a1, a2, serial, ordered, slot

Request(l, s) == [lane |-> l, slot |-> s]

\* Requests of a lane of each mode, one of them of a latest-wins slot.
LaneRequests ==
  {Request(serial, NoSlot), Request(ordered, NoSlot), Request(ordered, slot)}

AcquireSymmetry == Permutations(Acquires)

\* Requests of one slot, in a lane.
SlotRequests == {Request(ordered, slot)}
=============================================================================

----------------------------- MODULE MCDrafter -----------------------------
(* Instances of Drafter for TLC. *)
EXTENDS Drafter

BothModes == {"native", "edit"}

=============================================================================

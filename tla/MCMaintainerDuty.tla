-------------------------- MODULE MCMaintainerDuty --------------------------
(* Model-checking instance of MaintainerDuty: the clock is explored up to   *)
(* MaxSlot, more than two full cycles of the longest list.                  *)
EXTENDS MaintainerDuty

CONSTANT MaxSlot

SlotBound == slot <= MaxSlot
=============================================================================

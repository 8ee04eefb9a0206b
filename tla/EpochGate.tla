----------------------------- MODULE EpochGate -----------------------------
(***************************************************************************)
(* The epoch timing gates of SolidoState (maintenance.rs):                 *)
(*   slots_into_current_epoch, is_at_epoch_end  -- gates the validator     *)
(*     performance updates and reactivation;                               *)
(*   confirm_should_stake_unstake_in_current_slot -- gates stake deposits  *)
(*     and rebalancing unstakes when stake_time is OnlyNearEpochEnd.       *)
(* Both compare slot-progress-in-epoch with end_of_epoch_threshold / 100   *)
(* as Rationals, i.e. by cross-multiplication.                             *)
(*                                                                         *)
(* The epoch schedule is taken without warm-up: every epoch has            *)
(* SlotsPerEpoch slots and epoch e starts at slot e * SlotsPerEpoch.  Both *)
(* gates read the clock only through clock.slot - first_slot_in_epoch, so  *)
(* the state of this module is that offset; when it reaches the end of    *)
(* the epoch the next slot starts a new epoch at offset 0.                 *)
(***************************************************************************)
EXTENDS Naturals

CONSTANTS
    SlotsPerEpoch,         \* epoch_schedule.get_slots_in_epoch(epoch)
    EndOfEpochThreshold,   \* end_of_epoch_threshold: u8, a percentage
    StakeTime              \* "Anytime" or "OnlyNearEpochEnd"

ASSUME /\ SlotsPerEpoch \in Nat \ {0}
       /\ EndOfEpochThreshold \in 0..255
       /\ StakeTime \in {"Anytime", "OnlyNearEpochEnd"}

VARIABLE slotInEpoch       \* clock.slot - first slot of clock.epoch

vars == <<slotInEpoch>>

(***************************************************************************)
(* Rational comparison by cross-multiplication (lido::token::Rational,     *)
(* denominators are positive).                                             *)
(***************************************************************************)
RationalGeq(n1, d1, n2, d2) == n1 * d2 >= n2 * d1
RationalGt(n1, d1, n2, d2)  == n1 * d2 > n2 * d1

\* epoch_schedule.get_first_slot_in_epoch(epoch) and (epoch + 1), as offsets
\* from the start of the current epoch.
FirstSlotInEpoch     == 0
FirstSlotInNextEpoch == SlotsPerEpoch

\* slots_into_current_epoch
SlotsIntoCurrentEpoch(s) == s

\* is_at_epoch_end: epoch progress >= threshold / 100.
IsAtEpochEnd(s, threshold) ==
    RationalGeq(SlotsIntoCurrentEpoch(s), SlotsPerEpoch, threshold, 100)

(***************************************************************************)
(* confirm_should_stake_unstake_in_current_slot: Anytime always permits;   *)
(* OnlyNearEpochEnd recomputes the epoch length as next epoch's first slot *)
(* minus this epoch's first slot and requires progress > threshold / 100.  *)
(***************************************************************************)
ConfirmShouldStakeUnstake(s, threshold, stakeTime) ==
    CASE stakeTime = "Anytime" -> TRUE
      [] stakeTime = "OnlyNearEpochEnd" ->
           RationalGt(s - FirstSlotInEpoch, FirstSlotInNextEpoch - FirstSlotInEpoch,
                      threshold, 100)

Init == slotInEpoch = 0

\* The cluster produces the next slot; after the last slot of an epoch the
\* next epoch begins.
Tick ==
    slotInEpoch' = IF slotInEpoch + 1 = SlotsPerEpoch THEN 0 ELSE slotInEpoch + 1

Spec == Init /\ [][Tick]_vars /\ WF_vars(Tick)

-----------------------------------------------------------------------------
TypeOK == slotInEpoch \in 0..SlotsPerEpoch - 1

\* The offsets in an epoch at which the maintainer may stake or unstake.
StakePermittedSlots ==
    {s \in 0..SlotsPerEpoch - 1 : ConfirmShouldStakeUnstake(s, EndOfEpochThreshold, StakeTime)}

StakePermitted == slotInEpoch \in StakePermittedSlots

(***************************************************************************)
(* Spec section 8: the epoch-threshold gate is inclusive at the threshold  *)
(* ratio: once epoch progress reaches end_of_epoch_threshold percent,      *)
(* staking in OnlyNearEpochEnd mode is permitted, as is_at_epoch_end       *)
(* already reports the end of the epoch.                                   *)
(***************************************************************************)
StakeGateInclusiveAtThreshold ==
    IsAtEpochEnd(slotInEpoch, EndOfEpochThreshold) => StakePermitted

=============================================================================

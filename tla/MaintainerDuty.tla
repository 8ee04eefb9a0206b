--------------------------- MODULE MaintainerDuty ---------------------------
(***************************************************************************)
(* Maintainer duty rotation of the maintenance daemon                      *)
(* (src/cli/maintainer/src/maintenance.rs, SolidoState):                   *)
(*   get_current_maintainer_duty    -- who is on duty in a slot;           *)
(*   get_next_maintainer_duty_slot  -- where a maintainer's next slice     *)
(*                                     starts.                             *)
(* Both are pure functions of the ordered maintainer list and the clock    *)
(* sysvar.  Every cooperating maintainer evaluates them independently and  *)
(* they must agree: a daemon that sleeps until the slot returned by        *)
(* get_next_maintainer_duty_slot must wake up on duty, and must not have   *)
(* slept through an earlier slice of its own.                              *)
(*                                                                         *)
(* The state is the maintainer list (fixed for a behaviour, any list the   *)
(* on-chain AccountList<Maintainer> can hold up to MaxMaintainers) and the *)
(* clock slot, which only advances.                                        *)
(***************************************************************************)
EXTENDS Naturals, Sequences, SequencesExt

CONSTANTS
    Maintainers,     \* model values: maintainer public keys
    MaxMaintainers,  \* bound on the length of the maintainer list
    SliceLength,     \* MAINTAINER_DUTY_SLICE_LENGTH
    PauseLength,     \* MAINTAINER_DUTY_PAUSE_LENGTH
    None             \* Option::None

ASSUME PauseLength < SliceLength

VARIABLES
    maintainers,     \* solido.maintainers.entries, in list order
    slot             \* clock.slot

vars == <<maintainers, slot>>

\* The on-chain list never holds a maintainer twice.
MaintainerLists ==
    UNION { {l \in [1..n -> Maintainers] : IsInjective(l)} : n \in 0..MaxMaintainers }

\* Mutant: no pause between slices.
GetCurrentMaintainerDutyNoPause(ms, s) ==
    IF Len(ms) = 0 THEN None
    ELSE ms[((s \div SliceLength) % Len(ms)) + 1]

\* Mutant: the pause starts one slot late.
GetCurrentMaintainerDutyLatePause(ms, s) ==
    IF Len(ms) = 0 THEN None
    ELSE IF s % SliceLength > SliceLength - PauseLength THEN None
    ELSE ms[((s \div SliceLength) % Len(ms)) + 1]

(***************************************************************************)
(* get_current_maintainer_duty: slot / SLICE picks the slice, slice mod    *)
(* the list length the maintainer; the last PAUSE slots of every slice     *)
(* have nobody on duty.                                                    *)
(***************************************************************************)
GetCurrentMaintainerDuty(ms, s) ==
    IF Len(ms) = 0 THEN None
    ELSE IF s % SliceLength >= SliceLength - PauseLength THEN None
    ELSE ms[((s \div SliceLength) % Len(ms)) + 1]

\* Mutant: a slice starting in the current slot is not moved ahead.
GetNextMaintainerDutySlotStrict(ms, m, s) ==
    IF Len(ms) = 0 THEN None
    ELSE
      LET cycleLength == Len(ms) * SliceLength
          cycleStart  == (s \div cycleLength) * cycleLength
          selfIndex   == SelectInSeq(ms, LAMBDA x : x = m) - 1
          sliceStart  == cycleStart + selfIndex * SliceLength
      IN  IF selfIndex < 0 THEN None
          ELSE IF sliceStart < s THEN sliceStart + cycleLength
          ELSE sliceStart

(***************************************************************************)
(* get_next_maintainer_duty_slot: start of the current cycle of            *)
(* len * SLICE slots, plus the maintainer's slice offset in it; a start    *)
(* at or before the current slot is moved one cycle ahead.  A key not in   *)
(* the list (position(...)? ) yields None.                                 *)
(***************************************************************************)
GetNextMaintainerDutySlot(ms, m, s) ==
    IF Len(ms) = 0 THEN None
    ELSE
      LET cycleLength == Len(ms) * SliceLength
          cycleStart  == (s \div cycleLength) * cycleLength
          selfIndex   == SelectInSeq(ms, LAMBDA x : x = m) - 1
          sliceStart  == cycleStart + selfIndex * SliceLength
      IN  IF selfIndex < 0 THEN None
          ELSE IF sliceStart <= s THEN sliceStart + cycleLength
          ELSE sliceStart

Init ==
    /\ maintainers \in MaintainerLists
    /\ slot = 0

\* The cluster produces the next slot.
Tick ==
    /\ slot' = slot + 1
    /\ UNCHANGED maintainers

Next == Tick

Spec == Init /\ [][Next]_vars

-----------------------------------------------------------------------------
TypeOK ==
    /\ maintainers \in MaintainerLists
    /\ slot \in Nat

\* A maintainer's duty slice starts in slot s.
DutyStart(ms, m, s) ==
    s % SliceLength = 0 /\ GetCurrentMaintainerDuty(ms, s) = m

(***************************************************************************)
(* The round trip between the two functions, for every slot: for a member  *)
(* m, get_next_maintainer_duty_slot returns a slot n after the current     *)
(* one where, according to get_current_maintainer_duty, m's slice starts   *)
(* and lasts SLICE - PAUSE slots, the PAUSE slots before n have nobody on  *)
(* duty, and no slice of m starts between now and n (the daemon never      *)
(* sleeps through its own duty); called again from n it returns n plus one *)
(* cycle, so repeated calls increase strictly (spec section 8).  For a     *)
(* non-member it returns None.                                             *)
(***************************************************************************)
NextDutySlotAgreesWithCurrentDuty ==
    \A m \in Maintainers :
      LET n == GetNextMaintainerDutySlot(maintainers, m, slot) IN
      IF m \notin Range(maintainers) THEN n = None
      ELSE /\ n # None
           /\ n > slot
           /\ DutyStart(maintainers, m, n)
           /\ \A s \in n .. n + SliceLength - PauseLength - 1 :
                 GetCurrentMaintainerDuty(maintainers, s) = m
           /\ \A s \in n - PauseLength .. n - 1 :
                 GetCurrentMaintainerDuty(maintainers, s) = None
           /\ \A s \in slot + 1 .. n - 1 : ~DutyStart(maintainers, m, s)
           /\ GetNextMaintainerDutySlot(maintainers, m, n) = n + Len(maintainers) * SliceLength

=============================================================================

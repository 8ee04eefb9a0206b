---------------------------- MODULE DutyRotation ----------------------------
(***************************************************************************)
(* What maintainer duty promises (spec section 4.3), without slots: the    *)
(* maintainers of the list take turns in list order, one at a time, and    *)
(* between two turns there is a pause in which nobody is on duty.  Under   *)
(* WF every maintainer of the list is on duty again and again.             *)
(***************************************************************************)
EXTENDS Naturals, Sequences, SequencesExt

CONSTANTS
    Maintainers,     \* model values: maintainer public keys
    MaxMaintainers,  \* bound on the length of the maintainer list
    None             \* Option::None

VARIABLES
    maintainers,     \* the ordered maintainer list, fixed
    onDuty,          \* the maintainer on duty, or None
    turn             \* position in the list of the current or last turn

vars == <<maintainers, onDuty, turn>>

MaintainerLists ==
    UNION { {l \in [1..n -> Maintainers] : IsInjective(l)} : n \in 0..MaxMaintainers }

Init ==
    /\ maintainers \in MaintainerLists
    /\ turn = 1
    /\ onDuty = IF maintainers = <<>> THEN None ELSE maintainers[1]

\* The turn ends: nobody is on duty until the next one begins.
EndTurn ==
    /\ onDuty # None
    /\ onDuty' = None
    /\ UNCHANGED <<maintainers, turn>>

\* The next maintainer in list order, wrapping around, takes over.
NextTurn ==
    /\ maintainers # <<>>
    /\ onDuty = None
    /\ turn' = (turn % Len(maintainers)) + 1
    /\ onDuty' = maintainers[turn']
    /\ UNCHANGED maintainers

Next == EndTurn \/ NextTurn

Spec == Init /\ [][Next]_vars /\ WF_vars(Next)

=============================================================================

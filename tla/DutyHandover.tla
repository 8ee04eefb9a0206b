---------------------------- MODULE DutyHandover ----------------------------
(***************************************************************************)
(* Several maintainer daemons sharing the work by maintainer duty          *)
(* (maintenance.rs, get_current_maintainer_duty and its doc comment).      *)
(* Each daemon performs maintenance only in its own duty slice (spec       *)
(* section 4.3), judged by the clock sysvar of its snapshot, which trails  *)
(* the cluster by up to Lag slots.  A transaction it sends executes within *)
(* Latency slots.  The pause at the end of every slice is there so that a  *)
(* transaction sent just before the end of a slice has executed before the *)
(* next maintainer starts: "a maintainer can create a transaction just     *)
(* before the end of its duty, and it may not yet have executed at the     *)
(* start of the next maintainer's duty".                                   *)
(*                                                                         *)
(* get_current_maintainer_duty depends on the slot only through            *)
(* slot % SLICE and (slot / SLICE) % len, so it repeats every Period       *)
(* slots when Period is a multiple of len * SLICE for every list length;   *)
(* the clock is kept modulo Period.                                        *)
(***************************************************************************)
EXTENDS Naturals, Sequences, SequencesExt

CONSTANTS
    Maintainers, MaxMaintainers, SliceLength, PauseLength, None,  \* see MaintainerDuty
    Lag,        \* slots a daemon's clock sysvar may trail the cluster
    Latency,    \* slots between sending a transaction and its execution
    Period      \* the clock is kept modulo Period

ASSUME \A n \in 1..MaxMaintainers : Period % (n * SliceLength) = 0

VARIABLES
    maintainers,  \* solido.maintainers.entries, fixed
    slot,         \* the cluster's slot, modulo Period
    pending       \* m -> None, or the slots left until m's transaction executes

vars == <<maintainers, slot, pending>>

Duty == INSTANCE MaintainerDuty

Init ==
    /\ maintainers \in Duty!MaintainerLists
    /\ slot = 0
    /\ pending = [m \in Maintainers |-> None]

(***************************************************************************)
(* A daemon whose snapshot clock says it is on duty finds work and sends   *)
(* a transaction; send_transaction blocks, so it has one at a time.        *)
(***************************************************************************)
Submit(m) ==
    /\ pending[m] = None
    /\ \E lag \in 0..Lag : Duty!GetCurrentMaintainerDuty(maintainers, (slot - lag) % Period) = m
    /\ pending' = [pending EXCEPT ![m] = Latency]
    /\ UNCHANGED <<maintainers, slot>>

\* The transaction executes, and send_transaction returns.
Execute(m) ==
    /\ pending[m] # None
    /\ pending' = [pending EXCEPT ![m] = None]
    /\ UNCHANGED <<maintainers, slot>>

\* The cluster produces the next slot; a transaction at the end of its
\* latency has executed by then.
Tick ==
    /\ slot' = (slot + 1) % Period
    /\ pending' = [m \in Maintainers |->
                     IF pending[m] \in {None, 0} THEN None ELSE pending[m] - 1]
    /\ UNCHANGED maintainers

Next == Tick \/ \E m \in Maintainers : Submit(m) \/ Execute(m)

\* The cluster never stops producing slots.
Spec == Init /\ [][Next]_vars /\ WF_vars(Tick)

-----------------------------------------------------------------------------
(***************************************************************************)
(* The duty function implements the abstract rotation: the maintainer on   *)
(* duty is the one get_current_maintainer_duty names, and the turn is the  *)
(* slice's position in the list.                                           *)
(***************************************************************************)
Rotation == INSTANCE DutyRotation WITH
    onDuty <- Duty!GetCurrentMaintainerDuty(maintainers, slot),
    turn   <- IF maintainers = <<>> THEN 1
              ELSE ((slot \div SliceLength) % Len(maintainers)) + 1

(***************************************************************************)
(* get_current_maintainer_duty hands duty from one maintainer to the next  *)
(* in list order with a pause in between, and, as slots pass, every        *)
(* maintainer of the list is on duty again and again.                      *)
(***************************************************************************)
RotationRefined == Rotation!Spec

(***************************************************************************)
(* The pause absorbs clock lag and transaction latency: two maintainers    *)
(* never have transactions in flight at the same time, so the next         *)
(* maintainer never acts on a snapshot that misses the previous one's      *)
(* last transaction.  It needs Lag + Latency <= PAUSE.                     *)
(***************************************************************************)
NoRaceAtHandover ==
    \A m1, m2 \in Maintainers : m1 # m2 => pending[m1] = None \/ pending[m2] = None

=============================================================================

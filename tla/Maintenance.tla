----------------------------- MODULE Maintenance -----------------------------
(***************************************************************************)
(* The maintenance decision engine of the Solido maintainer daemon         *)
(* (src/cli/maintainer/src/maintenance.rs) together with the ledger it     *)
(* reads and the on-chain program that executes what it submits.          *)
(*                                                                         *)
(*  - try_perform_maintenance: funding guard, then the ordered chain       *)
(*    try_merge_on_all_stakes .. try_remove_pending_validators; the first  *)
(*    instruction produced is signed and sent (action Maintain).           *)
(*  - The transaction executes later (Execute actions) against the ledger *)
(*    as it is then; the program's checks may reject it.  It may be lost   *)
(*    (Drop).  Between the snapshot and the execution the outside world    *)
(*    moves (Tick, deposits, rewards, donations, commission changes,       *)
(*    vote-account closure, off-chain performance changes).                *)
(*                                                                         *)
(* The on-chain program (lido::processor), the stake-account model         *)
(* (lido::stake_account), the allocator (lido::balance) and the criteria   *)
(* (lido::logic::does_perform_well) are not in this repository: they are   *)
(* modelled after the specification and named Program*, Alloc*, etc.       *)
(*                                                                         *)
(* Data abstraction.  Validators are 1..NumValidators in list order.  A    *)
(* stake account is [st, stake, extra]: its lamports are the              *)
(* rent-exempt reserve StakeRent, the delegated stake, and extra inactive  *)
(* lamports (the rent of a merged-in account, donations).  Accounts of the *)
(* stake list are activating or active; accounts of the unstake list are   *)
(* deactivating or inactive.  Seeds are begin counters plus list position. *)
(*                                                                         *)
(* Epochs.  The code compares a recorded epoch only with the current one   *)
(* (computed_in_epoch >= epoch, commission_updated_at < epoch,             *)
(* epoch > rest.updated_at, activation_epoch == epoch), so a recorded      *)
(* epoch is kept as whether it is the current one, and a new epoch clears *)
(* every such flag.  Stake activates and deactivates in one epoch, so an   *)
(* account of the stake list was activated in the current epoch exactly   *)
(* when it is activating.  The clock then never needs a bound.            *)
(***************************************************************************)
EXTENDS Naturals, Sequences, SequencesExt, FiniteSets

CONSTANTS
    NumValidators,        \* length of the validator list
    MinStake,             \* MINIMUM_STAKE_ACCOUNT_BALANCE
    MinWithdraw,          \* SolidoState::MINIMUM_WITHDRAW_AMOUNT
    StakeRent,            \* rent.minimum_balance(size_of::<StakeState>())
    ReserveRent,          \* rent.minimum_balance(0)
    MaxUnstakeAccounts,   \* lido::MAXIMUM_UNSTAKE_ACCOUNTS
    MaxCommission,        \* solido.criteria.max_commission
    Commissions,          \* commissions a vote account can be set to
    UnbalanceNum,         \* SolidoState::UNBALANCE_THRESHOLD numerator
    UnbalanceDen,         \*   and denominator
    MaintainerInList,     \* maintainer_address is in solido.maintainers
    DepositAmounts,       \* lamports a user deposit adds to the reserve
    SurplusAmounts,       \* lamports a reward or a donation adds to an account
    ClosableValidators,   \* validators whose node operators may close the vote account
    SlotsPerEpoch, EndOfEpochThreshold, StakeTime,   \* see EpochGate
    EnvBudget,            \* number of outside-world steps in a behaviour
    SeedSpace,            \* seeds are kept modulo SeedSpace
    BlockProductionRates, \* what validator_block_production_rates[i] can be:
                          \*   a rate, or None when it is not known
    MinBlockProductionRate, \* solido.criteria.min_block_production_rate
    MaxRate,              \* u64::MAX, the rate of a perfect producer
    Closed,               \* model value: validator_vote_accounts[i] = None
    None                  \* model value: Option::None

ASSUME StakeRent < MinStake /\ MinWithdraw >= 0 /\ UnbalanceDen > 0 /\ SeedSpace > 0

\* Seeds (u64 counters) only ever meet in equality tests between a seed an
\* instruction carries and the ledger's current one, which differ by a few
\* list changes at most; they are kept modulo SeedSpace.
Seed(n) == n % SeedSpace

Validators == 1..NumValidators

VARIABLES
    slot,                 \* clock.slot - first slot of clock.epoch
    reserve,              \* reserve_account.lamports
    exchangeRateCurrent,  \* exchange_rate.computed_in_epoch = clock.epoch
    validators,           \* v -> [listed, active, stakeBegin, unstakeBegin,
                          \*       stakeBal, unstakeBal]
    stakeAccts,           \* v -> Seq of stake accounts, seeds stakeBegin..
    unstakeAccts,         \* v -> Seq of unstake accounts, seeds unstakeBegin..
    vote,                 \* v -> commission of the vote account, or Closed
    perf,                 \* v -> None or [commission, current, rest]:
                          \*   current: commission_updated_at = clock.epoch;
                          \*   rest: None or [current, good]
    blockProductionRate,  \* v -> validator_block_production_rates[i]
    maintainerFunded,     \* maintainer balance >= 100_000_000 lamports
    inflight,             \* the submitted, not yet executed instruction
    stale,                \* the ledger changed since inflight was chosen
    envSteps              \* outside-world steps taken

ledgerVars == <<slot, reserve, exchangeRateCurrent, validators, stakeAccts,
                unstakeAccts, vote, perf, blockProductionRate, maintainerFunded>>
vars == <<ledgerVars, inflight, stale, envSteps>>

Gate == INSTANCE EpochGate WITH slotInEpoch <- slot

(***************************************************************************)
(* Stake accounts (lido::stake_account::StakeAccount, StakeBalance).       *)
(***************************************************************************)
Total(a)    == StakeRent + a.stake + a.extra
Inactive(a) == StakeRent + a.extra + (IF a.st = "inactive" THEN a.stake ELSE 0)

\* to.can_merge(from): both active, or both activating (in this epoch).
CanMerge(to, from) == to.st = from.st

SumTotals(s) == FoldLeft(LAMBDA acc, a : acc + Total(a), 0, s)

(***************************************************************************)
(* Validator records (lido::state::Validator).                             *)
(***************************************************************************)
Listed(v) == validators[v].listed
IsActive(v) == validators[v].listed /\ validators[v].active
\* compute_effective_stake_balance
EffectiveStakeBalance(v) == validators[v].stakeBal - validators[v].unstakeBal
NumUnstakeAccounts(v) == Len(unstakeAccts[v])

\* check_can_be_removed
CanBeRemoved(v) ==
    /\ Listed(v) /\ ~validators[v].active
    /\ stakeAccts[v] = <<>> /\ unstakeAccts[v] = <<>>
    /\ EffectiveStakeBalance(v) = 0

\* lido::logic::does_perform_well
DoesPerformWell(commission, p) ==
    /\ commission <= MaxCommission
    /\ IF p = None \/ p.rest = None THEN TRUE ELSE p.rest.good

\* The off-chain part of a performance record is missing or from an
\* earlier epoch.
OffchainPerfStale(p) ==
    IF p = None \/ p.rest = None THEN TRUE ELSE ~p.rest.current

\* The first listed validator, in list order, that satisfies P; 0 if none.
FirstValidator(P(_)) ==
    LET S == {v \in Validators : Listed(v) /\ P(v)} IN IF S = {} THEN 0 ELSE Min(S)

(***************************************************************************)
(* The snapshot's per-validator vectors (SolidoState::new).  For every     *)
(* listed validator validator_vote_accounts gets an entry, None when the   *)
(* vote account cannot be read; validator_perfs and                        *)
(* validator_block_production_rates get one only when it can.  The try_*   *)
(* loops index all of them by the validator's position i in the list.      *)
(***************************************************************************)
ReadableValidators ==
    SetToSortSeq({u \in Validators : Listed(u) /\ vote[u] # Closed}, <)

\* i + 1, for the position i of validator w in solido.validators
ListIndex(w) == Cardinality({u \in 1..w : Listed(u)})

\* self.validator_perfs[i] does not panic
PerfInBounds(w) == ListIndex(w) <= Len(ReadableValidators)

\* self.validator_perfs[i]: the record of whichever validator has that slot
SnapshotPerf(w) == perf[ReadableValidators[ListIndex(w)]]

\* self.validator_block_production_rates[i]; pushed together with
\* validator_perfs, so in bounds wherever validator_perfs[i] is
SnapshotRate(w) == blockProductionRate[ReadableValidators[ListIndex(w)]]

\* solido.validators.entries, in list order
ListedValidators == SetToSortSeq({u \in Validators : Listed(u)}, <)

(***************************************************************************)
(* A try_* loop over the validators: it returns the first one that         *)
(* satisfies P, or panics (-1) at the first one whose validator_perfs[i]   *)
(* it reads (reads(w)) out of bounds; 0 when it runs to the end.           *)
(***************************************************************************)
ScanValidators(reads(_), P(_)) ==
    LET panics(w) == reads(w) /\ ~PerfInBounds(w)
        v == FirstValidator(LAMBDA w : IF panics(w) THEN TRUE ELSE P(w))
    IN  IF v # 0 /\ panics(v) THEN -1 ELSE v

(***************************************************************************)
(* Allocator (lido::balance), after the contract of spec section 4.1: the  *)
(* total of the reserve and the effective stake balances is split evenly   *)
(* over the active validators, the remainder going to the first ones.      *)
(***************************************************************************)
ActiveValidators == {v \in Validators : IsActive(v)}

\* get_target_balance
AllocTargetBalance(undelegated) ==
    LET total == undelegated + MapThenSumSet(EffectiveStakeBalance,
                                             {v \in Validators : Listed(v)})
        n     == Cardinality(ActiveValidators)
        rank(v) == Cardinality({w \in ActiveValidators : w <= v})
    IN  [v \in Validators |->
           IF v \in ActiveValidators
           THEN total \div n + (IF rank(v) <= total % n THEN 1 ELSE 0)
           ELSE 0]

Shortfall(targets, v) ==
    IF targets[v] > EffectiveStakeBalance(v) THEN targets[v] - EffectiveStakeBalance(v) ELSE 0
Excess(targets, v) ==
    IF EffectiveStakeBalance(v) > targets[v] THEN EffectiveStakeBalance(v) - targets[v] ELSE 0

\* get_minimum_stake_validator_index_amount: the active validator furthest
\* below its target (the first on ties), with its shortfall.
AllocMinimumStakeValidator(targets) ==
    LET v == Min({w \in ActiveValidators :
                    \A x \in ActiveValidators : Shortfall(targets, x) <= Shortfall(targets, w)})
    IN  <<v, Shortfall(targets, v)>>

\* get_unstake_validator_index: the active validator furthest above its
\* target among those more than threshold * target above it, or None.
AllocUnstakeValidator(targets) ==
    LET Over == {w \in ActiveValidators :
                   Excess(targets, w) * UnbalanceDen > targets[w] * UnbalanceNum}
    IN  IF Over = {} THEN None
        ELSE LET v == Min({w \in Over : \A x \in Over : Excess(targets, x) <= Excess(targets, w)})
             IN  <<v, Excess(targets, v)>>

(***************************************************************************)
(* Instructions.  amount: lamports, or the block-production rate of an     *)
(* off-chain performance update.  seed: the from-seed of a merge, the      *)
(* unstake-seed of an unstake, the stake_seeds.end of a deposit.  flag: a  *)
(* deposit goes into a temporary account merged into the last one.         *)
(***************************************************************************)
NoInstruction == [kind |-> "none", v |-> 0, amount |-> 0, seed |-> 0, flag |-> FALSE]
Ins(kind, v, amount, seed, flag) ==
    [kind |-> kind, v |-> v, amount |-> amount, seed |-> seed, flag |-> flag]

\* Option::or_else
OrElse(a, b) == IF a # NoInstruction THEN a ELSE b

\* An index out of bounds panics: the panic unwinds through the rest of the
\* or_else chain and ends the process, and the chain has this result.
Panicked == Ins("panic", 0, 0, 0, FALSE)

\* The result of a step whose loop (ScanValidators) stopped at v.
StepResult(v, ins) == CASE v = 0 -> NoInstruction [] v = -1 -> Panicked [] OTHER -> ins

\* get_effective_reserve: reserve lamports above rent, saturating.
GetEffectiveReserve == IF reserve > ReserveRent THEN reserve - ReserveRent ELSE 0

(***************************************************************************)
(* The per-validator rows of write_prometheus: the zip of the validators   *)
(* with their stake, unstake and vote accounts, identity balances and      *)
(* infos.  zip stops at its shortest input; the identity balances and the  *)
(* infos (name, keybase) were pushed only for readable vote accounts, so   *)
(* row k carries those of ReadableValidators[k].                           *)
(***************************************************************************)
MetricRows ==
    [k \in 1..Min({Len(ListedValidators), Len(ReadableValidators)}) |->
        LET v == ListedValidators[k] IN
        [voteAccount  |-> v,
         identity     |-> ReadableValidators[k],
         stakeBalance |-> SumTotals(stakeAccts[v] \o unstakeAccts[v])]]

\* The sum of solido_balance_sol: the effective reserve, and for every row
\* the inactive, activating, active and deactivating lamports of its stake
\* and unstake accounts.
ReportedBalance ==
    GetEffectiveReserve + FoldSeq(LAMBDA r, acc : acc + r.stakeBalance, 0, MetricRows)

(***************************************************************************)
(* The steps of the chain, each a translation of one try_* function.       *)
(***************************************************************************)
\* Mutant: merges without checking that the two accounts can be merged.
TryMergeOnAllStakesUnchecked ==
    LET v == FirstValidator(LAMBDA w : Len(stakeAccts[w]) > 1)
    IN  IF v = 0 THEN NoInstruction
        ELSE Ins("MergeStake", v, 0, Seed(validators[v].stakeBegin), FALSE)

TryMergeOnAllStakes ==
    LET v == FirstValidator(LAMBDA w : Len(stakeAccts[w]) > 1
                                       /\ CanMerge(stakeAccts[w][2], stakeAccts[w][1]))
    IN  IF v = 0 THEN NoInstruction
        ELSE Ins("MergeStake", v, 0, Seed(validators[v].stakeBegin), FALSE)

TryUpdateExchangeRate ==
    IF exchangeRateCurrent THEN NoInstruction
    ELSE Ins("UpdateExchangeRate", 0, 0, 0, FALSE)

\* A closed vote account is skipped before validator_perfs[i] is read.
DoUpdateOnchainValidatorPerfs ==
    LET p(w) == SnapshotPerf(w)
        expired(w) == /\ IF p(w) = None THEN TRUE ELSE ~p(w).current
                      /\ Gate!IsAtEpochEnd(slot, EndOfEpochThreshold)
        exceedsMax(w) == /\ p(w) # None
                         /\ vote[w] > MaxCommission
                         /\ vote[w] > p(w).commission
        v == ScanValidators(LAMBDA w : vote[w] # Closed,
                            LAMBDA w : vote[w] # Closed /\ (expired(w) \/ exceedsMax(w)))
    IN  StepResult(v, Ins("UpdateOnchainPerf", v, 0, 0, FALSE))

\* The vote success rate is taken to meet the criteria; the block
\* production rate defaults to u64::MAX when it is not known.
\* validator_perfs[i] is read before the vote account is looked at.
DoUpdateOffchainValidatorPerfs ==
    LET v == ScanValidators(LAMBDA w : TRUE,
                            LAMBDA w : OffchainPerfStale(SnapshotPerf(w)) /\ vote[w] # Closed)
    IN  IF ~Gate!IsAtEpochEnd(slot, EndOfEpochThreshold) THEN NoInstruction
        ELSE StepResult(v, Ins("UpdateOffchainPerf", v,
                               IF SnapshotRate(v) = None THEN MaxRate ELSE SnapshotRate(v),
                               0, FALSE))

TryUpdateValidatorPerfs == OrElse(DoUpdateOnchainValidatorPerfs, DoUpdateOffchainValidatorPerfs)

TryReactivateIfComplies ==
    LET reads(w) == ~validators[w].active /\ vote[w] # Closed
        v == ScanValidators(reads, LAMBDA w : reads(w) /\ DoesPerformWell(vote[w], SnapshotPerf(w)))
    IN  IF ~Gate!IsAtEpochEnd(slot, EndOfEpochThreshold) THEN NoInstruction
        ELSE StepResult(v, Ins("ReactivateIfComplies", v, 0, 0, FALSE))

\* get_unstake_instruction returns None when the maintainer is not listed.
TryUnstakeFromInactiveValidator ==
    LET v == FirstValidator(LAMBDA w : /\ ~validators[w].active
                                       /\ NumUnstakeAccounts(w) < MaxUnstakeAccounts
                                       /\ stakeAccts[w] # <<>>)
    IN  IF v = 0 \/ ~MaintainerInList THEN NoInstruction
        ELSE Ins("UnstakeFromInactive", v, Total(stakeAccts[v][1]),
                 Seed(validators[v].unstakeBegin + NumUnstakeAccounts(v)), FALSE)

\* Mutant: ignores the unstake accounts that became inactive.
TryUpdateStakeAccountBalanceStakeOnly ==
    LET canBeWithdrawn(w) == FoldLeft(LAMBDA acc, a : acc + (Inactive(a) - StakeRent),
                                      0, stakeAccts[w])
        expectedDifferenceStake(w) ==
            IF SumTotals(stakeAccts[w]) > EffectiveStakeBalance(w)
            THEN SumTotals(stakeAccts[w]) - EffectiveStakeBalance(w)
            ELSE canBeWithdrawn(w)
        \* the loop over unstake accounts stops at the first one that is not
        \* fully inactive
        removedUnstake(w) ==
            LET k == SelectInSeq(unstakeAccts[w], LAMBDA a : Inactive(a) # Total(a))
                n == IF k = 0 THEN Len(unstakeAccts[w]) ELSE k - 1
            IN  SumTotals(SubSeq(unstakeAccts[w], 1, n))
        v == FirstValidator(LAMBDA w : expectedDifferenceStake(w) > MinWithdraw)
    IN  IF v = 0 THEN NoInstruction ELSE Ins("UpdateStakeAccountBalance", v, 0, 0, FALSE)

TryUpdateStakeAccountBalance ==
    LET canBeWithdrawn(w) == FoldLeft(LAMBDA acc, a : acc + (Inactive(a) - StakeRent),
                                      0, stakeAccts[w])
        expectedDifferenceStake(w) ==
            IF SumTotals(stakeAccts[w]) > EffectiveStakeBalance(w)
            THEN SumTotals(stakeAccts[w]) - EffectiveStakeBalance(w)
            ELSE canBeWithdrawn(w)
        \* the loop over unstake accounts stops at the first one that is not
        \* fully inactive
        removedUnstake(w) ==
            LET k == SelectInSeq(unstakeAccts[w], LAMBDA a : Inactive(a) # Total(a))
                n == IF k = 0 THEN Len(unstakeAccts[w]) ELSE k - 1
            IN  SumTotals(SubSeq(unstakeAccts[w], 1, n))
        v == FirstValidator(LAMBDA w : expectedDifferenceStake(w) > MinWithdraw
                                       \/ removedUnstake(w) > 0)
    IN  IF v = 0 THEN NoInstruction ELSE Ins("UpdateStakeAccountBalance", v, 0, 0, FALSE)

TryDeactivateIfViolates ==
    LET reads(w) == validators[w].active /\ vote[w] # Closed
        v == ScanValidators(reads,
                 LAMBDA w : /\ validators[w].active
                            /\ vote[w] # Closed => ~DoesPerformWell(vote[w], SnapshotPerf(w)))
    IN  StepResult(v, Ins("DeactivateIfViolates", v, 0, 0, FALSE))

\* Mutant: refuses a deposit that would use the whole effective reserve.
TryStakeDepositKeepsReserve ==
    IF ~Gate!ConfirmShouldStakeUnstake(slot, EndOfEpochThreshold, StakeTime)
       \/ ActiveValidators = {}
    THEN NoInstruction
    ELSE
      LET reserveBalance == GetEffectiveReserve
          targets        == AllocTargetBalance(reserveBalance)
          pick           == AllocMinimumStakeValidator(targets)
          v              == pick[1]
          below          == pick[2]
          \* top up to the target, but at least a minimum stake account
          amountToDeposit == LET a == IF below < reserveBalance THEN below ELSE reserveBalance
                             IN  IF a > MinStake THEN a ELSE MinStake
          \* merge into the last account if it was activated in this epoch
          merge == stakeAccts[v] # <<>> /\ Last(stakeAccts[v]).st = "activating"
      IN  IF amountToDeposit >= reserveBalance \/ ~MaintainerInList THEN NoInstruction
          ELSE Ins("StakeDeposit", v, amountToDeposit,
                   Seed(validators[v].stakeBegin + Len(stakeAccts[v])), merge)

\* Mutant: merges the deposit into the last account whatever its state.
TryStakeDepositMergeAny ==
    IF ~Gate!ConfirmShouldStakeUnstake(slot, EndOfEpochThreshold, StakeTime)
       \/ ActiveValidators = {}
    THEN NoInstruction
    ELSE
      LET reserveBalance == GetEffectiveReserve
          targets        == AllocTargetBalance(reserveBalance)
          pick           == AllocMinimumStakeValidator(targets)
          v              == pick[1]
          below          == pick[2]
          \* top up to the target, but at least a minimum stake account
          amountToDeposit == LET a == IF below < reserveBalance THEN below ELSE reserveBalance
                             IN  IF a > MinStake THEN a ELSE MinStake
          \* merge into the last account if it was activated in this epoch
          merge == stakeAccts[v] # <<>>
      IN  IF amountToDeposit > reserveBalance \/ ~MaintainerInList THEN NoInstruction
          ELSE Ins("StakeDeposit", v, amountToDeposit,
                   Seed(validators[v].stakeBegin + Len(stakeAccts[v])), merge)

TryStakeDeposit ==
    IF ~Gate!ConfirmShouldStakeUnstake(slot, EndOfEpochThreshold, StakeTime)
       \/ ActiveValidators = {}
    THEN NoInstruction
    ELSE
      LET reserveBalance == GetEffectiveReserve
          targets        == AllocTargetBalance(reserveBalance)
          pick           == AllocMinimumStakeValidator(targets)
          v              == pick[1]
          below          == pick[2]
          \* top up to the target, but at least a minimum stake account
          amountToDeposit == LET a == IF below < reserveBalance THEN below ELSE reserveBalance
                             IN  IF a > MinStake THEN a ELSE MinStake
          \* merge into the last account if it was activated in this epoch
          merge == stakeAccts[v] # <<>> /\ Last(stakeAccts[v]).st = "activating"
      IN  IF amountToDeposit > reserveBalance \/ ~MaintainerInList THEN NoInstruction
          ELSE Ins("StakeDeposit", v, amountToDeposit,
                   Seed(validators[v].stakeBegin + Len(stakeAccts[v])), merge)

TryUnstakeFromActiveValidators ==
    IF ~Gate!ConfirmShouldStakeUnstake(slot, EndOfEpochThreshold, StakeTime)
       \/ ActiveValidators = {}
    THEN NoInstruction
    ELSE
      LET pick == AllocUnstakeValidator(AllocTargetBalance(GetEffectiveReserve))
      IN  IF pick = None THEN NoInstruction
          ELSE IF stakeAccts[pick[1]] = <<>> THEN NoInstruction
          ELSE
            LET v == pick[1]
                \* (balance - MINIMUM_STAKE_ACCOUNT_BALANCE).expect(..): the
                \* model never reaches a smaller account (StakeAccountFloor)
                maximumUnstake == Total(stakeAccts[v][1]) - MinStake
                amount == IF pick[2] < maximumUnstake THEN pick[2] ELSE maximumUnstake
            IN  IF amount < MinStake \/ ~MaintainerInList THEN NoInstruction
                ELSE Ins("UnstakeFromActive", v, amount,
                         Seed(validators[v].unstakeBegin + NumUnstakeAccounts(v)), FALSE)

TryRemovePendingValidators ==
    LET v == FirstValidator(CanBeRemoved)
    IN  IF v = 0 THEN NoInstruction ELSE Ins("RemoveValidator", v, 0, 0, FALSE)

(***************************************************************************)
(* try_perform_maintenance: the first step of the chain that produces an   *)
(* instruction, in this order.                                             *)
(***************************************************************************)
SelectMaintenance ==
    OrElse(TryMergeOnAllStakes,
    OrElse(TryUpdateExchangeRate,
    OrElse(TryUpdateValidatorPerfs,
    OrElse(TryReactivateIfComplies,
    OrElse(TryUnstakeFromInactiveValidator,
    OrElse(TryUpdateStakeAccountBalance,
    OrElse(TryDeactivateIfViolates,
    OrElse(TryStakeDeposit,
    OrElse(TryUnstakeFromActiveValidators,
           TryRemovePendingValidators)))))))))

\* The funding guard aborts the cycle with an error when the maintainer is
\* listed and its balance is below 100_000_000 lamports.
MaintainerGuardFails == MaintainerInList /\ ~maintainerFunded

-----------------------------------------------------------------------------
(***************************************************************************)
(* The on-chain program (lido::processor, not in this repository): for     *)
(* each instruction the checks under which it executes, and its effect.    *)
(***************************************************************************)
FullyInactivePrefix(s) ==
    LET k == SelectInSeq(s, LAMBDA a : Inactive(a) # Total(a))
    IN  IF k = 0 THEN Len(s) ELSE k - 1

\* Split amount lamports off account a: delegated stake goes first.
SplitRemainder(a, amount) ==
    IF amount <= a.stake THEN [a EXCEPT !.stake = @ - amount]
    ELSE [a EXCEPT !.stake = 0, !.extra = @ - (amount - a.stake)]

ProgramOk(ins) ==
    LET v == ins.v IN
    CASE ins.kind = "MergeStake" ->
            /\ Listed(v) /\ Len(stakeAccts[v]) > 1
            /\ ins.seed = Seed(validators[v].stakeBegin)
            /\ CanMerge(stakeAccts[v][2], stakeAccts[v][1])
      [] ins.kind = "UpdateExchangeRate" -> ~exchangeRateCurrent
      [] ins.kind = "UpdateOnchainPerf" -> Listed(v) /\ vote[v] # Closed
      [] ins.kind = "UpdateOffchainPerf" ->
            /\ Listed(v) /\ vote[v] # Closed
            /\ OffchainPerfStale(perf[v])
      [] ins.kind = "ReactivateIfComplies" ->
            Listed(v) /\ ~validators[v].active /\ vote[v] # Closed
            /\ DoesPerformWell(vote[v], perf[v])
      [] ins.kind = "DeactivateIfViolates" ->
            IsActive(v) /\ (vote[v] # Closed => ~DoesPerformWell(vote[v], perf[v]))
      [] ins.kind \in {"UnstakeFromInactive", "UnstakeFromActive"} ->
            /\ Listed(v) /\ stakeAccts[v] # <<>>
            /\ NumUnstakeAccounts(v) < MaxUnstakeAccounts
            /\ ins.seed = Seed(validators[v].unstakeBegin + NumUnstakeAccounts(v))
            /\ ins.amount >= MinStake
            /\ \/ ins.amount = Total(stakeAccts[v][1])
               \/ ins.amount + MinStake <= Total(stakeAccts[v][1])
            \* checked arithmetic of compute_effective_stake_balance
            /\ validators[v].unstakeBal + ins.amount <= validators[v].stakeBal
      [] ins.kind = "UpdateStakeAccountBalance" ->
            Listed(v) /\ exchangeRateCurrent
      [] ins.kind = "StakeDeposit" ->
            /\ IsActive(v)
            /\ MinStake <= ins.amount /\ ins.amount <= GetEffectiveReserve
            /\ ins.seed = Seed(validators[v].stakeBegin + Len(stakeAccts[v]))
            /\ ins.flag => /\ stakeAccts[v] # <<>>
                           /\ Last(stakeAccts[v]).st = "activating"
      [] ins.kind = "RemoveValidator" -> CanBeRemoved(v)

ProgramApply(ins) ==
    LET v  == ins.v
        sa == stakeAccts[v]
        ua == unstakeAccts[v]
    IN
    CASE ins.kind = "MergeStake" ->
            /\ stakeAccts' = [stakeAccts EXCEPT ![v] =
                   <<[sa[2] EXCEPT !.stake = @ + sa[1].stake,
                                   !.extra = @ + sa[1].extra + StakeRent]>>
                   \o SubSeq(sa, 3, Len(sa))]
            /\ validators' = [validators EXCEPT ![v].stakeBegin = Seed(@ + 1)]
            /\ UNCHANGED <<reserve, exchangeRateCurrent, unstakeAccts, perf>>
      [] ins.kind = "UpdateExchangeRate" ->
            /\ exchangeRateCurrent' = TRUE
            /\ UNCHANGED <<reserve, validators, stakeAccts, unstakeAccts, perf>>
      [] ins.kind = "UpdateOnchainPerf" ->
            /\ perf' = [perf EXCEPT ![v] =
                   [commission |-> vote[v], current |-> TRUE,
                    rest |-> IF perf[v] = None THEN None ELSE perf[v].rest]]
            /\ UNCHANGED <<reserve, exchangeRateCurrent, validators, stakeAccts, unstakeAccts>>
      [] ins.kind = "UpdateOffchainPerf" ->
            /\ perf' = [perf EXCEPT ![v] =
                   [commission |-> IF perf[v] = None THEN vote[v] ELSE perf[v].commission,
                    current    |-> IF perf[v] = None THEN TRUE ELSE perf[v].current,
                    rest       |-> [current |-> TRUE,
                                    good |-> ins.amount >= MinBlockProductionRate]]]
            /\ UNCHANGED <<reserve, exchangeRateCurrent, validators, stakeAccts, unstakeAccts>>
      [] ins.kind \in {"ReactivateIfComplies", "DeactivateIfViolates", "RemoveValidator"} ->
            /\ validators' = [validators EXCEPT
                   ![v].active = (ins.kind = "ReactivateIfComplies"),
                   ![v].listed = (ins.kind # "RemoveValidator")]
            /\ UNCHANGED <<reserve, exchangeRateCurrent, stakeAccts, unstakeAccts, perf>>
      [] ins.kind \in {"UnstakeFromInactive", "UnstakeFromActive"} ->
            /\ IF ins.amount = Total(sa[1])
               THEN /\ stakeAccts' = [stakeAccts EXCEPT ![v] = Tail(sa)]
                    /\ unstakeAccts' = [unstakeAccts EXCEPT ![v] =
                           Append(ua, [sa[1] EXCEPT !.st = "deactivating"])]
                    /\ validators' = [validators EXCEPT ![v].stakeBegin = Seed(@ + 1),
                                                        ![v].unstakeBal = @ + ins.amount]
               ELSE /\ stakeAccts' = [stakeAccts EXCEPT ![v][1] = SplitRemainder(sa[1], ins.amount)]
                    /\ unstakeAccts' = [unstakeAccts EXCEPT ![v] =
                           Append(ua, [st |-> "deactivating", stake |-> ins.amount - StakeRent,
                                       extra |-> 0])]
                    /\ validators' = [validators EXCEPT ![v].unstakeBal = @ + ins.amount]
            /\ UNCHANGED <<reserve, exchangeRateCurrent, perf>>
      [] ins.kind = "UpdateStakeAccountBalance" ->
            \* withdraw the inactive lamports above rent of the stake
            \* accounts and the leading fully inactive unstake accounts
            LET k         == FullyInactivePrefix(ua)
                remaining == SubSeq(ua, k + 1, Len(ua))
                newSa     == [i \in DOMAIN sa |-> [sa[i] EXCEPT !.extra = 0]]
                withdrawn == FoldLeft(LAMBDA acc, a : acc + a.extra, 0, sa)
                            + SumTotals(SubSeq(ua, 1, k))
            IN
            /\ stakeAccts' = [stakeAccts EXCEPT ![v] = newSa]
            /\ unstakeAccts' = [unstakeAccts EXCEPT ![v] = remaining]
            /\ reserve' = reserve + withdrawn
            /\ validators' = [validators EXCEPT
                   ![v].unstakeBegin = Seed(@ + k),
                   ![v].stakeBal = SumTotals(newSa) + SumTotals(remaining),
                   ![v].unstakeBal = SumTotals(remaining)]
            /\ UNCHANGED <<exchangeRateCurrent, perf>>
      [] ins.kind = "StakeDeposit" ->
            /\ reserve' = reserve - ins.amount
            /\ stakeAccts' = [stakeAccts EXCEPT ![v] =
                   IF ins.flag
                   THEN [sa EXCEPT ![Len(sa)].stake = @ + ins.amount - StakeRent,
                                   ![Len(sa)].extra = @ + StakeRent]
                   ELSE Append(sa, [st |-> "activating", stake |-> ins.amount - StakeRent,
                                    extra |-> 0])]
            /\ validators' = [validators EXCEPT ![v].stakeBal = @ + ins.amount]
            /\ UNCHANGED <<exchangeRateCurrent, unstakeAccts, perf>>

-----------------------------------------------------------------------------
(***************************************************************************)
(* The maintainer: one cycle of run_perform_maintenance reads the ledger,  *)
(* runs try_perform_maintenance and submits the instruction it returns.    *)
(* send_transaction blocks until the transaction is confirmed, so a cycle  *)
(* starts only when no instruction of this maintainer is in flight.        *)
(***************************************************************************)
Maintain ==
    /\ inflight = NoInstruction
    /\ ~MaintainerGuardFails
    /\ SelectMaintenance \notin {NoInstruction, Panicked}
    /\ inflight' = SelectMaintenance
    /\ stale' = FALSE
    /\ UNCHANGED <<ledgerVars, envSteps>>

\* The transaction executes and the program accepts it ...
ExecuteAccepted ==
    /\ inflight # NoInstruction
    /\ ProgramOk(inflight)
    /\ ProgramApply(inflight)
    /\ inflight' = NoInstruction
    /\ stale' = FALSE
    /\ UNCHANGED <<slot, vote, blockProductionRate, maintainerFunded, envSteps>>

\* ... or rejects it: the ledger is left as it is and the cycle fails.
ExecuteRejected ==
    /\ inflight # NoInstruction
    /\ ~ProgramOk(inflight)
    /\ inflight' = NoInstruction
    /\ stale' = FALSE
    /\ UNCHANGED <<ledgerVars, envSteps>>

-----------------------------------------------------------------------------
(***************************************************************************)
(* The outside world.  Every step but the clock is one of EnvBudget; each  *)
(* makes an instruction in flight stale.                                   *)
(***************************************************************************)
EnvStep ==
    /\ envSteps < EnvBudget
    /\ envSteps' = envSteps + 1
    /\ stale' = (inflight # NoInstruction)

\* The transaction is lost; send_transaction fails and the cycle ends.
Drop ==
    /\ inflight # NoInstruction
    /\ EnvStep
    /\ inflight' = NoInstruction
    /\ UNCHANGED ledgerVars

\* Stake (de)activation completes at the epoch boundary.
AtEpochBoundary(a) ==
    CASE a.st = "activating"   -> [a EXCEPT !.st = "active"]
      [] a.st = "deactivating" -> [a EXCEPT !.st = "inactive"]
      [] OTHER                 -> a

\* Every recorded epoch is now a past one.
PerfInNewEpoch(p) ==
    IF p = None THEN None
    ELSE [p EXCEPT !.current = FALSE,
                   !.rest = IF @ = None THEN None ELSE [@ EXCEPT !.current = FALSE]]

Tick ==
    /\ IF slot + 1 < SlotsPerEpoch
       THEN /\ slot' = slot + 1
            /\ UNCHANGED <<exchangeRateCurrent, stakeAccts, unstakeAccts, perf>>
       ELSE /\ slot' = 0
            /\ exchangeRateCurrent' = FALSE
            /\ perf' = [v \in Validators |-> PerfInNewEpoch(perf[v])]
            /\ stakeAccts' = [v \in Validators |-> [i \in DOMAIN stakeAccts[v] |->
                                 AtEpochBoundary(stakeAccts[v][i])]]
            /\ unstakeAccts' = [v \in Validators |-> [i \in DOMAIN unstakeAccts[v] |->
                                   AtEpochBoundary(unstakeAccts[v][i])]]
    /\ stale' = (inflight # NoInstruction)
    /\ UNCHANGED <<reserve, validators, vote, blockProductionRate, maintainerFunded,
                   inflight, envSteps>>

\* A user deposits SOL into the reserve.
UserDeposit(amount) ==
    /\ EnvStep
    /\ reserve' = reserve + amount
    /\ UNCHANGED <<slot, exchangeRateCurrent, validators, stakeAccts, unstakeAccts,
                   vote, perf, blockProductionRate, maintainerFunded, inflight>>

\* An active stake account earns a reward, or anyone donates to a stake
\* account; both raise its balance without a Solido instruction.
Reward(v, i, d) ==
    /\ EnvStep
    /\ i \in DOMAIN stakeAccts[v]
    /\ stakeAccts[v][i].st = "active"
    /\ stakeAccts' = [stakeAccts EXCEPT ![v][i].stake = @ + d]
    /\ UNCHANGED <<slot, reserve, exchangeRateCurrent, validators, unstakeAccts,
                   vote, perf, blockProductionRate, maintainerFunded, inflight>>

Donate(v, i, d) ==
    /\ EnvStep
    /\ i \in DOMAIN stakeAccts[v]
    /\ stakeAccts' = [stakeAccts EXCEPT ![v][i].extra = @ + d]
    /\ UNCHANGED <<slot, reserve, exchangeRateCurrent, validators, unstakeAccts,
                   vote, perf, blockProductionRate, maintainerFunded, inflight>>

\* The validator changes its commission or closes its vote account.
ChangeCommission(v, c) ==
    /\ EnvStep
    /\ vote[v] \notin {Closed, c}
    /\ vote' = [vote EXCEPT ![v] = c]
    /\ UNCHANGED <<slot, reserve, exchangeRateCurrent, validators, stakeAccts,
                   unstakeAccts, perf, blockProductionRate, maintainerFunded, inflight>>

CloseVoteAccount(v) ==
    /\ EnvStep
    /\ vote[v] # Closed
    /\ vote' = [vote EXCEPT ![v] = Closed]
    /\ UNCHANGED <<slot, reserve, exchangeRateCurrent, validators, stakeAccts,
                   unstakeAccts, perf, blockProductionRate, maintainerFunded, inflight>>

\* The off-chain block-production measurement of a validator changes.
OffchainChange(v, r) ==
    /\ EnvStep
    /\ blockProductionRate[v] # r
    /\ blockProductionRate' = [blockProductionRate EXCEPT ![v] = r]
    /\ UNCHANGED <<slot, reserve, exchangeRateCurrent, validators, stakeAccts,
                   unstakeAccts, vote, perf, maintainerFunded, inflight>>

\* The maintainer's fee account is drained below, or topped up above, the floor.
MaintainerFunding ==
    /\ EnvStep
    /\ maintainerFunded' = ~maintainerFunded
    /\ UNCHANGED <<slot, reserve, exchangeRateCurrent, validators, stakeAccts,
                   unstakeAccts, vote, perf, blockProductionRate, inflight>>

-----------------------------------------------------------------------------
\* A pool whose validators were all just added: listed, active, no stake.
Init ==
    /\ slot = 0
    /\ reserve = ReserveRent
    /\ exchangeRateCurrent = TRUE
    /\ validators = [v \in Validators |->
                       [listed |-> TRUE, active |-> TRUE, stakeBegin |-> 0,
                        unstakeBegin |-> 0, stakeBal |-> 0, unstakeBal |-> 0]]
    /\ stakeAccts = [v \in Validators |-> <<>>]
    /\ unstakeAccts = [v \in Validators |-> <<>>]
    /\ vote = [v \in Validators |-> MaxCommission]
    /\ perf = [v \in Validators |-> None]
    /\ blockProductionRate = [v \in Validators |-> MaxRate]
    /\ maintainerFunded = TRUE
    /\ inflight = NoInstruction
    /\ stale = FALSE
    /\ envSteps = 0

Environment ==
    \/ Drop
    \/ \E a \in DepositAmounts : UserDeposit(a)
    \/ \E v \in Validators, i \in 1..2, d \in SurplusAmounts : Reward(v, i, d) \/ Donate(v, i, d)
    \/ \E v \in Validators, c \in Commissions : ChangeCommission(v, c)
    \/ \E v \in ClosableValidators : CloseVoteAccount(v)
    \/ \E v \in Validators, r \in BlockProductionRates : OffchainChange(v, r)
    \/ MaintainerFunding

Next ==
    \/ Maintain
    \/ ExecuteAccepted
    \/ ExecuteRejected
    \/ Tick
    \/ Environment

(***************************************************************************)
(* The daemon loops over cycles forever (the main loop calls               *)
(* run_perform_maintenance again after every cycle), and a submitted       *)
(* transaction is eventually confirmed or rejected unless it is lost: both *)
(* are weakly fair.  The cluster never stops producing slots, so the clock *)
(* is weakly fair too.  The outside world needs no fairness.               *)
(***************************************************************************)
Spec ==
    /\ Init /\ [][Next]_vars
    /\ WF_vars(Maintain)
    /\ WF_vars(ExecuteAccepted \/ ExecuteRejected)
    /\ WF_vars(Tick)

\* No transaction in flight and nothing left for try_perform_maintenance.
Quiescent ==
    /\ inflight = NoInstruction
    /\ MaintainerGuardFails \/ SelectMaintenance = NoInstruction

(***************************************************************************)
(* An epoch lasts some 432,000 slots, its end-of-epoch window thousands,  *)
(* and a cycle a few, so a daemon that keeps up finishes the work of a     *)
(* window before the next one begins.  With a handful of slots per epoch   *)
(* the model's clock could instead leave every window while its work       *)
(* (exchange rate, performance, deactivation) is still pending; the        *)
(* liveness runs use this specification, in which a slot that enters the   *)
(* end-of-epoch window or a new epoch passes only once the daemon has      *)
(* nothing left to submit: it is quiescent, or it panics on the snapshot.  *)
(***************************************************************************)
Panicking == inflight = NoInstruction /\ ~MaintainerGuardFails /\ SelectMaintenance = Panicked

EntersWindow ==
    \/ slot + 1 = SlotsPerEpoch
    \/ Gate!IsAtEpochEnd(slot + 1, EndOfEpochThreshold) # Gate!IsAtEpochEnd(slot, EndOfEpochThreshold)

PatientTick == Tick /\ (EntersWindow => Quiescent \/ Panicking)

LiveSpec ==
    /\ Init
    /\ [][Maintain \/ ExecuteAccepted \/ ExecuteRejected \/ PatientTick \/ Environment]_vars
    /\ WF_vars(Maintain)
    /\ WF_vars(ExecuteAccepted \/ ExecuteRejected)
    /\ WF_vars(PatientTick)

-----------------------------------------------------------------------------
StakeAccountRecords == [st : {"activating", "active", "deactivating", "inactive"},
                        stake : Nat, extra : Nat]

TypeOK ==
    /\ slot \in 0..SlotsPerEpoch - 1
    /\ reserve \in Nat /\ exchangeRateCurrent \in BOOLEAN
    /\ validators \in [Validators -> [listed : BOOLEAN, active : BOOLEAN,
                                      stakeBegin : 0..SeedSpace - 1,
                                      unstakeBegin : 0..SeedSpace - 1,
                                      stakeBal : Nat, unstakeBal : Nat]]
    /\ \A v \in Validators :
         /\ stakeAccts[v] \in Seq(StakeAccountRecords)
         /\ unstakeAccts[v] \in Seq(StakeAccountRecords)
    /\ vote \in [Validators -> Commissions \cup {Closed}]
    /\ blockProductionRate \in [Validators -> BlockProductionRates \cup {MaxRate}]
    /\ maintainerFunded \in BOOLEAN
    /\ inflight.kind = "none" <=> inflight = NoInstruction
    /\ stale \in BOOLEAN /\ envSteps \in 0..EnvBudget

(***************************************************************************)
(* An instruction chosen by try_perform_maintenance from a snapshot that   *)
(* is still the ledger's state when it executes is accepted by the         *)
(* program: the selector's own preconditions (seeds, amounts, the number   *)
(* of unstake accounts, merge compatibility, the minimum stake floor)     *)
(* imply the program's checks.  A rejected transaction still costs fees,   *)
(* and the next cycle reads the same ledger and chooses it again.          *)
(***************************************************************************)
FreshInstructionAccepted == [][ExecuteRejected => stale]_vars

(***************************************************************************)
(* Spec section 4.4 step 3b: when the block-production rate of a         *)
(* validator is not available, do_update_offchain_validator_perfs reports  *)
(* the "worst possible" sentinel, so a validator nobody has measured is    *)
(* never recorded as meeting the block-production criterion.               *)
(***************************************************************************)
UnknownBlockProductionReportedWorst ==
    [][ /\ inflight = NoInstruction /\ inflight'.kind = "UpdateOffchainPerf"
        /\ blockProductionRate[inflight'.v] = None
        => inflight'.amount < MinBlockProductionRate ]_vars

(***************************************************************************)
(* Spec section 4.4 step 8: the reserve is staked.  While the reserve      *)
(* holds at least a minimum stake account above its rent and a validator  *)
(* is active, try_stake_deposit eventually moves it into stake accounts:  *)
(* the deposit amount is never below MINIMUM_STAKE_ACCOUNT_BALANCE (which *)
(* the program would reject every cycle) nor above the reserve.           *)
(***************************************************************************)
ReserveEventuallyStaked ==
    (GetEffectiveReserve >= MinStake /\ ActiveValidators # {})
        ~> (GetEffectiveReserve < MinStake \/ ActiveValidators = {} \/ MaintainerGuardFails)

(***************************************************************************)
(* Spec section 7: a closed vote account is an expected state, and the     *)
(* chain routes its validator towards deactivation and removal:            *)
(* try_deactivate_if_violates, then try_unstake_from_inactive_validator    *)
(* for every stake account, try_update_stake_account_balance once the      *)
(* unstake accounts are inactive, and try_remove_pending_validators.  The  *)
(* validator is eventually removed from the list, unless the maintainer's  *)
(* funding guard stops the daemon.                                         *)
(***************************************************************************)
ClosedValidatorEventuallyRemoved ==
    \A v \in Validators :
        (Listed(v) /\ vote[v] = Closed) ~> (~Listed(v) \/ MaintainerGuardFails)

(***************************************************************************)
(* Spec section 7: an absent vote account is an expected state, and the    *)
(* logic downstream of the snapshot "must handle absence by routing toward *)
(* deactivation/removal rather than failing".  try_perform_maintenance     *)
(* never panics: every validator_perfs[i] the try_* loops read is in       *)
(* bounds, although SolidoState::new pushes to validator_perfs only for    *)
(* readable vote accounts.                                                 *)
(***************************************************************************)
AbsentVoteAccountTolerated ==
    inflight = NoInstruction /\ ~MaintainerGuardFails => SelectMaintenance # Panicked

(***************************************************************************)
(* Spec section 6 (outputs): every value the metrics report must be        *)
(* traceable to a field of the snapshot.  write_prometheus reports a row   *)
(* for every listed validator, labelled with that validator's own identity *)
(* and name, and solido_balance_sol adds up to the effective reserve and   *)
(* the lamports of every listed validator's stake and unstake accounts.    *)
(***************************************************************************)
MetricsTraceToSnapshot ==
    /\ Len(MetricRows) = Len(ListedValidators)
    /\ \A k \in DOMAIN MetricRows : MetricRows[k].identity = MetricRows[k].voteAccount
    /\ ReportedBalance = GetEffectiveReserve
         + MapThenSumSet(LAMBDA v : SumTotals(stakeAccts[v] \o unstakeAccts[v]),
                         {v \in Validators : Listed(v)})

(***************************************************************************)
(* Spec section 4.5: callers loop on try_perform_maintenance until it      *)
(* returns no action.  Every instruction the chain chooses either changes  *)
(* the ledger so that the chain moves on, or the loop would resubmit it    *)
(* forever: the daemon must reach a state with nothing left to do again    *)
(* and again (once per epoch), not cycle through rejected or ineffective  *)
(* instructions.                                                           *)
(***************************************************************************)
CycleEventuallyQuiescent == []<>Quiescent

=============================================================================

# TLA+ models of the Solido maintenance daemon

This directory models `src/cli/maintainer/src/maintenance.rs`, the
maintenance daemon of Solido (Lido for Solana), and checks the models with TLC.
The on-chain program, the stake-account helpers, the allocator and the validator
criteria are in the `lido` crate. That crate is not in this repository, so those
parts are modelled after `spec.md` and marked `spec_modelled` in `PROJECT.json`.

## The system

A maintainer runs `run_perform_maintenance` in a loop. Each cycle:

1. reads a snapshot of the ledger (`SolidoState::new`);
2. runs the maintainer-balance guard;
3. runs the ordered chain of `try_*` steps and takes the first one that returns
   an instruction: merge, exchange rate, validator performance, reactivate,
   unstake from an inactive validator, stake-account balance sync, deactivate,
   stake deposit, rebalancing unstake from active validators, remove;
4. signs and sends that instruction.

The on-chain program then accepts or rejects the instruction against the ledger
as it is at execution time. Several maintainers share the work through a duty
rotation: `get_current_maintainer_duty` says who is on duty, and
`get_next_maintainer_duty_slot` says when to wake up. Two epoch gates decide
when work is allowed:

- `is_at_epoch_end` gates the performance updates and reactivation;
- `confirm_should_stake_unstake_in_current_slot` gates staking and unstaking in
  `OnlyNearEpochEnd` mode.

## Modules

| Module | Models | State | Actions |
|---|---|---|---|
| `MaintainerDuty` | duty rotation (lines 1575-1665) | maintainer list, clock slot | `Tick` |
| `MCMaintainerDuty` | model values and the `SlotBound` constraint for TLC | | |
| `DutyRotation` | what duty promises: maintainers take turns in list order, with a pause between turns; it uses no slots | list, `onDuty`, `turn` | `EndTurn`, `NextTurn` |
| `DutyHandover` | several daemons sharing work by duty; it instances `MaintainerDuty` and refines `DutyRotation` | list, cluster slot modulo `Period`, each daemon's in-flight transaction | `Submit(m)`, `Execute(m)`, `Tick` |
| `EpochGate` | the epoch gates (1668-1727) | slot offset in the epoch | `Tick` |
| `Maintenance` | the maintenance decision engine, composed with a model of the ledger, the program and the outside world; it uses `EpochGate` through `INSTANCE` | ledger, in-flight instruction, `stale` flag | listed below |
| `MCMaintenance` | instance of `Maintenance` for TLC | | |

`Maintenance` has one operator per `try_*` function, named after it.
`SelectMaintenance` is the `or_else` chain (lines 1759-1777).
`MaintainerGuardFails` is the balance guard. Its actions are:

- `Maintain`: one cycle that selects an instruction and submits it. A cycle
  starts only when nothing is in flight, because `send_transaction` blocks.
- `ExecuteAccepted` and `ExecuteRejected`: `ProgramOk` and `ProgramApply`, the
  program's checks and effects.
- `Drop`: a lost transaction.
- `Tick`: the clock. At an epoch boundary it marks the exchange rate and
  performance records as past and completes stake activation and deactivation.
- The outside world: `UserDeposit`, `Reward`, `Donate`, `ChangeCommission`,
  `CloseVoteAccount`, `OffchainChange`, `MaintainerFunding`.

The data is abstracted as follows:

- Lamport amounts are small integers.
- A stake account is `[st, stake, extra]`.
- The vote success rate is taken to meet the criteria. The block-production
  rate is a small number, or `None` when unknown; `MaxRate` stands for
  `u64::MAX`.
- Recorded epochs are kept as "is the current epoch" flags, so the clock needs
  no bound. The code only ever compares a recorded epoch with the current one.
- Seeds are kept modulo `SeedSpace`. They are only compared for equality.
- The snapshot's per-validator vectors are positional, as `SolidoState::new`
  builds them:
  - `validator_vote_accounts` gets an entry for every listed validator.
  - `validator_perfs` and `validator_block_production_rates` get an entry only
    for validators whose vote account could be read (`ReadableValidators`).
  - The `try_*` loops index all of them by list position (`ListIndex`,
    `SnapshotPerf`, `SnapshotRate`).
  - `ScanValidators` is such a loop (for example lines 823-845). It returns
    the first validator that matches, or `Panicked` at the first
    `validator_perfs[i]` it reads out of bounds.
  - A panic unwinds through the rest of the `or_else` chain and ends the
    process. The daemon keeps no state of its own, so a restart reads the
    same ledger and panics again. A panicking cycle is therefore a step that
    changes nothing.
- `MetricRows` is the per-validator loop of `write_prometheus` (lines
  1375-1446). It zips the validator list with the snapshot vectors, and `zip`
  stops at the shortest one. `ReportedBalance` is the total of
  `solido_balance_sol`.

Each mutant operator, for example `TryStakeDepositMergeAny`, is a
plausible bug in the definition that follows it. `PROJECT.json` lists the
mutants, and TLC must find each one's property violated.

## Runs

| Run | Expect | Checks | What it shows |
|---|---|---|---|
| `maintainer_duty` | pass | `NextDutySlotAgreesWithCurrentDuty` | For every list of up to 3 maintainers and slots 0..700 (seven slices of 100), the wake-up slot starts the caller's next slice. The 10 slots before it are a pause, and no slice of the caller is skipped. Called again from its own result, it returns one cycle later. This is the round-trip and monotonicity law of spec §8. |
| `duty_handover` | pass | `NoRaceAtHandover`, `RotationRefined` | Two maintainers never have transactions in flight at once, when a daemon's clock lags by up to 4 slots and a transaction executes within 6. The duty function implements the abstract rotation, including the liveness that every maintainer is on duty again and again. |
| `epoch_gate_inclusive` | violation | `StakeGateInclusiveAtThreshold` | At slot 190 of 200 the epoch is "at its end", but staking is refused. Line 1720 uses `>` where spec §8 and `is_at_epoch_end` use `>=`. The spec contradicts itself: §4.2 says progress must "exceed" the threshold, which is what the code does, while §8 asks for an inclusive gate. At threshold 100 the strict gate never opens, because progress through an epoch stays below 1. |
| `maintenance_safety` | pass | `FreshInstructionAccepted` | An instruction chosen from a snapshot that is still current is accepted by the program. A rejected instruction always comes from a stale snapshot. Result: 105,093 states. |
| `maintenance_liveness` | pass | `ClosedValidatorEventuallyRemoved`, `CycleEventuallyQuiescent`, `ReserveEventuallyStaked` | A closed validator is removed eventually. The daemon keeps reaching a state with no work left. A reserve holding at least a minimum stake account is eventually staked. |
| `unknown_block_production` | violation | `UnknownBlockProductionReportedWorst` | A validator without block-production data is reported with `u64::MAX`, the best rate (line 1102). Spec §4.4 step 3b asks for the worst sentinel, so the code and spec diverge. |
| `closed_vote_panic` | violation | `AbsentVoteAccountTolerated` | Closing the vote account of validator 1 of 2 makes every cycle panic (code bug, described below). |
| `metrics_misattributed` | violation | `MetricsTraceToSnapshot` | The same shortfall misreports the metrics (code bug). With one vote account closed, `write_prometheus` drops the last validator's row and its stake from `solido_balance_sol`. It also labels every row from the closed validator on, the closed validator's own row included, with the next validator's identity balance, name and keybase. |
| `inactive_unstake_livelock` | violation | `ClosedValidatorEventuallyRemoved` | A donation to a deactivated validator's stake account creates a livelock (described below). |
| `unstake_active_at_max` | violation | `FreshInstructionAccepted` | `try_unstake_from_active_validators` ignores `MAXIMUM_UNSTAKE_ACCOUNTS` (code bug), so the program rejects its instruction from a fresh snapshot. |

The livelock happens in this order:

1. A donation raises the total of a deactivated validator's stake account.
2. `try_unstake_from_inactive_validator` asks to unstake that full total, which
   is more than the recorded effective balance.
3. The program rejects it.
4. The next cycle chooses it again, because step 5 of the chain comes before
   the sync at step 6. So the validator is never removed.

The panic happens in this order:

1. The vote account of validator 1 is closed. `SolidoState::new` pushes
   `None` to `validator_vote_accounts`, and nothing to `validator_perfs`
   (lines 529-561).
2. `do_update_onchain_validator_perfs` skips validator 1. For validator 2 it
   reads `validator_perfs[1]` of a one-element vector (line 1040), which
   panics.
3. This happens every cycle, before `try_deactivate_if_violates` is reached.
   So the closed validator is never deactivated or removed. Spec section 7
   says absence must be "routed toward deactivation/removal rather than
   failing".

When only the last vote account is closed, `do_update_offchain_validator_perfs`
(line 1084) panics in every end-of-epoch window instead. Outside that window
the validator is still removed, which `maintenance_liveness` checks. With
three or more validators, the shifted index also judges a validator by its
neighbour's performance record.

## Bounds

- **Two validators.** This is enough for ordering in `FirstValidator` and for
  the allocator to choose between validators.
- **Amounts.** `MinStake = 2`, `StakeRent = 1` and deposit 4. These give both a
  full-account unstake and a split.
  - One unit stands for more than the 500,000 lamports of
    `MINIMUM_WITHDRAW_AMOUNT` (line 478). Every difference the model can
    produce is a whole number of units. So "above 500,000 lamports" is the
    same test as "above 0 units", and `MinWithdraw = 0` is exact at this
    scale.
- **`SlotsPerEpoch = 2`.** This is enough for one slot before the threshold and
  one slot at it.
- **`ClosableValidators`** are the validators whose vote accounts the outside
  world may close.
  - It is `{1, 2}` in the safety, at-max and unknown-rate runs.
  - It is `{2}` in `maintenance_liveness` and `inactive_unstake_livelock`.
    Closing validator 1 makes the daemon panic forever, which
    `closed_vote_panic` shows. So those two runs check what happens apart
    from that bug.
- **`EnvBudget`** limits the outside-world steps in a behaviour: 2 in the
  passing runs, and 3 or 4 in the violation runs.
  - A budget of 2 covers:
    - a deposit followed by any one other event;
    - a vote closure with a reward, donation or commission change;
    - a lost transaction.
  - The two code-level problems need 3 or 4 steps. That is why they appear as
    violation runs and are not hidden by the passing ones.
  - A budget of 3 makes the safety run take more than 5 minutes.
- **`DutyHandover`** uses the code's slice of 100 and pause of 10, lists of up
  to 3 maintainers, and a clock modulo 600. The duty function repeats every
  `len * 100` slots, so modulo 600 is exact for lists of length 1 to 3.
  - With `Lag + Latency = 10` the runs pass; with 11, `NoRaceAtHandover` is
    violated. So the pause absorbs exactly 10 slots of clock lag plus latency,
    about 5.5 s at 550 ms per slot.
  - This is a limit, not a finding: spec §4.3 calls duty advisory.

## Fairness

The daemon loops forever, so `Maintain` is weakly fair. A sent transaction is
eventually executed or rejected, so execution is weakly fair. The cluster
produces slots, so the clock is weakly fair. The outside world gets no
fairness. In `DutyHandover` only the clock is fair: the cluster produces slots,
and the refinement's liveness follows from that alone.

The liveness runs use `LiveSpec`. In `LiveSpec`, a slot that enters the
end-of-epoch window, or a new epoch, passes only once the daemon has nothing
left to submit (`PatientTick`). That means it is `Quiescent`, or it panics on
the snapshot (`Panicking`). A real epoch is about 432,000 slots, its
end-of-epoch window thousands, and a cycle takes a few. Without this, a 2-slot
epoch would let the clock leave every window before that window's work is
done.

## Not modelled

- **Snapshot acquisition (`SolidoState::new`).** The vectors it builds are
  modelled, but the RPC reads are taken as one atomic read.
- **`sanitize_validator_name` (lines 444-472).** It formats a label for the
  metrics from fixed code-point ranges and changes no state.
- **The rest of `write_prometheus` and the `Display` impls.** The global
  gauges, the text format and the I/O only format output. The per-validator
  rows are modelled.
- **The snapshot's atomicity.** `SolidoState::new` is many RPC reads. Another
  maintainer's transaction landing between the validator-list read and the
  stake-account reads makes the cycle fail with an error. The next cycle
  retries. The reads go through a client outside this repository, so the
  model takes the snapshot as one atomic read.
- **Signers.**
- **Several daemons sharing one ledger.** `DutyHandover` checks their schedule
  and in-flight transactions, not their effect on the ledger.
- **The daemon loop.** It is not in this repository. Its duty check is modelled
  after spec §4.3 as `Submit`.
- **The snapshot client's error kinds.** Line 555 treats `OtherError` as a closed
  vote account. Whether a transient failure can arrive as `OtherError` cannot
  be read from this repository.

## Plan for later work

- Compose `Maintenance` with two daemons that race on one ledger.
- Model the non-atomic snapshot: stake accounts read after the validator list.
- Write an abstract selector specification, for example a validator
  lifecycle, and show that `Maintenance` refines it.
- Model a send that reports failure but whose transaction lands after the
  next cycle has chosen again (line 1786). This needs the semantics of
  `sign_and_send_transaction` and the lido program's handling of a second
  merge deposit, neither of which is in this repository.

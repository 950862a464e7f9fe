# A TLA+ development of PIP

PIP caps the power of a server by limiting the CPU bandwidth of two cgroups,
`user` (low priority) and `critical` (high priority), through their `cpu.max`
files. A controller thread measures package power, compares it with a budget
that other processes write to a file, and throttles or unthrottles. PIP itself
asks a learned model which throttle would meet the budget; the repository also
holds the baselines it is compared with. Paths below are relative to `src/`.

## The system and its parts

| Part | Source | Here |
|---|---|---|
| PIP controller: thread, restart loop, `cpu.max` | `control/powercap_CPU_powertrace-final.py` | `PIPController` |
| Its model, calibration, and the machine it controls | same file | `PIPClosedLoop` |
| Thunderbolt baseline (randomized unthrottling, multiplicative decrease) | `control/powercap_CPU_google-ALL-v1.2.py` | `Thunderbolt` |
| What both promise of priorities | both of the above, `README.md` | `PriorityCapping` |
| PIP without priorities | `control/powercap_CPU_powertrace-final-noQoS.py` | `NoQoSController` |
| MS, Oracle and RAPL baselines | `control/powercap_CPU_{MS,oracle,rapl}.py`, `control/oracle_collect.py` | `MSController`, `OracleController`, `RaplController` |
| Oversubscription experiment and its budget writer | `run-bench-oversubscription.sh` | `Oversubscription` |
| Other budget writers | `control/budget_control*.sh`, `run-bench-colocation.sh` | the environment of every controller |
| Cross-node prediction over TCP | `predxnd/` | `CrossNode` |
| Estimation, attribution, setup, training, plots, bundled benchmarks | see below | not modelled |

Controller and budget writers meet only in the budget file; controller and
workload meet only in the two `cpu.max` files and the power that perf reports.
The cross-node part is separate: it meets the rest in no file it writes.
`PROJECT.json` maps each definition to the lines it stands for.

## Modules

**PriorityCapping** is the abstract specification: two limits; a *throttle*
raises nothing and lowers `critical` only if it leaves `user` at the floor; a
*recovery* lowers nothing and raises `user` only if `critical` is back at full.

**PIPController** has one variable per global the control flow depends on,
under the code's name. `cpu_max` is what the kernel enforces;
`current_bandwidth` and `current_bandwidth2` are what the thread *believes* it
enforces. Much of what can go wrong is a difference between the two. `pc` is
the place in `run_stress_test`:

| `pc` | code | actions |
|---|---|---|
| `budget` | 655-663 | `ReadBudget` (a truncated file is retried) |
| `energy` | 665-689 | `EnergySample` |
| `sample` | 691-716 | `SampleNoPower`, `Sample` with a complete map, one without perf metrics, or an empty one |
| `control` | 718-737 | `AdjustmentDies`, the `Strict...` actions, the `Increase...` actions, `DeadBand` |
| `user_write` | 632-637 | `UserToFloor`: the critical limit is written, the user limit is not yet |
| `dead` | 744-753 | `Restart` by the main loop |

A decision is one action, as the thread alone touches the limits, except that
a failed search is two (`critical_power_capping`, then `UserToFloor`), as the
state between its two writes is one in which the kernel has the critical limit
lowered first. Feature maps are reduced to whether they
carry their metrics, since that decides which indexing or prediction raises.
What the model answers is any candidate of the searched range, or none: what
holds here holds for every model and calibration. The read-back of a limit is
the truncating floating-point conversion of the code, which loses a percent at
29, 57 and 58. Where `write_errors`, chosen initially and fixed, is true, each
access to `cpu.max` may fail and be swallowed. A signal only stops the thread and writes
nothing, so it is a behaviour that stutters for ever. (With the CPython 3.10 of
the artifact's Ubuntu 22.04 the first signal is taken to end the process.)

**PIPClosedLoop** extends it with what decides the searches: the load of each
cgroup, the power as a linear function of what limits and loads leave, a model
with a constant error, `prev_prediction`, and `calibration_offset` in fixed
point. Each of its steps is one of `PIPController`, with the candidate the
prediction picks.

**Thunderbolt** keeps bandwidths in units of `1/Unit` percent and the files in
microseconds, as `set_cpu_max` computes them. A write has two steps: `f.write`
fills a buffer, the end of the `with` block flushes it. The signal handler may
run at any point of the loop; it restores both files, and the `SystemExit` it
raises closes, and so flushes, a file that was being written. A wait is `ahead` or has `passed`; its length, 1 to 10 seconds, plays no further part.

**BaselineFiles** holds what the four smaller controllers share: the budget
file, the user cgroup's `cpu.max`, the place in the loop. **MSController**,
**NoQoSController**, **OracleController** and **RaplController** are one loop
each; **Baselines** lets the operator start one of them under a writer of the
budget file. MS and NoQoS threads die of exceptions and are replaced. Oracle
includes the sweep that records its table and the save that can be interrupted.
RAPL's counters are found anywhere in their range and wrap, reads fail (`unread`
is the history of the first ones), and the limit files are written one by one.

**Oversubscription** has the driver shell, line by line where the order of its
commands matters, the fluctuating subshell, a `tee` that survives the subshell,
the starters that sleep ten seconds, and the controllers, of which only that
they throttle matters. A command that `set -e` does not let fail ends the sweep
(`CommandFails`, a branch of `Baselines` and of `EndJob`), an interrupt does so
at any line, and either way the exit trap runs. `cgroup_init.sh` is taken to
lift the limits.
(`start_budget_fluctuation` calls its second budget `low`; line 59 makes it the
higher one. The model follows line 59.)

**CrossNode** has the monitor and its pipe, the sender, the loop that restarts
the sender, the server, and the TCP connections between them. An attempt to
connect fails because nobody listens, because the backlog is full, or by a
fault of the network (`NetworkFails`); the third one ends the sender.
A connection is what its server can still receive, whether the client closed it, and whether it
was cut; `link` is the sender's end. Each sample has a label *in the model
only*, since the messages carry none; this is what lets a property say whose
answer is read. **Estimates** is the abstract specification of the exchange: a
sample is asked about, then answered or lost, then the next one is due. Its
`status` is derived from where the sender is, what it can read, and whether its
connection still waits or is served.

**Settling** is about one natural number below 2^14 and no part of PIP: it is
the step from a measure that never grows to liveness (see below).

**MC...** modules give values for TLC; **...Proofs** hold the theorems.
Operators marked `Mutant` are the changed forms that show that each property
depends on the code; no specification uses them.

## What the runs check

| Run | Checks |
|---|---|
| `pip_healthy` | Complete samples, working files, two budgets, `Full = 60`. `HealthyInv`: the thread never dies, beliefs equal limits, critical is throttled last. `StrictNeverRaises` at 97% of the budget or more, `IncreaseNeverLowers` below 94%. `CappingSpec`: refinement of `PriorityCapping`. `RecoversWhenLow`: lasting low power returns all bandwidth, even if the model rejects everything. |
| `pip_faults` | Every sampling fault and restart, with `cpu.max` working or failing. In both: `TypeOK`, no percentage reaches 0, which would divide by zero (line 337) or leave a search empty; `OnlyRestartUpsetsPriority`, no step of the thread, however it fails, upsets the order of the beliefs. With working files: `CriticalInSync`, `UserKnownOrForgotten` (a thread knows the user limit or has forgotten a throttle, nothing else), `StrictNeverRaisesCritical`. |
| `thunderbolt_limits` | Resolution 0.01%. `LimitsFollow`: changes too small to apply (line 208) never add up. `CriticalLastInForce`: priority holds in the files at every step, mid-write included. `OneLeftOnExit`: an exit leaves at most the cgroup being written throttled. `CappingSpec`. |
| `thunderbolt_liveness` | `OverloadReachesMinimum`, which needs `throttling_active_state` in the soft band; `RecoversWhenLow` in spite of the waits. |
| `closed_loop` | `OffsetBounded`: the calibration offset stays bounded although it compares powers with stale predictions, and at first with 0. `OvershootBounded`: with a model that does not underestimate, a recovery exceeds the budget by no more than the forced step. `SearchMeetsBudget`: one search meets the budget up to what the calibrated prediction still underestimates. `CriticalOnlyForShortfall`: a prediction that does not overestimate takes from `critical` only what `user` cannot give. `OverloadEnds`, `LightLoadRecovers`. `CriticalStaysFull`: if throttling `user` suffices, `critical` in the end has its full bandwidth. |
| `oversubscription` | `StartsAtBase`, `BudgetOfThisJob`: no `tee` of an earlier writer spoils a later budget. `LeftoversBounded`: a controller that missed its kill is gone one job later. `StartsUnthrottled`: the initial condition the controllers' modules assume. `SweepCompletes` (comment at line 123), unless another command fails or the user interrupts. |
| `baselines` | `NQRaisesOnlyWhenFresh`: PIP without priorities raises the limit near the budget only if its thread believes the cgroup unthrottled, as a fresh one does. `OracleWithinTable`: the highest level that fits. `EnergyNotOvercounted`, across wraparound and failed reads, from the first reading that succeeds. `RaplLimitsFollow`: an error on one file keeps no other from being written. Liveness: `MSOverloadThrottles`, `MSSlackRecovers`, `NQOverloadThrottles`, `OracleSettles`, `RaplSettles`. |
| `cross_node` | Up to four faults. `ExchangeSpec`: refinement of `Estimates`; paired by order alone, the answer read is that to the last sample, from a local map that serves no other, and no sample is given up that can still be answered. `NeverBothWait`: the blocking `recv` and `readline` never wait for each other. `EstimatesResume`: after the faults the restart loop gets estimates flowing, unless the server died or an end still holds a cut connection. |

Four disagreements with the repository's own text are kept as runs that TLC
refutes:

| Run | What happens |
|---|---|
| `pip_restart_raises` | Restarting the thread resets `current_bandwidth` to 100 (line 652) but not the file. The next strict decision, over budget, writes a *higher* user limit. The docstring (554) promises throttling. By the same reset a user cgroup can stay throttled for ever while power is low. |
| `pip_poisoned_map` | `parse_perf_metrics` returns an error tuple rather than raising; kept as the first predictive map, it makes every later calibration raise, and the restarted thread inherits it. Line 715 says that the iteration is skipped. |
| `thunderbolt_exit` | A signal between `f.write` and the flush: the handler writes 100%, then the unwinding flushes the throttled limit over it. The section is headed "Graceful Exit" (219). |
| `closed_loop_critical` | After a recovery step the calibration compares the power with a prediction that is several decisions old (719). Even with a model that is always right, the next search then rejects every user throttle and takes from `critical`. The docstring (505) says "if user throttling alone cannot meet the budget". By `CriticalStaysFull` this does not last. |

Also seen while modelling, without a run:

- The docstring of `strict_power_capping` speaks of steps of 5 (556-557); the
  code takes 10 at or over the budget.
- Thunderbolt's wait is started by recoveries only, so the first recovery after
  a throttle is immediate; `README.md:97` says that it waits.
- `predxnd/run-bench-throttle.sh:199` calls its loop "resilient to network
  drops". It is resilient to those that TCP reports. After a silent one, an end
  that only waits (the server in `recv`, the sender in `readline`) has neither
  a timeout nor keepalive and can wait for ever: the exemption `<>[]Lost` in
  `EstimatesResume`.
- A measurement that fails at `predxnd/merge_pred_throttle.py:217`, outside the
  `try`, ends the server, which nobody restarts: the other exemption.
- PIP without priorities, restarted over a throttled cgroup, never lifts the
  limit while power stays low.
- `recover_bandwidth` adds the calibration offset to the prediction (392) and to
  the budget (396), so that it cancels; the docstring (368) compares prediction
  and offset with the budget alone. `OvershootBounded` is about the code.
- If the first reading of an energy counter fails, `powercap_CPU_rapl.py:59`
  takes it to have been 0, and line 72 counts all that the counter holds as the
  energy of one period. The limits are then written once more, to no effect.
- A `tee` that fails in the exit trap of `run-bench-oversubscription.sh` (81, 87)
  ends the trap under `set -e`, and the controllers keep running (`TrapFails`).
- An interrupt between lines 70 and 71 of `run-bench-oversubscription.sh`
  leaves the budget writer running, as `FLUCT_PID` is not yet set.

### Bounds

- Powers: one in every band the code distinguishes (for PIP a gap of 10 W or
  more, less, the dead band, 97%, over by less and by more than `TOLERANCE`;
  for Thunderbolt each side of 90%, 96% and 98%), for each budget. Any
  power may follow any other, so every crossing happens.
- `Full` is 100 in the code. `pip_healthy` takes 60, which includes the three
  percentages that do not survive the read-back and every step size several
  times over; the fault run takes 12, above the thresholds 5 and 10 of the
  code; `closed_loop` takes 100. The theorems on safety hold for every `Full`.
- `Cores = 2`: with one core the least quota and the 1% quota coincide. `Unit`
  is 100 where rounding matters (0.01% is the threshold of line 208), else 1.
- `Init` of Thunderbolt and of the baselines leaves the files as an earlier
  controller may have; PIP's starts unthrottled, as `scripts/cgroup_init.sh`
  leaves them (`StartsUnthrottled`).
- The runs of Thunderbolt and of the baselines have working `cpu.max` writes;
  the theorems on types (and Thunderbolt's refinement) cover failing ones.
- `closed_loop`: a machine of 60 to 300 W, three loads (light, `user` too high,
  both too high), errors of the model of -20, 0 and 20 W, and
  `MaxChanges = 2` changes of load or budget, enough for an offset or a
  prediction of an earlier regime to be used in a later one.
- `oversubscription`: two levels of two benchmarks, eight jobs, so that a
  leftover can cross both a job and a level. Time is kept as two orders that
  ten seconds guarantee: the driver's sleep outlasts a `tee` begun before it,
  and the sleep of every starter of an earlier job.
- `baselines`: `Wrap = 300` with bursts of 100, so that a counter wraps in two
  periods, and `Counters = {0, 200}`, so that it is found at 0 or about to wrap;
  an iteration lasts the two seconds it sleeps, so power is energy
  halved; the sweep's `Step = 50` gives a table of two levels; two limit files.
- `cross_node`: labels modulo 3, as at most two samples are ever in question;
  a pipe and a backlog of two; `MaxFaults = 4` admits a bad sample, two cut
  connections and a restart in one behaviour.

### Fairness

Every `FairSpec` requires that a loop that can take a step takes one: the loops
wait only for `sleep`, perf and cpupower, which end by themselves. (PIP gives
its subprocesses no timeout, line 212; should one hang, nothing is promised.)
Thunderbolt also needs time to pass (`WaitEnds`), `FairLoopSpec` that a writer
that has truncated the budget file writes it, `Oversubscription` that
commands, background sleeps and `tee`s end, not that they succeed. Otherwise nothing is assumed of
the budget writers; liveness is conditional on decisions being reached for
ever and on the power they see, or on the file being left alone. In
`CrossNode` the monitor, the sender with its restart loop, and the server are
fair; the guards of `Reply` and `Recv` say when the blocking calls return.
Faults are not fair, nor is a kernel giving up on a cut connection: nothing
makes it retransmit while both ends only wait.

## What is proved

All for every value of the constants under the named assumption of each module
(evaluated in each run). For PIP and Thunderbolt this means every set of
budgets and powers, every `Full`, `Unit` and `Cores` (`Full` must not be one of
29, 57, 58, or an unthrottled cgroup would read back as throttled), and every
answer of the model.

`PIPControllerProofs`
- `TypeCorrect`, whatever fails. The step cases use range lemmas on each
  helper (`BabyThrottleRange`, `RaisedRange`, `DownRange`, `ReadBackRange`).
- `ThreadKeepsPriority` (`OnlyRestartUpsetsPriority`), whatever fails.
- `CriticalStaysInSync`, `UserKnownOrFull`, `StrictSparesCritical`, across all
  sampling faults and restarts; the properties themselves are conditional on
  `~write_errors`. The first two are inductive over `TypeOK`; the third follows from `CriticalInSync`, as new
  limits are computed from the belief. From the second,
  `StrictRaisesOnlyForgotten`: the failure of `pip_restart_raises` is the only
  way in which a decision near the budget raises the user limit.
- `HealthyHolds`: `HealthyInv` is inductive. Priority in the limits needs
  priority in the beliefs, that beliefs equal limits, and that the thread does
  not die, which in turn needs that no incomplete map was ever stored; hence
  its conjuncts. `StrictThrottles`, `RecoveryNeverLowers` and
  `ImplementsPriority` (refinement of `PriorityCapping`) rest on it. In the
  refinement mapping the user limit counts as written between the two writes
  of a failed search.
- `RecoveryMakesProgress`: with the *shortfall* of the two beliefs, the critical
  one weighing `Full` times as much, a decision below 94% reduces it and nothing
  else increases it. `RecoversInTheEnd`: hence `RecoversWhenLow`, with
  `Full <= 128`.

`PriorityCappingProofs`
- `CappingIsByPriority`: in the abstract specification the critical cgroup is
  below full only while the user cgroup is at the floor.

`ThunderboltProofs`
- `TypeCorrect` and `ImplementsPriority`, whatever fails.
- `ExitLeavesOne`, if writes succeed.
- `FilesFollowTheLoop` and `PriorityInForce`, if writes succeed, from the
  inductive invariant `FilesInv`: a file equals the quota of its bandwidth,
  or is being written, or differs by an unapplied change, and the last only at
  the minimum or the maximum, from where the next change is large. Without that
  last clause unapplied changes could add up. `CloseQuotas` bounds the quota
  of an unapplied change for every number of cores.
- `EveryDecisionProgresses`: the sum of the bandwidths falls above 96%, as the
  soft throttle is active there (`ActiveHolds`), and rises otherwise, once the
  wait is over. `OverloadThrottlesInTheEnd` and `LowPowerRecoversInTheEnd`, for
  every `Unit`: the measure counts the thirds of a percent above nothing, or the
  percents short of everything, and one more until the goal is reached, so that
  it is bounded for every `Unit` and each decision still counts.

`PIPClosedLoopProofs`
- `OffsetStaysBounded`, for every linear machine, every load and every bounded
  model error. The invariant adds that `actual_power` and `prev_prediction` are
  themselves bounded; the smoothing then keeps the offset between the bounds of
  their difference, the rounding of the fixed point included.
- `LoopImplementsController`: every step of the loop is a step of
  `PIPController`, so its theorems carry over; `LoopKeepsPriority` draws the
  refinement of `PriorityCapping` from it.
- `OvershootStaysBounded` (for a model that does not underestimate),
  `OneSearchSuffices` and `CriticalGivesShortfall` (for every error of the
  model), for every linear machine and load. They rest on the monotony of the
  power in the utilisation (`WattsMonotone`, `WattsOfStep`), and on what it
  means for a candidate to be accepted, or for all to be rejected, in watts
  (`MeetsIsWatts`, `FailedSearch`).
- `CalibrationConverges`: calibrating against the prediction of a search under
  the same load brings the prediction closer to the truth, and never past it.
- `LightLoadRecoversInTheEnd`: under a light load the budget stays, is read, and
  every decision from then on is below 94%, since limits only take from the
  power of the load; the rest is `RecoversInTheEnd`.

`OversubscriptionProofs`
- `SweepTypeCorrect`, `FluctuationStartsAtBase`, `BenchmarksKeepTheirLevel`,
  `LeftoversEnd`, `ControllersStartUnthrottled`, for every sweep. The invariant
  `SweepInv` says where a writer and its orphan can exist: around the benchmark
  of its own job, and up to the sleep after it. The arithmetic of `Level`, that
  two successive jobs share a level unless a level ends, is a lemma.
- `SweepEndsForAReason`: a sweep that exits has run all its jobs, or was
  interrupted, or a command other than a benchmark failed. `SweepMovesForward`: at most 20 steps of
  the driver for each job. `SweepBudgetsOrdered`: the rounded budgets fall with
  the level.

`BaselinesProofs`
- `BaselinesTypeCorrect`. `MSThreadKnowsLimit` and `NQThreadKnowsLimit`: a
  thread knows the limit in force unless it believes the cgroup unthrottled.
  From the latter, by the monotony of `quota`, `NQStrictThrottles`.
- `OracleAppliesTable`: for every table, complete or not, from an invariant
  that ties the level selected to the quota about to be flushed.
- `EnergyCountedOnce`: once a counter has been read, the energy used since its
  last reading is at least the advance of the counter, and `Wrap` more if the
  counter is below that reading.
- `RaplFilesFollow`: while the files are written one by one, those before the
  current one hold the new limit or are stale.
- `NQEveryDecisionProgresses`, and all five liveness properties of the run:
  `MSThrottlesInTheEnd`, `MSRecoversInTheEnd`, `NQThrottlesInTheEnd` (if writes
  succeed), `OracleSettlesInTheEnd`, `RaplSettlesInTheEnd`.

`CrossNodeProofs`
- `ExchangeTypeCorrect`, `AnswersArePaired`, `MapsAreFresh`, `NoMutualWait`, for
  any number of faults and any sizes. The properties are not inductive; their
  strengthening `Conversation` is. `OneSender`: every connection but the
  present sender's is abandoned, and the sender's is the last in the backlog or
  the one served. `OneLine`: the server never holds more than one line.
  `OnePlace`: a sample that was sent is not yet received, received, or
  answered, and in one of these places only.
- `ExchangeImplemented`: from `Conversation`, every step is one of `Estimates`.

### Liveness

The prover has neither fairness nor `ENABLED`. The theorems on liveness
therefore take as a hypothesis what fairness amounts to: that the loop does not
stay for ever at a named place, such as `[]<>(pc # "control")`. That each
`FairSpec` implies these hypotheses was checked with TLC on the instances of the
runs; it is not proved. Safety alone then makes the property true, for every
value of the constants.

Where the argument needs a measure that decreases, it needs induction, which the
provers do not have either. `Settling` goes around it for numbers below 2^14:
once the number no longer grows, its highest bit can fall once and not rise, so
it settles; then the same holds of the next bit; and when all 14 have settled, so
has the number (`Settles`, one stage of propositional temporal logic for each
bit). A measure that has settled, and that every decision would reduce, is at
its goal. The bound is why `RecoversInTheEnd` asks for `Full <= 128`; the code's
is 100.

### Only model-checked

- `OverloadEnds` and `CriticalStaysFull`. While the model underestimates, a
  failed search with the user cgroup at the floor may accept the critical
  throttle already in force, so no single decision makes progress: what does is
  the calibration. `OneSearchSuffices` and `CalibrationConverges` are the two
  halves of the argument; the measure that would join them grows with the model
  error and the resolution of the offset, beyond any fixed number of bits.
- `EstimatesResume`, whose progress is through the backlog, the pipe and the
  restart loop, with actions rather than states as its goal.
- That the fairness of the runs implies the hypotheses above.

## Not modelled

- **Feature maps** (`update_feature_map_generic`, `update_adjustment`, the
  merge in `predxnd`): floating-point scaling of single features. The control
  depends on them through the prediction only, which is open in
  `PIPController`, and through the exceptions they raise, which are modelled.
- **Estimation and attribution**: observers that sample, compute and log. They
  write nothing that a controller reads; what they compute is numerical.
- **The other drivers and the setup scripts**: straight-line commands. What
  matters of the setup is the `Setup` step of `Oversubscription`.
- **Cross-node variants** (`send.py`, `rec.py`, `merge_pred.py` and others):
  earlier or reduced forms of the exchange in `CrossNode`.
- **Training, plots, reports**: offline, sequential, statistical or formatting.
- **Bundled benchmark suites** (Redis, Filebench, DeathStarBench and others):
  third-party workloads. They are by far most of the lines under `src/`, none
  of them PIP's own, so the modelled share of all the lines in the repository
  is close to nothing. Of the two main controllers about 70% of the lines are
  mapped, of the oversubscription driver more than 90%, of the smaller
  baselines and the cross-node scripts between a quarter and 70%; the rest is
  imports, parsing, feature arithmetic and functions that are never called.
- Of `predxnd/run-bench-throttle.sh` only the loop that restarts the sender is
  modelled; the benchmarks it starts around it are straight-line.

---------------------------- MODULE Thunderbolt ----------------------------
(***************************************************************************)
(* The Thunderbolt baseline, control/powercap_CPU_google-ALL-v1.2.py: the  *)
(* RUMD loop of run_power_capping_loop, its writes to cpu.max, and the two *)
(* ways it exits.                                                          *)
(*                                                                         *)
(* Bandwidths are kept in units of 1/Unit percent, rounded down; the       *)
(* cpu.max files hold quotas in microseconds, as the code writes them.     *)
(***************************************************************************)
EXTENDS Integers

CONSTANTS
    Budgets,      \* the budgets (W) the budget file is given
    Powers,       \* the package powers (W) perf can report
    Unit,         \* the units that make up one percent of bandwidth
    Cores,        \* the number of cores of each cgroup
    WriteErrors   \* TRUE iff writing cpu.max may raise (it is swallowed)

ASSUME ConstantsAssumption ==
    /\ Budgets \subseteq Nat /\ Powers \subseteq Nat
    /\ Unit \in Nat \ {0} /\ Cores \in Nat \ {0}
    /\ WriteErrors \in BOOLEAN

THROTTLE_MIN == Unit
THROTTLE_MAX == 100 * Unit
UNTHROTTLE_STEP == 5 * Unit
NoBudget == -1    \* the budget file while a writer has truncated it
NoReading == -2   \* no power has been measured yet

VARIABLES
    budget,                      \* the budget file
    cpu_max,                     \* the quota in each cgroup's cpu.max file
    current_bandwidth_user,
    current_bandwidth_critical,
    target_power,
    actual_power,
    throttling_active_state,
    next_unthrottle_time,        \* "zero" at first, then "ahead" or "passed"
    changed,                     \* the cgroup whose limit is to be applied
    pc                           \* where the loop is

bandwidths == <<current_bandwidth_user, current_bandwidth_critical>>
vars == <<budget, cpu_max, bandwidths, target_power, actual_power,
          throttling_active_state, next_unthrottle_time, changed, pc>>

MinOf(a, b) == IF a < b THEN a ELSE b
MaxOf(a, b) == IF a > b THEN a ELSE b

AboveLow == 100 * actual_power > 96 * target_power
AboveHigh == 100 * actual_power > 98 * target_power

\* The quota set_cpu_max computes for a bandwidth.
quota_us(b) ==
    MinOf(MaxOf(1000, (1000 * Cores * b) \div Unit), 100000 * Cores)

\* The cpu.max files once set_cpu_max(g, b) has returned.
set_cpu_max(files, g, b) ==
    {[files EXCEPT ![g] = quota_us(b)]}
    \cup (IF WriteErrors THEN {files} ELSE {})

\* ... and once both limits have been set to the maximum.
Unthrottled ==
    UNION {set_cpu_max(files, "critical", THROTTLE_MAX) :
               files \in set_cpu_max(cpu_max, "user", THROTTLE_MAX)}

\* Mutant: changes below a whole percent are not applied.
DiffersCoarsely(a, b) == a - b > Unit \/ b - a > Unit

\* abs(a - b) > 0.01
Differs(a, b) == 100 * (a - b) > Unit \/ 100 * (b - a) > Unit

\* The files are whatever the controller that ran before has left.
Init ==
    /\ budget \in Budgets
    /\ cpu_max \in [{"user", "critical"} ->
                       {quota_us(THROTTLE_MIN), quota_us(THROTTLE_MAX)}]
    /\ current_bandwidth_user = THROTTLE_MAX
    /\ current_bandwidth_critical = THROTTLE_MAX
    /\ target_power = 100
    /\ actual_power = NoReading
    /\ throttling_active_state = FALSE
    /\ next_unthrottle_time = "zero"
    /\ changed = "none"
    /\ pc = "start"

-----------------------------------------------------------------------------
(* The budget writers truncate the file, then write it; time passes.       *)

WriteBudget(b) ==
    /\ budget' = IF budget = NoBudget THEN b ELSE NoBudget
    /\ UNCHANGED <<cpu_max, bandwidths, target_power, actual_power,
                   throttling_active_state, next_unthrottle_time, changed, pc>>

WaitEnds ==
    /\ next_unthrottle_time = "ahead"
    /\ next_unthrottle_time' = "passed"
    /\ UNCHANGED <<budget, cpu_max, bandwidths, target_power, actual_power,
                   throttling_active_state, changed, pc>>

-----------------------------------------------------------------------------
(* One iteration of the loop.                                              *)

Start ==
    /\ pc = "start"
    /\ cpu_max' \in Unthrottled
    /\ pc' = "budget"
    /\ UNCHANGED <<budget, bandwidths, target_power, actual_power,
                   throttling_active_state, next_unthrottle_time, changed>>

\* An unreadable budget leaves the previous target in force.
ReadBudget ==
    /\ pc = "budget"
    /\ target_power' = IF budget = NoBudget THEN target_power ELSE budget
    /\ pc' = "measure"
    /\ UNCHANGED <<budget, cpu_max, bandwidths, actual_power,
                   throttling_active_state, next_unthrottle_time, changed>>

MeasureFails ==
    /\ pc = "measure"
    /\ pc' = "budget"
    /\ UNCHANGED <<budget, cpu_max, bandwidths, target_power, actual_power,
                   throttling_active_state, next_unthrottle_time, changed>>

\* Mutant: the soft throttle is never activated.
MeasureInactive(p) ==
    /\ pc = "measure"
    /\ actual_power' = p
    /\ pc' = "decide"
    /\ UNCHANGED <<budget, cpu_max, bandwidths, target_power,
                   throttling_active_state, next_unthrottle_time, changed>>

Measure(p) ==
    /\ pc = "measure"
    /\ actual_power' = p
    /\ throttling_active_state' =
           IF 100 * p > 96 * target_power THEN TRUE
           ELSE throttling_active_state /\ 100 * p > 90 * target_power
    /\ pc' = "decide"
    /\ UNCHANGED <<budget, cpu_max, bandwidths, target_power,
                   next_unthrottle_time, changed>>

\* The multiplicative decrease of a bandwidth.
Decreased(b) ==
    MaxOf(THROTTLE_MIN, IF AboveHigh THEN b \div 100
                        ELSE IF throttling_active_state THEN (3 * b) \div 4
                        ELSE b)

Increased(b) == MinOf(THROTTLE_MAX, b + UNTHROTTLE_STEP)

\* What both branches of the decision end with: the new bandwidth is applied
\* if it differs, then the iteration is logged.
Decided(g, old, new) ==
    /\ changed' = IF Differs(new, old) THEN g ELSE "none"
    /\ pc' = IF Differs(new, old) THEN "apply" ELSE "log"
    /\ UNCHANGED <<budget, cpu_max, target_power, actual_power,
                   throttling_active_state>>

ThrottleUser ==
    /\ pc = "decide" /\ AboveLow
    /\ current_bandwidth_user > THROTTLE_MIN
    /\ current_bandwidth_user' = Decreased(current_bandwidth_user)
    /\ Decided("user", current_bandwidth_user, current_bandwidth_user')
    /\ UNCHANGED <<current_bandwidth_critical, next_unthrottle_time>>

\* Mutant: the critical cgroup does not wait for the user one.
ThrottleCriticalEarly ==
    /\ pc = "decide" /\ AboveLow
    /\ current_bandwidth_critical > THROTTLE_MIN
    /\ current_bandwidth_critical' = Decreased(current_bandwidth_critical)
    /\ Decided("critical", current_bandwidth_critical, current_bandwidth_critical')
    /\ UNCHANGED <<current_bandwidth_user, next_unthrottle_time>>

ThrottleCritical ==
    /\ pc = "decide" /\ AboveLow
    /\ current_bandwidth_user <= THROTTLE_MIN
    /\ current_bandwidth_critical > THROTTLE_MIN
    /\ current_bandwidth_critical' = Decreased(current_bandwidth_critical)
    /\ Decided("critical", current_bandwidth_critical, current_bandwidth_critical')
    /\ UNCHANGED <<current_bandwidth_user, next_unthrottle_time>>

\* Mutants: the critical cgroup keeps recovering once it is at the maximum;
\* the user cgroup does not wait for the critical one.
RecoverCriticalForever ==
    /\ pc = "decide" /\ ~AboveLow
    /\ next_unthrottle_time # "ahead"
    /\ current_bandwidth_critical' = Increased(current_bandwidth_critical)
    /\ next_unthrottle_time' = "ahead"
    /\ Decided("critical", current_bandwidth_critical, current_bandwidth_critical')
    /\ UNCHANGED current_bandwidth_user

RecoverUserEarly ==
    /\ pc = "decide" /\ ~AboveLow
    /\ next_unthrottle_time # "ahead"
    /\ current_bandwidth_user < THROTTLE_MAX
    /\ current_bandwidth_user' = Increased(current_bandwidth_user)
    /\ next_unthrottle_time' = "ahead"
    /\ Decided("user", current_bandwidth_user, current_bandwidth_user')
    /\ UNCHANGED current_bandwidth_critical

RecoverCritical ==
    /\ pc = "decide" /\ ~AboveLow
    /\ next_unthrottle_time # "ahead"
    /\ current_bandwidth_critical < THROTTLE_MAX
    /\ current_bandwidth_critical' = Increased(current_bandwidth_critical)
    /\ next_unthrottle_time' = "ahead"
    /\ Decided("critical", current_bandwidth_critical, current_bandwidth_critical')
    /\ UNCHANGED current_bandwidth_user

RecoverUser ==
    /\ pc = "decide" /\ ~AboveLow
    /\ next_unthrottle_time # "ahead"
    /\ current_bandwidth_critical >= THROTTLE_MAX
    /\ current_bandwidth_user < THROTTLE_MAX
    /\ current_bandwidth_user' = Increased(current_bandwidth_user)
    /\ next_unthrottle_time' = "ahead"
    /\ Decided("user", current_bandwidth_user, current_bandwidth_user')
    /\ UNCHANGED current_bandwidth_critical

\* Both at the minimum, both at the maximum, or still waiting.
DecideNothing ==
    /\ pc = "decide"
    /\ \/ /\ AboveLow
          /\ current_bandwidth_user <= THROTTLE_MIN
          /\ current_bandwidth_critical <= THROTTLE_MIN
       \/ /\ ~AboveLow
          /\ \/ next_unthrottle_time = "ahead"
             \/ /\ current_bandwidth_critical >= THROTTLE_MAX
                /\ current_bandwidth_user >= THROTTLE_MAX
    /\ pc' = "log"
    /\ UNCHANGED <<budget, cpu_max, bandwidths, target_power, actual_power,
                   throttling_active_state, next_unthrottle_time, changed>>

Bandwidth(g) == IF g = "user" THEN current_bandwidth_user
                ELSE current_bandwidth_critical

\* f.write only fills the file object's buffer; leaving the with block
\* flushes it to the kernel.
WriteBuffer ==
    /\ pc = "apply"
    /\ pc' = "flush"
    /\ UNCHANGED <<budget, cpu_max, bandwidths, target_power, actual_power,
                   throttling_active_state, next_unthrottle_time, changed>>

Flush ==
    /\ pc = "flush"
    /\ cpu_max' \in set_cpu_max(cpu_max, changed, Bandwidth(changed))
    /\ changed' = "none"
    /\ pc' = "log"
    /\ UNCHANGED <<budget, bandwidths, target_power, actual_power,
                   throttling_active_state, next_unthrottle_time>>

Log ==
    /\ pc = "log"
    /\ pc' = "budget"
    /\ UNCHANGED <<budget, cpu_max, bandwidths, target_power, actual_power,
                   throttling_active_state, next_unthrottle_time, changed>>

-----------------------------------------------------------------------------
(* The two exits.                                                          *)

\* Mutant: the exception handler exits without restoring the limits.
LogRaisesKeeps ==
    /\ pc = "log"
    /\ pc' = "exited"
    /\ UNCHANGED <<budget, cpu_max, bandwidths, target_power, actual_power,
                   throttling_active_state, next_unthrottle_time, changed>>

\* print raises once the reader of the log is gone: main restores the limits.
LogRaises ==
    /\ pc = "log"
    /\ cpu_max' \in Unthrottled
    /\ pc' = "exited"
    /\ UNCHANGED <<budget, bandwidths, target_power, actual_power,
                   throttling_active_state, next_unthrottle_time, changed>>

\* signal_handler restores the limits and raises SystemExit, which unwinds
\* the loop; the file object of a write in progress is closed, hence flushed,
\* on the way out.
signal_handler ==
    /\ pc # "exited"
    /\ \E files \in Unthrottled :
           cpu_max' \in IF pc = "flush"
                        THEN set_cpu_max(files, changed, Bandwidth(changed))
                        ELSE {files}
    /\ pc' = "exited"
    /\ UNCHANGED <<budget, bandwidths, target_power, actual_power,
                   throttling_active_state, next_unthrottle_time, changed>>

Decide ==
    \/ ThrottleUser \/ ThrottleCritical
    \/ RecoverCritical \/ RecoverUser
    \/ DecideNothing

Loop ==
    \/ Start \/ ReadBudget \/ MeasureFails
    \/ \E p \in Powers : Measure(p)
    \/ Decide
    \/ WriteBuffer \/ Flush \/ Log

Next ==
    \/ \E b \in Budgets : WriteBudget(b)
    \/ WaitEnds
    \/ Loop
    \/ LogRaises
    \/ signal_handler

Spec == Init /\ [][Next]_vars

\* The loop never blocks for good (perf has a timeout, sleep ends), and time
\* passes.
FairSpec == Spec /\ WF_vars(Loop) /\ WF_vars(WaitEnds)

-----------------------------------------------------------------------------
(* Properties                                                              *)

Level == THROTTLE_MIN..THROTTLE_MAX
Quotas == 1000..(100000 * Cores)

\* Bandwidths stay between 1% and 100%, and what is written to cpu.max is a
\* quota the kernel accepts: at least 1 ms and at most all the cores.
TypeOK ==
    /\ budget \in Budgets \cup {NoBudget}
    /\ cpu_max \in [{"user", "critical"} -> Quotas]
    /\ current_bandwidth_user \in Level
    /\ current_bandwidth_critical \in Level
    /\ target_power \in Budgets \cup {100}
    /\ actual_power \in Powers \cup {NoReading}
    /\ throttling_active_state \in BOOLEAN
    /\ next_unthrottle_time \in {"zero", "ahead", "passed"}
    /\ changed \in {"none", "user", "critical"}
    /\ pc \in {"start", "budget", "measure", "decide", "apply", "flush", "log",
               "exited"}
    /\ pc \in {"apply", "flush"} => changed # "none"

\* The bandwidths the loop decides on implement the priority specification
\* PIP is shown to implement: user first down, critical first up.
Capping == INSTANCE PriorityCapping WITH
    Floor <- THROTTLE_MIN, Full <- THROTTLE_MAX,
    user <- current_bandwidth_user, critical <- current_bandwidth_critical

CappingSpec == Capping!Spec

\* The quota a change too small to be applied is worth.
Slack == 10 * Cores + 1

\* Between iterations each cpu.max file holds the limit the loop decided on,
\* up to one change of 0.01% that is not worth applying: such changes do not
\* accumulate.
LimitsFollow ==
    pc \in {"budget", "measure", "decide"} =>
        \A g \in {"user", "critical"} :
            /\ cpu_max[g] - quota_us(Bandwidth(g)) <= Slack
            /\ quota_us(Bandwidth(g)) - cpu_max[g] <= Slack

\* What makes CriticalLastInForce inductive.  A file lags behind its bandwidth
\* only while the write is under way or when the last change stopped short at
\* the minimum or the maximum; and a write under way never upsets the order
\* of the two cgroups.
Writing(g) == pc \in {"apply", "flush"} /\ changed = g

SettledAt(file, b) ==
    \/ file = quota_us(b)
    \/ /\ b \in {THROTTLE_MIN, THROTTLE_MAX}
       /\ file - quota_us(b) <= Slack
       /\ quota_us(b) - file <= Slack

Settled(g) == SettledAt(cpu_max[g], Bandwidth(g))

FilesInv ==
    /\ pc = "start" => /\ current_bandwidth_user = THROTTLE_MAX
                       /\ current_bandwidth_critical = THROTTLE_MAX
    /\ pc \notin {"start", "exited"} =>
           /\ \A g \in {"user", "critical"} : Writing(g) \/ Settled(g)
           /\ Writing("user") => current_bandwidth_critical = THROTTLE_MAX
           /\ Writing("critical") => current_bandwidth_user = THROTTLE_MIN
           /\ current_bandwidth_critical < THROTTLE_MAX
                  => current_bandwidth_user = THROTTLE_MIN

\* In the files, too, the critical cgroup is throttled only while the user
\* cgroup is at the floor (up to the changes not worth applying).
CriticalLastInForce ==
    pc \notin {"start", "exited"} /\ cpu_max["critical"] + Slack < 100000 * Cores
        => cpu_max["user"] <= quota_us(THROTTLE_MIN) + Slack

\* An exit leaves both cgroups unthrottled.
RestoredOnExit ==
    pc = "exited" => \A g \in {"user", "critical"} :
                         cpu_max[g] = quota_us(THROTTLE_MAX)

\* ... or, if a write was in progress, at most the cgroup being written.
OneLeftOnExit ==
    pc = "exited" => \A g \in {"user", "critical"} \ {changed} :
                         cpu_max[g] = quota_us(THROTTLE_MAX)

Decides == []<>(pc = "decide")
AboveWhenDeciding == pc = "decide" => 100 * actual_power > 96 * target_power
BelowWhenDeciding == pc = "decide" => 100 * actual_power <= 96 * target_power

\* If every decision from some point on is taken above 96% of the budget,
\* both cgroups are throttled to the minimum.
OverloadReachesMinimum ==
    Decides /\ <>[]AboveWhenDeciding
        => <>[](/\ current_bandwidth_user = THROTTLE_MIN
                /\ current_bandwidth_critical = THROTTLE_MIN)

\* If every decision from some point on is taken at 96% of the budget or
\* below, both cgroups get their full bandwidth back, the user one last.
RecoversWhenLow ==
    Decides /\ <>[]BelowWhenDeciding
        => <>[](/\ current_bandwidth_user = THROTTLE_MAX
                /\ current_bandwidth_critical = THROTTLE_MAX)
=============================================================================

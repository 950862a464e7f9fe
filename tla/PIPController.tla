--------------------------- MODULE PIPController ---------------------------
(***************************************************************************)
(* The PIP controller, control/powercap_CPU_powertrace-final.py: the       *)
(* thread running run_stress_test, the main loop that restarts it, and the *)
(* cpu.max files it writes.                                                *)
(*                                                                         *)
(* Watts and throttle percentages are integers.  What the ML model answers *)
(* is left open here: a search over candidate throttles may accept any of  *)
(* them or none, so every property holds for every model and calibration.  *)
(***************************************************************************)
EXTENDS Integers

CONSTANTS
    Budgets,      \* the budgets (W) the budget file is given
    Full,         \* an unthrottled cgroup's percentage: 100 in the code
    Powers,       \* the package powers (W) perf can report
    Samples,      \* the outcomes of a full-mode sample, see SampleKinds
    WriteErrors   \* the values of write_errors

SampleKinds == {"ok", "noPower", "noPerf", "noCpu"}
Floor == 1
TOLERANCE == 5
NoBudget == -1    \* the budget file while a writer has truncated it
NoReading == -2   \* actual_power after parse_power_consumption has failed

ASSUME ConstantsAssumption ==
    /\ Budgets \subseteq Nat /\ Powers \subseteq Nat
    /\ Full \in Nat /\ Full > Floor /\ Full \notin {29, 57, 58}
    /\ Samples \subseteq SampleKinds
    /\ WriteErrors \subseteq BOOLEAN

VARIABLES
    budget,                  \* the budget file
    cpu_max,                 \* the limit (%) in each cgroup's cpu.max file
    current_bandwidth,       \* what the controller takes the user limit to be
    current_bandwidth2,      \* ... and the critical limit
    target_power,            \* the budget this iteration works with
    actual_power,            \* the power measured last
    full_mode,               \* FALSE: energy-only sampling
    used_map,                \* calibrate on the next sample
    predictive_feature_map,  \* "empty", "good" or "short" (lacks its metrics)
    metrics_data,            \* the sample this iteration works with
    pc,                      \* where the controller thread is
    write_errors             \* TRUE iff writing cpu.max, or reading it back, may
                             \* raise (set_cpu_limit, read_cpu_max swallow it)

throttles == <<cpu_max, current_bandwidth, current_bandwidth2>>
vars == <<budget, throttles, target_power, actual_power, full_mode, used_map,
          predictive_feature_map, metrics_data, pc, write_errors>>

MinOf(a, b) == IF a < b THEN a ELSE b
MaxOf(a, b) == IF a > b THEN a ELSE b

\* actual_power >= target_power * (1 - ceiling), ceiling = 0.03
NearBudget(p) == 100 * p >= 97 * target_power

\* actual_power < target_power * (1 - ceiling * 2)
BelowBudget(p) == 100 * p < 94 * target_power

\* Mutants: the searches without the bound at the present throttle.
DownFromFull(from) == {t \in Floor..Full : (from - t) % 5 = 0}
UpFromFloor(from) == {t \in Floor..Full : (Full - t) % 5 = 0}

\* range(from, 0, -5) and range(100, from, -5)
Down(from) == {t \in Floor..from : (from - t) % 5 = 0}
Up(from) == {t \in (from + 1)..Full : (Full - t) % 5 = 0}

\* int((quota / (100000 * n)) * 100) for the quota 1000 * n * t: t, except for
\* the three percentages whose floating-point product falls short of t.
read_cpu_max(t) == IF t \in {29, 57, 58} THEN t - 1 ELSE t

\* The cpu.max files after set_cpu_limit(g, t): written, or left as they were.
set_cpu_limit(g, t) ==
    {[cpu_max EXCEPT ![g] = t]} \cup (IF write_errors THEN {cpu_max} ELSE {})

Init ==
    /\ budget \in Budgets
    /\ cpu_max = [user |-> Full, critical |-> Full]
    /\ current_bandwidth = Full
    /\ current_bandwidth2 = Full
    /\ target_power = NoBudget
    /\ actual_power = NoReading
    /\ full_mode = FALSE
    /\ used_map = FALSE
    /\ predictive_feature_map = "empty"
    /\ metrics_data = "ok"
    /\ pc = "budget"
    /\ write_errors \in WriteErrors

-----------------------------------------------------------------------------
(* The budget writers: tee and > truncate the file, then write it.         *)

TruncateBudget ==
    /\ budget # NoBudget
    /\ budget' = NoBudget
    /\ UNCHANGED <<throttles, target_power, actual_power, full_mode, used_map,
                   predictive_feature_map, metrics_data, pc>>

WriteBudget(b) ==
    /\ budget = NoBudget
    /\ budget' = b
    /\ UNCHANGED <<throttles, target_power, actual_power, full_mode, used_map,
                   predictive_feature_map, metrics_data, pc>>

-----------------------------------------------------------------------------
(* Reading the budget and sampling.                                        *)

\* While the file is truncated int() raises and the loop retries.
ReadBudget ==
    /\ pc = "budget"
    /\ budget # NoBudget
    /\ target_power' = budget
    /\ pc' = IF full_mode THEN "sample" ELSE "energy"
    /\ UNCHANGED <<budget, throttles, actual_power, full_mode, used_map,
                   predictive_feature_map, metrics_data>>

\* Energy-only mode: measure, and flip to full mode near the budget.
EnergySample(p) ==
    /\ pc = "energy"
    /\ actual_power' = p
    /\ full_mode' = (p # NoReading /\ NearBudget(p))
    /\ pc' = "budget"
    /\ UNCHANGED <<budget, throttles, target_power, used_map,
                   predictive_feature_map, metrics_data>>

\* Full mode, parse_power_consumption failed: formatting its error tuple
\* raises inside the try, and the iteration is skipped.
SampleNoPower ==
    /\ pc = "sample"
    /\ "noPower" \in Samples
    /\ actual_power' = NoReading
    /\ pc' = "budget"
    /\ UNCHANGED <<budget, throttles, target_power, full_mode, used_map,
                   predictive_feature_map, metrics_data>>

\* Full mode with a power reading p.  Kind "noPerf": parse_perf_metrics
\* returned its error tuple, which is appended to the map; "noCpu": cpupower
\* printed no rows and the map is empty.  Neither is noticed.
Sample(kind, p) ==
    /\ pc = "sample"
    /\ kind \in Samples \ {"noPower"}
    /\ actual_power' = p
    /\ metrics_data' = kind
    /\ predictive_feature_map' =
           IF predictive_feature_map # "empty" THEN predictive_feature_map
           ELSE CASE kind = "ok" -> "good"
                  [] kind = "noPerf" -> "short"
                  [] OTHER -> "empty"
    /\ pc' = "control"
    /\ UNCHANGED <<budget, throttles, target_power, full_mode, used_map>>

-----------------------------------------------------------------------------
(* update_adjustment walks the metrics of the sample and indexes the last  *)
(* predictive map; a short predictive map raises out of the thread, before *)
(* used_map is reset.                                                      *)

AdjustmentRaises ==
    used_map /\ metrics_data = "ok" /\ predictive_feature_map = "short"

AdjustmentDies ==
    /\ pc = "control"
    /\ AdjustmentRaises
    /\ pc' = "dead"
    /\ UNCHANGED <<budget, throttles, target_power, actual_power, full_mode,
                   used_map, predictive_feature_map, metrics_data>>

\* The control decision is reached.
Control == pc = "control" /\ ~AdjustmentRaises

Strict == Control /\ NearBudget(actual_power)
BabyStep == Strict /\ actual_power - target_power < TOLERANCE
Search == Strict /\ actual_power - target_power >= TOLERANCE
Increase == Control /\ BelowBudget(actual_power)
Gap == target_power - actual_power

Iterated == pc' = "budget" /\ UNCHANGED <<budget, target_power, actual_power,
                                          full_mode, metrics_data>>

\* Mutant: max(..., 1) is missing.
BabyThrottleNoFloor(t) == t - (IF actual_power < target_power THEN 5 ELSE 10)

\* Lower a throttle without a prediction: by 5 below the budget, else by 10.
BabyThrottle(t) ==
    MaxOf(t - (IF actual_power < target_power THEN 5 ELSE 10), Floor)

StrictBabyUser ==
    /\ BabyStep
    /\ current_bandwidth > Floor
    /\ current_bandwidth' = BabyThrottle(current_bandwidth)
    /\ cpu_max' \in set_cpu_limit("user", current_bandwidth')
    /\ used_map' = TRUE
    /\ UNCHANGED <<current_bandwidth2, predictive_feature_map>>
    /\ Iterated

\* Mutant: the critical cgroup is throttled whatever the user one has.
StrictBabyCriticalEarly ==
    /\ BabyStep
    /\ current_bandwidth2 > Floor
    /\ current_bandwidth2' = BabyThrottle(current_bandwidth2)
    /\ cpu_max' \in set_cpu_limit("critical", current_bandwidth2')
    /\ used_map' = TRUE
    /\ UNCHANGED <<current_bandwidth, predictive_feature_map>>
    /\ Iterated

StrictBabyCritical ==
    /\ BabyStep
    /\ current_bandwidth <= Floor
    /\ current_bandwidth2 > Floor
    /\ current_bandwidth2' = BabyThrottle(current_bandwidth2)
    /\ cpu_max' \in set_cpu_limit("critical", current_bandwidth2')
    /\ used_map' = TRUE
    /\ UNCHANGED <<current_bandwidth, predictive_feature_map>>
    /\ Iterated

StrictBabyNothing ==
    /\ BabyStep
    /\ current_bandwidth <= Floor
    /\ current_bandwidth2 <= Floor
    /\ used_map' = TRUE
    /\ UNCHANGED <<throttles, predictive_feature_map>>
    /\ Iterated

\* strict_power_capping accepts the user throttle t.
StrictUser(t) ==
    /\ Search
    /\ metrics_data = "ok"
    /\ current_bandwidth > 5
    /\ t \in Down(current_bandwidth - 5)
    /\ cpu_max' \in set_cpu_limit("user", t)
    /\ current_bandwidth' = t
    /\ predictive_feature_map' = "good"
    /\ used_map' = TRUE
    /\ UNCHANGED current_bandwidth2
    /\ Iterated

\* No user throttle is accepted: critical_power_capping writes the critical
\* limit, t being the accepted throttle or the default 1, and keeps what it
\* reads back.  The user limit is written next, by UserToFloor.
critical_power_capping(t) ==
    /\ Search
    /\ metrics_data = "ok"
    /\ t \in Down(current_bandwidth2) \cup {Floor}
    /\ \/ /\ cpu_max' = [cpu_max EXCEPT !["critical"] = t]
          /\ current_bandwidth2' = read_cpu_max(t)
       \/ /\ write_errors
          /\ cpu_max' \in set_cpu_limit("critical", t)
          /\ UNCHANGED current_bandwidth2
    /\ predictive_feature_map' = "good"
    /\ used_map' = FALSE
    /\ pc' = "user_write"
    /\ UNCHANGED <<budget, current_bandwidth, target_power, actual_power,
                   full_mode, metrics_data>>

\* Mutant: the user limit is not written after a failed search.
UserToFloorForgets ==
    /\ pc = "user_write"
    /\ current_bandwidth' = Floor
    /\ used_map' = TRUE
    /\ UNCHANGED <<cpu_max, current_bandwidth2, predictive_feature_map>>
    /\ Iterated

UserToFloor ==
    /\ pc = "user_write"
    /\ cpu_max' \in set_cpu_limit("user", Floor)
    /\ current_bandwidth' = Floor
    /\ used_map' = TRUE
    /\ UNCHANGED <<current_bandwidth2, predictive_feature_map>>
    /\ Iterated

\* The model rejects a map without its metrics: the thread dies before any
\* limit is written.
StrictDies ==
    /\ Search
    /\ metrics_data # "ok"
    /\ used_map' = FALSE
    /\ pc' = "dead"
    /\ UNCHANGED <<budget, throttles, target_power, actual_power, full_mode,
                   predictive_feature_map, metrics_data>>

-----------------------------------------------------------------------------
(* increase_bandwidth                                                      *)

\* Mutants: no +5 when recover_bandwidth finds nothing; the cap is off by one.
RaisedNoFallback(t, found) ==
    MinOf(Full, IF Gap < 10 THEN t + 1 ELSE found)

RaisedShort(t, found) ==
    MinOf(Full - 1, IF Gap < 10 THEN t + 1
                    ELSE IF found = t \/ t < 10 THEN t + 5
                    ELSE found)

\* The throttle chosen from the current one t: +1 for a small gap, else the
\* one recover_bandwidth found (t if none), with +5 as the fallback.
Raised(t, found) ==
    MinOf(Full, IF Gap < 10 THEN t + 1
                ELSE IF found = t \/ t < 10 THEN t + 5
                ELSE found)

\* The critical cgroup is not back yet: hold the user one at the floor.
IncreaseCritical(found) ==
    /\ Increase
    /\ metrics_data = "ok"
    /\ current_bandwidth2 < Full
    /\ found \in Up(current_bandwidth2) \cup {current_bandwidth2}
    /\ current_bandwidth' = Floor
    /\ current_bandwidth2' = Raised(current_bandwidth2, found)
    /\ \E held \in set_cpu_limit("user", Floor) :
           cpu_max' \in {[held EXCEPT !["critical"] = current_bandwidth2']}
                        \cup (IF write_errors THEN {held} ELSE {})
    /\ used_map' = TRUE
    /\ UNCHANGED predictive_feature_map
    /\ Iterated

\* Mutants: the new user limit is not remembered; the user cgroup recovers
\* while the critical one is still throttled.
IncreaseUserForgets(found) ==
    /\ Increase
    /\ metrics_data = "ok"
    /\ current_bandwidth2 >= Full
    /\ current_bandwidth < Full
    /\ found \in Up(current_bandwidth) \cup {current_bandwidth}
    /\ cpu_max' \in set_cpu_limit("user", Raised(current_bandwidth, found))
    /\ used_map' = TRUE
    /\ UNCHANGED <<current_bandwidth, current_bandwidth2, predictive_feature_map>>
    /\ Iterated

IncreaseUserEarly(found) ==
    /\ Increase
    /\ metrics_data = "ok"
    /\ current_bandwidth < Full
    /\ found \in Up(current_bandwidth) \cup {current_bandwidth}
    /\ current_bandwidth' = Raised(current_bandwidth, found)
    /\ cpu_max' \in set_cpu_limit("user", current_bandwidth')
    /\ used_map' = TRUE
    /\ UNCHANGED <<current_bandwidth2, predictive_feature_map>>
    /\ Iterated

IncreaseUser(found) ==
    /\ Increase
    /\ metrics_data = "ok"
    /\ current_bandwidth2 >= Full
    /\ current_bandwidth < Full
    /\ found \in Up(current_bandwidth) \cup {current_bandwidth}
    /\ current_bandwidth' = Raised(current_bandwidth, found)
    /\ cpu_max' \in set_cpu_limit("user", current_bandwidth')
    /\ used_map' = TRUE
    /\ UNCHANGED <<current_bandwidth2, predictive_feature_map>>
    /\ Iterated

IncreaseNothing ==
    /\ Increase
    /\ current_bandwidth2 >= Full
    /\ current_bandwidth >= Full
    /\ used_map' = FALSE
    /\ UNCHANGED <<throttles, predictive_feature_map>>
    /\ Iterated

\* A map without its metrics: the thread dies in the first prediction, after
\* the user limit has been written where that comes first.
IncreaseDies ==
    /\ Increase
    /\ metrics_data # "ok"
    /\ \/ /\ current_bandwidth2 < Full
          /\ cpu_max' \in set_cpu_limit("user", Floor)
          /\ current_bandwidth' = Floor
          /\ used_map' = TRUE
       \/ /\ current_bandwidth2 >= Full
          /\ current_bandwidth < Full
          /\ Gap < 10
          /\ \/ /\ cpu_max' = [cpu_max EXCEPT !["user"] = current_bandwidth + 1]
                /\ current_bandwidth' = read_cpu_max(current_bandwidth + 1)
             \/ /\ write_errors
                /\ cpu_max' \in set_cpu_limit("user", current_bandwidth + 1)
                /\ UNCHANGED current_bandwidth
          /\ used_map' = TRUE
       \/ /\ current_bandwidth2 >= Full
          /\ current_bandwidth < Full
          /\ Gap >= 10
          /\ used_map' = FALSE
          /\ UNCHANGED <<cpu_max, current_bandwidth>>
    /\ pc' = "dead"
    /\ UNCHANGED <<budget, current_bandwidth2, target_power, actual_power,
                   full_mode, predictive_feature_map, metrics_data>>

\* Between 94% and 97% of the budget.
DeadBand ==
    /\ Control
    /\ ~NearBudget(actual_power)
    /\ ~BelowBudget(actual_power)
    /\ used_map' = FALSE
    /\ UNCHANGED <<throttles, predictive_feature_map>>
    /\ Iterated

-----------------------------------------------------------------------------
\* Mutant: the new thread takes both cgroups to be unthrottled.
RestartResetsBoth ==
    /\ pc = "dead"
    /\ current_bandwidth' = Full
    /\ current_bandwidth2' = Full
    /\ pc' = "budget"
    /\ UNCHANGED <<budget, cpu_max, target_power, actual_power, full_mode,
                   used_map, predictive_feature_map, metrics_data>>

\* The main loop joins the dead thread and starts another, which takes the
\* user cgroup to be unthrottled and keeps every other global.
Restart ==
    /\ pc = "dead"
    /\ current_bandwidth' = Full
    /\ pc' = "budget"
    /\ UNCHANGED <<budget, cpu_max, current_bandwidth2, target_power,
                   actual_power, full_mode, used_map, predictive_feature_map,
                   metrics_data>>

Environment ==
    /\ TruncateBudget \/ \E b \in Budgets : WriteBudget(b)
    /\ UNCHANGED write_errors

Measure ==
    \/ ReadBudget
    \/ \E p \in Powers \cup {NoReading} : EnergySample(p)
    \/ SampleNoPower
    \/ \E kind \in Samples, p \in Powers : Sample(kind, p)

Decide ==
    \/ AdjustmentDies
    \/ StrictBabyUser \/ StrictBabyCritical \/ StrictBabyNothing
    \/ \E t \in Floor..Full : StrictUser(t)
    \/ \E t \in Floor..Full : critical_power_capping(t)
    \/ UserToFloor
    \/ StrictDies
    \/ \E found \in Floor..Full : IncreaseCritical(found)
    \/ \E found \in Floor..Full : IncreaseUser(found)
    \/ IncreaseNothing
    \/ IncreaseDies
    \/ DeadBand
    \/ Restart

Controller == (Measure \/ Decide) /\ UNCHANGED write_errors

Next == Environment \/ Controller

Spec == Init /\ [][Next]_vars

\* The loop never blocks for good: every perf, cpupower and sleep it waits
\* for ends by itself.
FairSpec == Spec /\ WF_vars(Controller)

-----------------------------------------------------------------------------
(* Properties                                                              *)

Limits == Floor..Full

\* Every variable stays in its range; both limits and both beliefs are
\* percentages from 1 to 100, so no search range is empty and no throttle
\* ratio divides by zero.
TypeOK ==
    /\ budget \in Budgets \cup {NoBudget}
    /\ cpu_max \in [user : Limits, critical : Limits]
    /\ current_bandwidth \in Limits
    /\ current_bandwidth2 \in Limits
    /\ target_power \in Budgets \cup {NoBudget}
    /\ actual_power \in Powers \cup {NoReading}
    /\ full_mode \in BOOLEAN
    /\ used_map \in BOOLEAN
    /\ predictive_feature_map \in {"empty", "good", "short"}
    /\ metrics_data \in SampleKinds
    /\ pc \in {"budget", "energy", "sample", "control", "user_write", "dead"}

\* While cpu.max can be written, what the controller believes of the critical
\* limit is what the kernel enforces, up to the percent that the truncating
\* read-back may drop.
CriticalInSync ==
    ~write_errors =>
        current_bandwidth2 \in {cpu_max.critical, read_cpu_max(cpu_max.critical)}

\* While cpu.max can be written, a live thread knows the user limit in force
\* or takes it to be full: restarts make it forget a throttle, and nothing else
\* ever separates the belief from the file (a dying thread may leave it a
\* truncated percent behind).
UserKnownOrForgotten ==
    ~write_errors /\ pc # "dead" => current_bandwidth \in {cpu_max.user, Full}

\* In the controller's own variables the critical cgroup is throttled only
\* while the user cgroup is at the floor, but for the moment between the two
\* writes of a failed search.
BeliefPriority ==
    pc # "user_write" /\ current_bandwidth2 < Full => current_bandwidth = Floor

\* While perf and cpupower deliver complete maps and cpu.max can be written:
\* the thread does not die, both beliefs are what the kernel enforces, and
\* the critical cgroup is throttled last.
HealthyInv ==
    /\ ~write_errors
    /\ pc # "dead"
    /\ metrics_data = "ok"
    /\ predictive_feature_map # "short"
    /\ cpu_max.user = current_bandwidth
    /\ CriticalInSync
    /\ BeliefPriority

Healthy == WriteErrors = {FALSE} /\ Samples \subseteq {"ok", "noPower"}

Deciding == pc \in {"control", "user_write"}

\* A decision taken at 97% of the budget or above raises neither limit.
StrictNeverRaises ==
    [][Deciding /\ NearBudget(actual_power)
           => /\ cpu_max.user' <= cpu_max.user
              /\ cpu_max.critical' <= cpu_max.critical]_vars

\* ... and, whatever perf returns and however often the thread restarts, as
\* long as cpu.max can be written not the critical limit.
StrictNeverRaisesCritical ==
    [][~write_errors /\ Deciding /\ NearBudget(actual_power)
           => cpu_max.critical' <= cpu_max.critical]_vars

\* A decision taken below 94% of the budget lowers neither limit.
IncreaseNeverLowers ==
    [][pc = "control" /\ BelowBudget(actual_power)
           => /\ cpu_max.user' >= cpu_max.user
              /\ cpu_max.critical' >= cpu_max.critical]_vars

\* Whatever fails, sampling, prediction, writing or reading back, no step of
\* the controller thread upsets the order of its beliefs: only the main loop
\* does, when it replaces a dead thread.
OnlyRestartUpsetsPriority ==
    [][BeliefPriority /\ pc # "dead" => BeliefPriority']_vars

\* The limits implement the abstract priority specification.  A failed search
\* lowers the critical limit first; the user limit it is about to write
\* counts as written.
Capping == INSTANCE PriorityCapping WITH
    user <- IF pc = "user_write" THEN Floor ELSE cpu_max.user,
    critical <- cpu_max.critical

CappingSpec == Capping!Spec

LowDecisions ==
    pc = "control" => metrics_data = "ok" /\ 100 * actual_power < 94 * target_power

\* If every decision from some point on is taken below 94% of the budget, on
\* a complete sample, both cgroups get their full bandwidth back.
RecoversWhenLow ==
    /\ []<>(pc = "control")
    /\ <>[]LowDecisions
    => <>[](cpu_max.user = Full /\ cpu_max.critical = Full)

\* Once perf and cpupower deliver complete samples again, the controller
\* thread stops dying.
ThreadStopsDying ==
    <>[](pc = "control" => metrics_data = "ok") => <>[](pc # "dead")

=============================================================================

-------------------------- MODULE NoQoSController --------------------------
(***************************************************************************)
(* PIP without priorities, control/powercap_CPU_powertrace-final-noQoS.py: *)
(* the thread of run_stress_test on the user cgroup alone, and the main    *)
(* loop that restarts it.                                                  *)
(*                                                                         *)
(* As in PIPController the model may accept any candidate throttle or      *)
(* none.  maps_ok says whether the feature maps an iteration works with    *)
(* carry their metrics: if not, predictions and calibration raise.  What   *)
(* set_cpu_limit reads back is overwritten by its callers.                 *)
(***************************************************************************)
EXTENDS BaselineFiles

CONSTANT WriteErrors   \* TRUE iff writing cpu.max may raise (it is swallowed)

ASSUME WriteErrorsAssumption == WriteErrors \in BOOLEAN

VARIABLES
    full_mode,   \* FALSE: energy-only sampling
    maps_ok

noqos == <<full_mode, maps_ok>>

THROTTLE_MIN == 1
TOLERANCE == 5

NQInit == full_mode = FALSE /\ maps_ok = TRUE

MaxOf(a, b) == IF a > b THEN a ELSE b

\* ceiling = 0.03
NearBudget(p) == 100 * p >= 97 * target_power
BelowBudget(p) == 100 * p < 94 * target_power
Gap == target_power - actual_power

\* The cpu.max file after set_cpu_limit: written, or left as it was.
set_cpu_limit(t) == {quota(t)} \cup (IF WriteErrors THEN {cpu_max} ELSE {})

-----------------------------------------------------------------------------
(* Reading the budget and sampling.                                        *)

NQStart ==
    /\ running = "none"
    /\ running' = "noqos"
    /\ current_bandwidth' = THROTTLE_MAX
    /\ pc' = "budget"
    /\ UNCHANGED <<budget, cpu_max, target_power, actual_power, noqos>>

\* While the file is truncated the loop sleeps and tries again.
NQReadBudget ==
    /\ pc = "budget" /\ budget # NoBudget
    /\ target_power' = budget
    /\ pc' = IF full_mode THEN "sample" ELSE "energy"
    /\ UNCHANGED <<budget, cpu_max, running, actual_power, current_bandwidth, noqos>>

NQEnergySample(p) ==
    /\ pc = "energy"
    /\ actual_power' = p
    /\ full_mode' = NearBudget(p)
    /\ pc' = "budget"
    /\ UNCHANGED <<budget, cpu_max, running, target_power, current_bandwidth, maps_ok>>

\* A sample without a power reading is skipped.
NQSkips ==
    /\ pc \in {"energy", "sample"}
    /\ pc' = "budget"
    /\ UNCHANGED <<budget, cpu_max, running, target_power, actual_power,
                   current_bandwidth, noqos>>

NQSample(p) ==
    /\ pc = "sample"
    /\ actual_power' = p
    /\ maps_ok' \in BOOLEAN
    /\ pc' = "control"
    /\ UNCHANGED <<budget, cpu_max, running, target_power, current_bandwidth, full_mode>>

-----------------------------------------------------------------------------
(* The decision.                                                           *)

\* The limit t is applied and believed.
Applies(t) ==
    /\ cpu_max' \in set_cpu_limit(t)
    /\ current_bandwidth' = t
    /\ pc' = "budget"
    /\ UNCHANGED <<budget, running, target_power, actual_power, noqos>>

Strict == pc = "control" /\ NearBudget(actual_power)
BabyStep == Strict /\ actual_power - target_power < TOLERANCE
Search == Strict /\ actual_power - target_power >= TOLERANCE

\* Mutant: the steps end at the 5% of the search instead of the minimum.
NQStrictBabyEarlyFloor ==
    /\ BabyStep /\ current_bandwidth > THROTTLE_MIN
    /\ Applies(MaxOf(current_bandwidth - (IF actual_power < target_power THEN 5 ELSE 10), 5))

NQStrictBaby ==
    /\ BabyStep /\ current_bandwidth > THROTTLE_MIN
    /\ Applies(MaxOf(current_bandwidth - (IF actual_power < target_power THEN 5 ELSE 10),
                     THROTTLE_MIN))

\* Mutant: the candidates are not bounded by the present throttle.
CandidatesFromMax == {t \in 1..THROTTLE_MAX : t % 5 = 0} \cup {THROTTLE_MIN}

\* range(current_bandwidth - 5, 0, -5), and 1 if no candidate is accepted.
Candidates ==
    {t \in 1..(current_bandwidth - 5) : (current_bandwidth - t) % 5 = 0}
    \cup {THROTTLE_MIN}

NQSearch(t) ==
    /\ Search /\ (maps_ok \/ current_bandwidth <= 5)
    /\ t \in Candidates
    /\ Applies(t)

\* +1 for a small gap, else what recover_bandwidth finds, +5 as the fallback.
NQIncrease(found) ==
    /\ pc = "control" /\ BelowBudget(actual_power) /\ maps_ok
    /\ current_bandwidth < THROTTLE_MAX
    /\ \/ found = current_bandwidth
       \/ found > current_bandwidth /\ found % 5 = 0
    /\ Applies(MinOf(THROTTLE_MAX,
                     IF Gap < 10 THEN current_bandwidth + 1
                     ELSE IF found = current_bandwidth \/ current_bandwidth < 10
                          THEN current_bandwidth + 5
                     ELSE found))

\* At the minimum, at the maximum, or in the dead band.
NQKeeps ==
    /\ pc = "control"
    /\ \/ BabyStep /\ current_bandwidth <= THROTTLE_MIN
       \/ BelowBudget(actual_power) /\ current_bandwidth >= THROTTLE_MAX
       \/ ~NearBudget(actual_power) /\ ~BelowBudget(actual_power)
    /\ pc' = "budget"
    /\ UNCHANGED <<budget, cpu_max, running, target_power, actual_power,
                   current_bandwidth, noqos>>

\* The calibration or a prediction raises; a small increase has been written
\* by then.  The thread ends and main starts the next one.
NQThreadDies ==
    /\ pc = "control" /\ ~maps_ok
    /\ \/ UNCHANGED cpu_max
       \/ /\ BelowBudget(actual_power) /\ Gap < 10
          /\ current_bandwidth < THROTTLE_MAX
          /\ cpu_max' \in set_cpu_limit(current_bandwidth + 1)
    /\ current_bandwidth' = THROTTLE_MAX
    /\ pc' = "budget"
    /\ UNCHANGED <<budget, running, target_power, actual_power, noqos>>

NQSignal == Ends /\ UNCHANGED noqos

NQLoop ==
    /\ running = "noqos"
    /\ \/ NQReadBudget \/ NQSkips
       \/ \E p \in Powers : NQEnergySample(p) \/ NQSample(p)
       \/ NQStrictBaby
       \/ \E t \in 1..THROTTLE_MAX : NQSearch(t) \/ NQIncrease(t)
       \/ NQKeeps \/ NQThreadDies

NQNext == NQStart \/ NQLoop \/ (running = "noqos" /\ NQSignal)

-----------------------------------------------------------------------------
(* Properties                                                              *)

\* While writes succeed, a thread that does not believe the user cgroup
\* unthrottled knows the limit in force, whatever has ended the threads
\* before it.
NQKnowsLimit ==
    running = "noqos" /\ current_bandwidth # THROTTLE_MAX /\ ~WriteErrors
        => cpu_max = quota(current_bandwidth)

\* So a decision near or over the budget raises the limit only if the thread
\* believes the cgroup unthrottled: the first one after a start or restart.
NQRaisesOnlyWhenFresh ==
    [][running = "noqos" /\ NearBudget(actual_power)
           /\ current_bandwidth # THROTTLE_MAX /\ ~WriteErrors
           => cpu_max' <= cpu_max]_cpu_max

NQDecides == []<>(running = "noqos" /\ pc = "control")
NQDecidesNear ==
    running = "noqos" /\ (pc = "control" => maps_ok /\ NearBudget(actual_power))

\* If from some point on every decision is taken near or over the budget, on
\* complete maps, the user cgroup ends up at 1%.
NQOverloadThrottles ==
    NQDecides /\ <>[]NQDecidesNear => <>[](cpu_max = quota(THROTTLE_MIN))

=============================================================================

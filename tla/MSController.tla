--------------------------- MODULE MSController ----------------------------
(***************************************************************************)
(* The MS baseline, control/powercap_CPU_MS.py: a thread that drops the    *)
(* user cgroup to 5% when power exceeds the budget and raises it by one    *)
(* point otherwise.  Every exception ends the thread; main starts another. *)
(***************************************************************************)
EXTENDS BaselineFiles

\* The head of run_stress_ng, of the first thread and of its successors.
MSThreadStarts ==
    /\ current_bandwidth' = THROTTLE_MAX
    /\ pc' = "power"

MSStart ==
    /\ running = "none"
    /\ running' = "ms"
    /\ MSThreadStarts
    /\ UNCHANGED <<budget, cpu_max, target_power, actual_power>>

MSMeasure(p) ==
    /\ pc = "power"
    /\ actual_power' = p
    /\ pc' = "budget"
    /\ UNCHANGED <<budget, cpu_max, running, target_power, current_bandwidth>>

MSReadBudget ==
    /\ pc = "budget" /\ budget # NoBudget
    /\ target_power' = budget
    /\ pc' = "control"
    /\ UNCHANGED <<budget, cpu_max, running, actual_power, current_bandwidth>>

\* Mutant: the limit is never raised again after a drop.
ms_control_stuck ==
    IF actual_power > target_power THEN 5 ELSE current_bandwidth

\* The new bandwidth ms_control decides on.
ms_control ==
    IF actual_power > target_power THEN 5
    ELSE MinOf(current_bandwidth + 1, THROTTLE_MAX)

\* Mutant: the drop is not applied.
MSControlRaisesOnly ==
    /\ pc = "control"
    /\ cpu_max' = IF actual_power > target_power THEN cpu_max ELSE quota(ms_control)
    /\ current_bandwidth' = ms_control
    /\ pc' = "print"
    /\ UNCHANGED <<budget, running, target_power, actual_power>>

\* After the perf and cpupower samples, with the power and the budget read
\* before them; core_throttling applies the bandwidth.
MSControl ==
    /\ pc = "control"
    /\ cpu_max' = quota(ms_control)
    /\ current_bandwidth' = ms_control
    /\ pc' = "print"
    /\ UNCHANGED <<budget, running, target_power, actual_power>>

MSLog ==
    /\ pc = "print"
    /\ pc' = "power"
    /\ UNCHANGED <<budget, cpu_max, running, target_power, actual_power,
                   current_bandwidth>>

\* An unparsable perf output, a truncated budget, a failing sample or write to
\* cpu.max, or a closed log: the thread ends and main starts the next one.
MSThreadDies ==
    /\ \/ pc = "power"
       \/ pc = "budget" /\ budget = NoBudget
       \/ pc = "control"
       \/ pc = "print"
    /\ MSThreadStarts
    /\ UNCHANGED <<budget, cpu_max, running, target_power, actual_power>>

\* signal_handler exits without lifting the limit.
MSSignal == Ends

MSLoop ==
    /\ running = "ms"
    /\ \/ \E p \in Powers : MSMeasure(p)
       \/ MSReadBudget \/ MSControl \/ MSLog
       \/ MSThreadDies

MSNext == MSStart \/ MSLoop \/ (running = "ms" /\ MSSignal)

-----------------------------------------------------------------------------
(* Properties                                                              *)

\* Unless the thread has just been replaced, it knows the limit in force: so
\* the user cgroup is raised by more than one point only by the first decision
\* of a new thread, whatever exceptions ended the ones before.
MSKnowsLimit ==
    running = "ms" /\ current_bandwidth # THROTTLE_MAX
        => cpu_max = quota(current_bandwidth)

MSDecides == []<>(running = "ms" /\ pc = "print")
MSDecidesAbove == running = "ms" /\ (pc = "control" => actual_power > target_power)
MSDecidesBelow == running = "ms" /\ (pc = "control" => actual_power <= target_power)

\* If from some point on power is above the budget at every decision the user
\* cgroup ends up at 5%, though threads may die and their successors believe
\* it unthrottled; if it is within the budget, at 100%.
MSOverloadThrottles ==
    MSDecides /\ <>[]MSDecidesAbove => <>[](cpu_max = quota(5))

MSSlackRecovers ==
    MSDecides /\ <>[]MSDecidesBelow => <>[](cpu_max = quota(THROTTLE_MAX))

=============================================================================

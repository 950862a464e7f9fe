------------------------- MODULE OracleController --------------------------
(***************************************************************************)
(* The Oracle baseline: control/oracle_collect.py measures the power at    *)
(* each limit of a sweep and saves the table; the controller,              *)
(* control/powercap_CPU_oracle.py, applies the highest limit whose         *)
(* recorded power fits the budget.                                         *)
(***************************************************************************)
EXTENDS BaselineFiles

CONSTANT Step   \* the sweep's step in percent, 5 in the code

ASSUME StepAssumption == Step \in 1..99

VARIABLES
    power_data,   \* the table being collected, a partial function
    power_info,   \* the table in power_info.json
    saved,        \* TRUE iff power_info.json can be parsed
    level         \* the limit (%) of the sweep, or selected_level

oracle == <<power_data, power_info, saved, level>>

Empty == [l \in {} |-> 0]

\* "max" for 100%, else a quota.
max_of(percent) == IF percent = 100 THEN NoLimit ELSE quota(percent)

OracleInit ==
    /\ power_data = Empty
    /\ power_info = Empty
    /\ saved = FALSE
    /\ level = 100

-----------------------------------------------------------------------------
(* oracle_collect.py                                                       *)

CollectStart ==
    /\ running \in {"none", "collected"}
    /\ running' = "collect"
    /\ power_data' = Empty
    /\ level' = 100
    /\ pc' = "set"
    /\ UNCHANGED <<budget, cpu_max, current_bandwidth, target_power, actual_power,
                   power_info, saved>>

CollectSets ==
    /\ pc = "set"
    /\ cpu_max' = max_of(level)
    /\ pc' = "sweep"
    /\ UNCHANGED <<budget, current_bandwidth, running, target_power, actual_power,
                   oracle>>

With(f, l, p) == [k \in DOMAIN f \cup {l} |-> IF k = l THEN p ELSE f[k]]

\* A measurement that fails leaves the level out of the table.
CollectMeasures ==
    /\ pc = "sweep"
    /\ \/ \E p \in Powers : power_data' = With(power_data, level, p)
       \/ UNCHANGED power_data
    /\ level' = IF level > Step THEN level - Step ELSE level
    /\ pc' = IF level > Step THEN "set" ELSE "open"
    /\ UNCHANGED <<budget, cpu_max, current_bandwidth, running, target_power,
                   actual_power, power_info, saved>>

\* open(..., "w") truncates the file, json.dump fills it.
CollectOpens ==
    /\ pc = "open"
    /\ saved' = FALSE
    /\ pc' = "dump"
    /\ UNCHANGED <<budget, cpu_max, current_bandwidth, running, target_power,
                   actual_power, power_data, power_info, level>>

CollectDumps ==
    /\ pc = "dump"
    /\ power_info' = power_data
    /\ saved' = TRUE
    /\ power_data' = Empty
    /\ running' = "collected"
    /\ pc' = "off"
    /\ UNCHANGED <<budget, cpu_max, current_bandwidth, target_power, actual_power,
                   level>>

\* cpu.max cannot be written, or the user interrupts the sweep: the table
\* remains the one of an earlier sweep, unless the file is being written.
CollectEnds ==
    /\ power_data' = Empty
    /\ running' = "collected"
    /\ pc' = "off"
    /\ UNCHANGED <<budget, cpu_max, current_bandwidth, target_power, actual_power,
                   power_info, saved, level>>

-----------------------------------------------------------------------------
(* powercap_CPU_oracle.py                                                  *)

\* load_power_info exits if the table cannot be parsed.
OracleStart ==
    /\ running = "collected" /\ saved
    /\ running' = "oracle"
    /\ pc' = "budget"
    /\ UNCHANGED <<budget, cpu_max, current_bandwidth, target_power, actual_power,
                   oracle>>

\* While the budget cannot be read the loop sleeps and tries again.
OracleReadBudget ==
    /\ pc = "budget" /\ budget # NoBudget
    /\ target_power' = budget
    /\ pc' = "select"
    /\ UNCHANGED <<budget, cpu_max, current_bandwidth, running, actual_power,
                   oracle>>

Fits(t) == {l \in DOMAIN power_info : power_info[l] <= t}

\* Mutant: the levels are tried in ascending order.
select_throttle_ascending(t, l) ==
    \/ l \in Fits(t) /\ \A m \in Fits(t) : l <= m
    \/ Fits(t) = {} /\ l \in DOMAIN power_info /\ \A m \in DOMAIN power_info : l <= m

\* l is the level select_throttle returns for the target t.
select_throttle(t, l) ==
    \/ l \in Fits(t) /\ \A m \in Fits(t) : m <= l
    \/ Fits(t) = {} /\ l \in DOMAIN power_info /\ \A m \in DOMAIN power_info : l <= m

OracleSelects ==
    /\ pc = "select"
    /\ \E l \in DOMAIN power_info : select_throttle(target_power, l) /\ level' = l
    /\ pc' = "flush"
    /\ UNCHANGED <<budget, cpu_max, current_bandwidth, running, target_power,
                   actual_power, power_data, power_info, saved>>

\* Mutant: a limit is only ever lowered.
OracleFlushLowers ==
    /\ pc = "flush"
    /\ cpu_max' = IF cpu_max = NoLimit \/ quota(level) < cpu_max
                  THEN max_of(level) ELSE cpu_max
    /\ pc' = "measure"
    /\ UNCHANGED <<budget, current_bandwidth, running, target_power, actual_power,
                   oracle>>

\* The buffered write to cpu.max reaches the kernel when the file is closed.
OracleFlush ==
    /\ pc = "flush"
    /\ cpu_max' = max_of(level)
    /\ pc' = "measure"
    /\ UNCHANGED <<budget, current_bandwidth, running, target_power, actual_power,
                   oracle>>

\* The power is only logged, as 0 if it cannot be measured.
OracleMeasure ==
    /\ pc = "measure"
    /\ actual_power' \in Powers \cup {0}
    /\ pc' = "budget"
    /\ UNCHANGED <<budget, cpu_max, current_bandwidth, running, target_power,
                   oracle>>

\* min() of an empty table raises, set_user_cpu_max exits when cpu.max cannot
\* be written, and print raises once the log is closed.
OracleDies ==
    /\ \/ pc = "select" /\ DOMAIN power_info = {}
       \/ pc \in {"flush", "measure"}
    /\ Ends
    /\ UNCHANGED oracle

\* The handler lifts the limit and exits; a write in progress is flushed on the
\* way out.  Either write may fail.
OracleSignal ==
    /\ \/ cpu_max' \in {cpu_max, NoLimit}
       \/ pc = "flush" /\ cpu_max' = max_of(level)
    /\ running' = "done"
    /\ pc' = "off"
    /\ UNCHANGED <<budget, current_bandwidth, target_power, actual_power, oracle>>

Collecting ==
    /\ running = "collect"
    /\ CollectSets \/ CollectMeasures \/ CollectOpens \/ CollectDumps

OracleLoop ==
    /\ running = "oracle"
    /\ OracleReadBudget \/ OracleSelects \/ OracleFlush \/ OracleMeasure \/ OracleDies

OracleNext ==
    \/ CollectStart \/ Collecting \/ (running = "collect" /\ CollectEnds)
    \/ OracleStart \/ OracleLoop \/ (running = "oracle" /\ OracleSignal)

-----------------------------------------------------------------------------
(* Properties                                                              *)

\* While the power is measured the limit in force is a level of the table whose
\* recorded power fits the budget that was read, and no higher level of it
\* does; or no level does, and it is the lowest.
OracleWithinTable ==
    running = "oracle" /\ pc = "measure" =>
        \E l \in DOMAIN power_info :
            /\ cpu_max = max_of(l)
            /\ power_info[l] <= target_power \/ \A m \in DOMAIN power_info : l <= m
            /\ \A m \in DOMAIN power_info : m > l => power_info[m] > target_power

\* A writer that changes the budget truncates the file first.
OracleUndisturbed == running = "oracle" /\ budget # NoBudget
OracleApplied ==
    \E l \in DOMAIN power_info : select_throttle(budget, l) /\ cpu_max = max_of(l)

\* Once the budget file is left alone the limit selected for it comes into
\* force and stays, however the file was caught before.
OracleSettles == <>[]OracleUndisturbed => <>[]OracleApplied

=============================================================================

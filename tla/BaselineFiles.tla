--------------------------- MODULE BaselineFiles ---------------------------
(***************************************************************************)
(* What the baseline controllers of control/ share: the budget file, the   *)
(* cpu.max file of the user cgroup, and the shape of a control loop.  One  *)
(* baseline runs at a time; "running" says which, "pc" where it is.        *)
(***************************************************************************)
EXTENDS Integers

CONSTANTS
    Budgets,     \* the budgets (W) the budget file is given
    Powers,      \* the package powers (W) perf can report
    Cores,       \* os.cpu_count()
    Leftovers    \* the limits (%) an earlier controller can have left

ASSUME FilesAssumption ==
    /\ Budgets \subseteq Nat \ {0} /\ Powers \subseteq Nat
    /\ Cores \in Nat \ {0}
    /\ Leftovers \subseteq 1..100

VARIABLES
    budget,         \* the budget file
    cpu_max,        \* the quota in the user cgroup's cpu.max file
    running,        \* the controller that runs, "none" before, "done" after
    pc,             \* where its loop is
    target_power,   \* the budget it has read (total_budget in the RAPL one)
    actual_power,   \* the power it has measured
    current_bandwidth   \* the limit (%) it believes in force (MS and noQoS)

loop == <<running, pc, target_power, actual_power>>

NoBudget == -1    \* a writer has truncated the file and not written it yet
NoLimit == 0      \* "max" in cpu.max
THROTTLE_MAX == 100

MinOf(a, b) == IF a < b THEN a ELSE b

\* int(100000 * num_cores * percent / 100)
quota(percent) == 1000 * Cores * percent

FilesInit ==
    /\ budget \in Budgets
    /\ cpu_max \in {quota(p) : p \in Leftovers}
    /\ running = "none"
    /\ pc = "off"
    /\ target_power = 0
    /\ actual_power = 0
    /\ current_bandwidth = THROTTLE_MAX

\* The budget writers truncate the file, then write it.
WriteBudget(b) ==
    /\ budget' = IF budget = NoBudget THEN b ELSE NoBudget
    /\ UNCHANGED <<cpu_max, loop, current_bandwidth>>

\* A controller ends, by an exception or a signal, and restores nothing.
Ends ==
    /\ running' = "done"
    /\ pc' = "off"
    /\ UNCHANGED <<budget, cpu_max, target_power, actual_power, current_bandwidth>>

=============================================================================

----------------------------- MODULE Baselines -----------------------------
(***************************************************************************)
(* The four baselines under one writer of the budget file.  The operator   *)
(* starts one of them by hand; the Oracle controller follows its sweeps.   *)
(***************************************************************************)
EXTENDS MSController, NoQoSController, OracleController, RaplController

vars == <<budget, cpu_max, loop, current_bandwidth, noqos, oracle, energy, limits>>

Init == FilesInit /\ NQInit /\ OracleInit /\ RaplInit

Next ==
    \/ /\ \E b \in Budgets : WriteBudget(b)
       /\ UNCHANGED <<noqos, oracle, energy, limits>>
    \/ MSNext /\ UNCHANGED <<noqos, oracle, energy, limits>>
    \/ NQNext /\ UNCHANGED <<oracle, energy, limits>>
    \/ OracleNext /\ UNCHANGED <<noqos, energy, limits>>
    \/ RaplNext /\ UNCHANGED <<noqos, oracle>>

Spec == Init /\ [][Next]_vars

\* perf, sleeps and file accesses end; nothing else is assumed, neither that
\* they succeed nor that the budget file is ever left alone.
Running ==
    \/ MSLoop /\ UNCHANGED <<noqos, oracle, energy, limits>>
    \/ NQLoop /\ UNCHANGED <<oracle, energy, limits>>
    \/ OracleLoop /\ UNCHANGED <<noqos, energy, limits>>
    \/ RaplLoop /\ UNCHANGED <<noqos, oracle>>

FairSpec == Spec /\ WF_vars(Running)

RaplTypeOK ==
    /\ counter \in [Sockets -> 0..(Wrap - 1)]
    /\ prev_energy \in [Sockets -> 0..(Wrap - 1)]
    /\ used \in [Sockets -> Nat]
    /\ unread \subseteq Sockets
    /\ limit_uw \in [Files -> {per_socket_uw(b) : b \in Budgets \cup {0}}]
    /\ stale \subseteq Files
    /\ last_budget \in Budgets \cup {0, NoLastBudget}

\* Every variable stays in its range; in particular what is written to cpu.max
\* is "max" or a quota between 1% and 100% of the cores.
TypeOK ==
    /\ budget \in Budgets \cup {NoBudget}
    /\ cpu_max \in {quota(p) : p \in 1..100} \cup {NoLimit}
    /\ running \in {"none", "ms", "noqos", "collect", "collected", "oracle", "rapl",
                   "done"}
    /\ target_power \in Budgets \cup {0}
    /\ actual_power \in Nat
    /\ current_bandwidth \in 1..100
    /\ full_mode \in BOOLEAN /\ maps_ok \in BOOLEAN
    /\ level \in 1..100
    /\ saved \in BOOLEAN
    /\ RaplTypeOK

=============================================================================

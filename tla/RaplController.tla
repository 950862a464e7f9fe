--------------------------- MODULE RaplController --------------------------
(***************************************************************************)
(* The RAPL baseline, control/powercap_CPU_rapl.py: every two seconds it   *)
(* derives the power from the sockets' energy counters and hands half of   *)
(* the budget to each socket's hardware limits.                            *)
(*                                                                         *)
(* Energy is counted in joules, so that the power over a period of two     *)
(* seconds exceeds a budget b iff the energy counted exceeds 2 * b.        *)
(***************************************************************************)
EXTENDS BaselineFiles, Sequences

CONSTANTS
    Wrap,       \* the energy counters count modulo Wrap
    Counters,   \* where the counters, which run since boot, can be found
    Bursts,     \* the energy (J) a socket can use at once
    MaxUsed,    \* bound: the energy used between two readings of a counter
    RAPL_LIMIT_FILES   \* the sequence of limit files, four in the code

ASSUME RaplAssumption ==
    /\ Wrap \in Nat \ {0}
    /\ Bursts \subseteq 1..Wrap
    /\ MaxUsed \in Nat
    /\ RAPL_LIMIT_FILES \in Seq(STRING)

ASSUME CountersAssumption == Counters \subseteq 0..(Wrap - 1)

Sockets == {0, 1}
Files == {RAPL_LIMIT_FILES[k] : k \in 1..Len(RAPL_LIMIT_FILES)}
NoLastBudget == -1   \* None

VARIABLES
    counter,       \* the energy counter of each socket, from RaplStart on
    prev_energy,   \* ... when it was last read, 0 if it could not be at first
    used,          \* history: the energy used since it was last read
    unread,        \* history: the sockets whose counter was never read
    limit_uw,      \* the limit files
    todo,          \* the files set_limits has still to write
    stale,         \* history: the files whose last write failed
    last_budget

energy == <<counter, prev_energy, used, unread>>
limits == <<limit_uw, todo, stale, last_budget>>

\* int(total_budget / 2 * 1_000_000)
per_socket_uw(b) == 500000 * b

RaplInit ==
    /\ counter = [i \in Sockets |-> 0]
    /\ prev_energy = counter
    /\ used = [i \in Sockets |-> 0]
    /\ unread = Sockets
    /\ limit_uw \in [Files -> {per_socket_uw(b) : b \in Budgets}]
    /\ \A f, g \in Files : limit_uw[f] = limit_uw[g]
    /\ todo = <<>>
    /\ stale = Files
    /\ last_budget = NoLastBudget

\* A socket uses energy while a controller sleeps.
UseEnergy(i, e) ==
    /\ running = "rapl" /\ pc \in {"init", "sleep"}
    /\ used[i] + e <= MaxUsed
    /\ counter' = [counter EXCEPT ![i] = IF @ + e < Wrap THEN @ + e ELSE @ + e - Wrap]
    /\ used' = [used EXCEPT ![i] = @ + e]
    /\ UNCHANGED <<budget, cpu_max, current_bandwidth, loop, prev_energy, unread, limits>>

-----------------------------------------------------------------------------

RaplStart ==
    /\ running = "none"
    /\ running' = "rapl"
    /\ counter' \in [Sockets -> Counters]
    /\ unread' = Sockets
    /\ pc' = "init"
    /\ UNCHANGED <<budget, cpu_max, current_bandwidth, target_power, actual_power,
                   prev_energy, used, limits>>

\* The sockets in failed could not be read: their counters are taken to have
\* been 0.
RaplInitEnergy(failed) ==
    /\ pc = "init"
    /\ prev_energy' = [i \in Sockets |-> IF i \in failed THEN 0 ELSE counter[i]]
    /\ used' = [i \in Sockets |-> IF i \in failed THEN used[i] ELSE 0]
    /\ unread' = failed
    /\ pc' = "sleep"
    /\ UNCHANGED <<budget, cpu_max, current_bandwidth, running, target_power,
                   actual_power, counter, limits>>

\* Mutant: the sign of a negative difference is dropped.
delta_abs(i) ==
    IF counter[i] < prev_energy[i] THEN prev_energy[i] - counter[i]
    ELSE counter[i] - prev_energy[i]

\* The energy counted for socket i: after a wraparound, what is in the counter.
delta(i) ==
    IF counter[i] < prev_energy[i] THEN counter[i] ELSE counter[i] - prev_energy[i]

\* The sockets in failed could not be read; actual_power is kept as the energy
\* counted in the period.
RaplMeasure(failed) ==
    /\ pc = "sleep"
    /\ actual_power' = (IF 0 \in failed THEN 0 ELSE delta(0))
                       + (IF 1 \in failed THEN 0 ELSE delta(1))
    /\ prev_energy' = [i \in Sockets |-> IF i \in failed THEN prev_energy[i]
                                         ELSE counter[i]]
    /\ used' = [i \in Sockets |-> IF i \in failed THEN used[i] ELSE 0]
    /\ unread' = unread \cap failed
    /\ pc' = "budget"
    /\ UNCHANGED <<budget, cpu_max, current_bandwidth, running, target_power,
                   counter, limits>>

\* A budget that cannot be read counts as 0 W.
RaplReadBudget ==
    /\ pc = "budget"
    /\ target_power' = IF budget = NoBudget THEN 0 ELSE budget
    /\ pc' = "compare"
    /\ UNCHANGED <<budget, cpu_max, current_bandwidth, running, actual_power,
                   energy, limits>>

RaplChanged == last_budget # target_power \/ actual_power > 2 * target_power

RaplUpdates ==
    /\ pc = "compare" /\ RaplChanged
    /\ todo' = RAPL_LIMIT_FILES
    /\ pc' = "limits"
    /\ UNCHANGED <<budget, cpu_max, current_bandwidth, running, target_power,
                   actual_power, energy, limit_uw, stale, last_budget>>

RaplKeeps ==
    /\ pc = "compare" /\ ~RaplChanged
    /\ pc' = "sleep"
    /\ UNCHANGED <<budget, cpu_max, current_bandwidth, running, target_power,
                   actual_power, energy, limits>>

\* Mutant: set_limits gives up at the first file that cannot be written.
RaplWriteGivesUp ==
    /\ pc = "limits" /\ todo # <<>>
    /\ \/ /\ limit_uw' = [limit_uw EXCEPT ![Head(todo)] = per_socket_uw(target_power)]
          /\ stale' = stale \ {Head(todo)}
          /\ todo' = Tail(todo)
       \/ /\ stale' = stale \cup {Head(todo)}
          /\ todo' = <<>>
          /\ UNCHANGED limit_uw
    /\ UNCHANGED <<budget, cpu_max, current_bandwidth, loop, energy, last_budget>>

\* set_limits writes the next file, or reports the error and goes on.
RaplWrite ==
    /\ pc = "limits" /\ todo # <<>>
    /\ \/ /\ limit_uw' = [limit_uw EXCEPT ![Head(todo)] = per_socket_uw(target_power)]
          /\ stale' = stale \ {Head(todo)}
       \/ /\ stale' = stale \cup {Head(todo)}
          /\ UNCHANGED limit_uw
    /\ todo' = Tail(todo)
    /\ UNCHANGED <<budget, cpu_max, current_bandwidth, loop, energy, last_budget>>

\* Mutant: a budget that could not be read is not remembered.
RaplUpdatedIfRead ==
    /\ pc = "limits" /\ todo = <<>>
    /\ last_budget' = IF target_power = 0 THEN last_budget ELSE target_power
    /\ pc' = "sleep"
    /\ UNCHANGED <<budget, cpu_max, current_bandwidth, running, target_power,
                   actual_power, energy, limit_uw, todo, stale>>

RaplUpdated ==
    /\ pc = "limits" /\ todo = <<>>
    /\ last_budget' = target_power
    /\ pc' = "sleep"
    /\ UNCHANGED <<budget, cpu_max, current_bandwidth, running, target_power,
                   actual_power, energy, limit_uw, todo, stale>>

\* A signal, or an exception of print: the limits stay as they are.
RaplEnds == Ends /\ UNCHANGED <<energy, limits>>

RaplLoop ==
    /\ running = "rapl"
    /\ \/ \E failed \in SUBSET Sockets : RaplInitEnergy(failed) \/ RaplMeasure(failed)
       \/ RaplReadBudget \/ RaplUpdates \/ RaplKeeps \/ RaplWrite \/ RaplUpdated

RaplNext ==
    \/ RaplStart \/ RaplLoop \/ (running = "rapl" /\ RaplEnds)
    \/ \E i \in Sockets, e \in Bursts : UseEnergy(i, e)

-----------------------------------------------------------------------------
(* Properties                                                              *)

\* Whenever a counter is read again, the energy counted is not more than what
\* the socket has used since: neither a wraparound nor a period whose reading
\* failed makes the loop count energy twice.  A counter whose reading failed at
\* the start is exempt until it is read: all it holds counts as used.
EnergyNotOvercounted == \A i \in Sockets \ unread : delta(i) <= used[i]

\* Between two updates every limit file holds half of the budget read last,
\* unless its last write failed: an error on one file keeps no other from
\* being written.
RaplLimitsFollow ==
    running = "rapl" /\ pc # "limits" =>
        \A f \in Files \ stale : limit_uw[f] = per_socket_uw(last_budget)

RaplUndisturbed == running = "rapl" /\ budget # NoBudget
RaplApplied == \A f \in Files \ stale : limit_uw[f] = per_socket_uw(budget)

\* A limit of 0 W, written because the budget file was caught truncated, does
\* not last: once the file is left alone its budget comes into force.
RaplSettles == <>[]RaplUndisturbed => <>[]RaplApplied

=============================================================================

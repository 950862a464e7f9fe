-------------------------- MODULE BaselinesProofs --------------------------
(***************************************************************************)
(* The safety properties of the baselines, for every set of budgets and    *)
(* powers, every number of cores, every step of the sweep, every range of  *)
(* the energy counters and every list of RAPL limit files.                 *)
(***************************************************************************)
EXTENDS Baselines, TLAPS

LEMMA NotAbove ==
    ASSUME NEW a \in Int, NEW b \in Int, a <= b
    PROVE  ~(a > b)
  OBVIOUS

LEMMA TurnCounted ==
    ASSUME NEW W \in Nat, NEW c \in 0..(W - 1), NEW p \in 0..(W - 1), NEW u \in Nat,
           NEW e \in 1..W,
           c >= p => u >= c - p,
           c < p => u >= c - p + W
    PROVE  LET d == IF c + e < W THEN c + e ELSE c + e - W
           IN  /\ d >= p => u + e >= d - p
               /\ d < p => u + e >= d - p + W
  <1>1. CASE c + e < W
    BY <1>1
  <1>2. CASE ~(c + e < W)
    BY <1>2
  <1> QED
    BY <1>1, <1>2

USE FilesAssumption, StepAssumption, RaplAssumption

IsTable(f) == f \in [DOMAIN f -> Nat] /\ DOMAIN f \subseteq 1..100

\* TypeOK with the tables of the Oracle and the files that set_limits has
\* still to write.
TypeInv ==
    /\ TypeOK
    /\ IsTable(power_data) /\ IsTable(power_info)
    /\ todo \in Seq(Files)

\* What the Oracle has selected is what the table calls for, and is in force
\* once it has been flushed.
OracleInv ==
    running = "oracle" =>
        /\ pc \in {"flush", "measure"} =>
               level \in DOMAIN power_info /\ select_throttle(target_power, level)
        /\ pc = "measure" => cpu_max = max_of(level)

\* Once a counter has been read, the energy used since covers the difference of
\* the readings, and a whole turn more once it has wrapped round below the last.
EnergyInv ==
    \A i \in Sockets \ unread :
        /\ counter[i] >= prev_energy[i] => used[i] >= counter[i] - prev_energy[i]
        /\ counter[i] < prev_energy[i] => used[i] >= counter[i] - prev_energy[i] + Wrap

\* During an update the files that set_limits is past hold the new budget.
RaplInv ==
    /\ running = "none" => stale = Files
    /\ RaplLimitsFollow
    /\ running = "rapl" /\ pc = "limits" =>
           \A f \in Files \ stale :
               (\A k \in 1..Len(todo) : todo[k] # f)
                   => limit_uw[f] = per_socket_uw(target_power)

-----------------------------------------------------------------------------
(* Types.                                                                  *)

LEMMA QuotaOf ==
    ASSUME NEW p \in 1..100
    PROVE  /\ quota(p) \in {quota(q) : q \in 1..100}
           /\ max_of(p) \in {quota(q) : q \in 1..100} \cup {NoLimit}
  BY DEF quota, max_of

LEMMA FilesOf ==
    /\ RAPL_LIMIT_FILES \in Seq(Files)
    /\ \A f \in Files : \E k \in 1..Len(RAPL_LIMIT_FILES) : RAPL_LIMIT_FILES[k] = f
  BY DEF Files

LEMMA WithTable ==
    ASSUME NEW f, IsTable(f), NEW l \in 1..100, NEW p \in Nat
    PROVE  IsTable(With(f, l, p))
  BY ZenonT(30) DEF IsTable, With

LEMMA TypeInit == Init => TypeInv
  <1> SUFFICES ASSUME Init PROVE TypeInv
    OBVIOUS
  <1> USE DEF Init, FilesInit, NQInit, OracleInit, RaplInit
  <1>1. cpu_max \in {quota(p) : p \in 1..100}
    BY QuotaOf, Zenon
  <1>2. IsTable(power_data) /\ IsTable(power_info)
    BY DEF IsTable, Empty
  <1>3. todo \in Seq(Files)
    OBVIOUS
  <1>4. /\ counter \in [Sockets -> 0..(Wrap - 1)]
        /\ prev_energy \in [Sockets -> 0..(Wrap - 1)]
        /\ used \in [Sockets -> Nat]
        /\ unread \subseteq Sockets
    OBVIOUS
  <1>5. limit_uw \in [Files -> {per_socket_uw(b) : b \in Budgets \cup {0}}]
    OBVIOUS
  <1>6. /\ budget \in Budgets \cup {NoBudget}
        /\ current_bandwidth \in 1..100 /\ level \in 1..100
    BY DEF THROTTLE_MAX
  <1> QED
    BY <1>1, <1>2, <1>3, <1>4, <1>5, <1>6, Zenon DEF TypeInv, TypeOK, RaplTypeOK

\* What a step of another controller leaves alone keeps its type.
LEMMA RaplKept ==
    ASSUME TypeInv, UNCHANGED <<energy, limits>>
    PROVE  RaplTypeOK' /\ todo' \in Seq(Files)
  BY DEF TypeInv, TypeOK, RaplTypeOK, energy, limits

LEMMA TablesKept ==
    ASSUME TypeInv, UNCHANGED oracle
    PROVE  IsTable(power_data)' /\ IsTable(power_info)'
  BY SMTT(30) DEF TypeInv, IsTable, oracle

LEMMA MSControlRange ==
    ASSUME current_bandwidth \in 1..100
    PROVE  ms_control \in 1..100
  BY DEF ms_control, MinOf, THROTTLE_MAX

LEMMA TypeMS ==
    ASSUME TypeInv, MSNext, UNCHANGED <<noqos, oracle, energy, limits>>
    PROVE  TypeInv'
  <1>0. quota(ms_control) \in {quota(q) : q \in 1..100} /\ ms_control \in 1..100
    BY MSControlRange, QuotaOf, Zenon DEF TypeInv, TypeOK
  <1>a. TypeOK
    BY DEF TypeInv
  <1>b. RaplTypeOK' /\ todo' \in Seq(Files)
    BY RaplKept
  <1>c. IsTable(power_data)' /\ IsTable(power_info)'
    BY TablesKept
  <1>d. TypeOK'
    <2> USE <1>a, <1>b DEF TypeOK, noqos, oracle
    <2>1. CASE MSStart
      BY <2>1 DEF MSStart, MSThreadStarts, THROTTLE_MAX
    <2>2. CASE MSLoop
      <3>1. ASSUME NEW p \in Powers, MSMeasure(p) PROVE TypeOK'
        BY <3>1 DEF MSMeasure
      <3>2. CASE MSReadBudget
        BY <3>2 DEF MSReadBudget
      <3>3. CASE MSControl
        BY <1>0, <3>3 DEF MSControl
      <3>4. CASE MSLog
        BY <3>4 DEF MSLog
      <3>5. CASE MSThreadDies
        BY <3>5 DEF MSThreadDies, MSThreadStarts, THROTTLE_MAX
      <3> QED
        BY <2>2, <3>1, <3>2, <3>3, <3>4, <3>5 DEF MSLoop
    <2>3. CASE running = "ms" /\ MSSignal
      BY <2>3 DEF MSSignal, Ends
    <2> QED
      BY <2>1, <2>2, <2>3 DEF MSNext
  <1> QED
    BY <1>b, <1>c, <1>d DEF TypeInv

LEMMA NQRunning ==
    ASSUME NQNext
    PROVE  running \in {"none", "noqos"} /\ running' \in {"noqos", "done"}
  BY DEF NQNext, NQStart, NQLoop, NQReadBudget, NQSkips, NQEnergySample, NQSample,
    NQStrictBaby, NQSearch, NQIncrease, NQKeeps, NQThreadDies, NQSignal, Applies, Ends

\* Every percentage the controller without priorities writes is in its range.
LEMMA NQBabyRange ==
    ASSUME NEW b \in 1..100, NEW d \in {5, 10}
    PROVE  MaxOf(b - d, THROTTLE_MIN) \in 1..100
  BY DEF MaxOf, THROTTLE_MIN

LEMMA NQIncreaseRange ==
    ASSUME NEW b \in 1..100, NEW c \in {b + 1, b + 5} \cup 1..100
    PROVE  MinOf(THROTTLE_MAX, c) \in 1..100
  BY DEF MinOf, THROTTLE_MAX

LEMMA NQApplies ==
    ASSUME TypeInv, NEW t \in 1..100, Applies(t), RaplTypeOK',
           UNCHANGED oracle
    PROVE  TypeOK'
  <1>1. cpu_max' \in {quota(p) : p \in 1..100} \cup {NoLimit}
    BY QuotaOf, Zenon DEF Applies, set_cpu_limit, TypeInv, TypeOK
  <1> QED
    BY <1>1, SMTT(30) DEF Applies, TypeInv, TypeOK, noqos, oracle

LEMMA TypeNQ ==
    ASSUME TypeInv, NQNext, UNCHANGED <<oracle, energy, limits>>
    PROVE  TypeInv'
  <1>a. current_bandwidth \in 1..100
    BY DEF TypeInv, TypeOK
  <1>b. RaplTypeOK' /\ todo' \in Seq(Files)
    BY RaplKept
  <1>c. IsTable(power_data)' /\ IsTable(power_info)'
    BY TablesKept
  <1>d. TypeOK'
    <2> USE <1>b
    <2>1. CASE NQStart
      BY <2>1
      DEF NQStart, THROTTLE_MAX, TypeInv, TypeOK, noqos, oracle
    <2>2. CASE running = "noqos" /\ NQSignal
      BY <2>2
      DEF NQSignal, Ends, TypeInv, TypeOK, noqos, oracle
    <2>3. CASE running = "noqos" /\ NQLoop
      <3>1. CASE NQReadBudget
        BY <3>1 DEF NQReadBudget, TypeInv, TypeOK, noqos, oracle
      <3>7. CASE UNCHANGED <<budget, cpu_max, running, target_power, actual_power,
                             current_bandwidth, noqos>>
        BY <3>7 DEF TypeInv, TypeOK, noqos, oracle
      <3>2. ASSUME NEW p \in Powers, NQEnergySample(p) \/ NQSample(p) PROVE TypeOK'
        <4>a. full_mode \in BOOLEAN /\ maps_ok \in BOOLEAN
              /\ (100 * p >= 97 * target_power) \in BOOLEAN
          BY DEF TypeInv, TypeOK
        <4>1. full_mode' \in BOOLEAN /\ maps_ok' \in BOOLEAN
          <5>1. CASE NQEnergySample(p)
            BY <4>a, <5>1, Zenon DEF NQEnergySample, NearBudget
          <5>2. CASE NQSample(p)
            BY <4>a, <5>2, Zenon DEF NQSample
          <5> QED
            BY <3>2, <5>1, <5>2
        <4>2. /\ UNCHANGED <<budget, cpu_max, running, target_power, current_bandwidth>>
              /\ actual_power' = p
          BY <3>2, SMTT(30) DEF NQEnergySample, NQSample
        <4> QED
          BY <4>1, <4>2 DEF TypeInv, TypeOK, oracle
      <3>3. CASE NQStrictBaby
        BY <1>a, <3>3, NQBabyRange, NQApplies, Zenon DEF NQStrictBaby
      <3>4. ASSUME NEW t \in 1..THROTTLE_MAX, NQSearch(t) PROVE TypeOK'
        BY <3>4, NQApplies, Zenon DEF NQSearch, THROTTLE_MAX
      <3>5. ASSUME NEW t \in 1..THROTTLE_MAX, NQIncrease(t) PROVE TypeOK'
        BY <1>a, <3>5, NQIncreaseRange, NQApplies, ZenonT(30) DEF NQIncrease, THROTTLE_MAX
      <3>6. CASE NQThreadDies
        <4>1. cpu_max' \in {quota(p) : p \in 1..100} \cup {NoLimit}
          <5>1. CASE UNCHANGED cpu_max
            BY <5>1 DEF TypeInv, TypeOK
          <5>2. CASE current_bandwidth < THROTTLE_MAX
                     /\ cpu_max' \in set_cpu_limit(current_bandwidth + 1)
            <6>1. current_bandwidth + 1 \in 1..100
              BY <1>a, <5>2 DEF THROTTLE_MAX
            <6> QED
              BY <5>2, <6>1, QuotaOf, Zenon DEF set_cpu_limit, TypeInv, TypeOK
          <5> QED
            BY <3>6, <5>1, <5>2 DEF NQThreadDies
        <4> QED
          BY <3>6, <4>1 DEF NQThreadDies, THROTTLE_MAX, TypeInv, TypeOK, noqos, oracle
      <3> QED
        BY <2>3, <3>1, <3>2, <3>3, <3>4, <3>5, <3>6, <3>7 DEF NQLoop, NQSkips, NQKeeps
    <2> QED
      BY <2>1, <2>2, <2>3 DEF NQNext, NQLoop
  <1> QED
    BY <1>b, <1>c, <1>d DEF TypeInv

LEMMA TablesOracle ==
    ASSUME TypeInv, OracleNext
    PROVE  IsTable(power_data)' /\ IsTable(power_info)'
  <1>1. CASE UNCHANGED <<power_data, power_info>>
    BY <1>1, Zenon DEF TypeInv, IsTable
  <1>2. CASE CollectMeasures
    <2>1. level \in 1..100
      BY DEF TypeInv, TypeOK
    <2>2. ASSUME NEW p \in Powers PROVE IsTable(With(power_data, level, p))
      <3>1. p \in Nat
        OBVIOUS
      <3> QED
        BY <2>1, <3>1, WithTable, Zenon DEF TypeInv
    <2>3. ASSUME NEW p \in Powers, power_data' = With(power_data, level, p)
          PROVE  IsTable(power_data)'
      <3>1. IsTable(power_data')
        BY <2>2, <2>3
      <3> QED
        BY <3>1 DEF IsTable
    <2>4. ASSUME UNCHANGED power_data PROVE IsTable(power_data)'
      BY <2>4 DEF TypeInv, IsTable
    <2>5. IsTable(power_info)'
      BY <1>2 DEF CollectMeasures, TypeInv, IsTable
    <2> QED
      BY <1>2, <2>3, <2>4, <2>5 DEF CollectMeasures
  <1>3. CASE CollectDumps \/ CollectStart \/ CollectEnds
    BY <1>3, Zenon DEF CollectDumps, CollectStart, CollectEnds, Empty, TypeInv, IsTable
  <1> QED
    BY <1>1, <1>2, <1>3
    DEF OracleNext, Collecting, CollectSets, CollectOpens, OracleStart, OracleLoop,
        OracleReadBudget, OracleSelects, OracleFlush, OracleMeasure, OracleDies,
        OracleSignal, oracle

LEMMA TypeOracle ==
    ASSUME TypeInv, OracleNext, UNCHANGED <<noqos, energy, limits>>
    PROVE  TypeInv'
  <1>0. max_of(level) \in {quota(q) : q \in 1..100} \cup {NoLimit}
    BY QuotaOf, Zenon DEF TypeInv, TypeOK
  <1>a. DOMAIN power_info \subseteq 1..100
    BY DEF TypeInv, IsTable
  <1>b. TypeOK /\ todo \in Seq(Files)
    BY DEF TypeInv
  <1>c. RaplTypeOK' /\ todo' \in Seq(Files)
    BY RaplKept
  <1>d. TypeOK'
    <2> USE <1>b, <1>c DEF TypeOK, noqos
    <2>1. CASE CollectStart
      BY <2>1 DEF CollectStart
    <2>2. CASE CollectSets
      BY <1>0, <2>2 DEF CollectSets, oracle
    <2>3. CASE CollectMeasures
      <3>1. level' \in 1..100
        BY <2>3 DEF CollectMeasures
      <3> QED
        BY <2>3, <3>1 DEF CollectMeasures
    <2>4. CASE CollectOpens
      BY <2>4, Zenon DEF CollectOpens
    <2>5. CASE CollectDumps
      BY <2>5 DEF CollectDumps
    <2>6. CASE CollectEnds
      BY <2>6 DEF CollectEnds
    <2>7. CASE OracleStart
      BY <2>7 DEF OracleStart, oracle
    <2>8. CASE OracleReadBudget
      BY <2>8 DEF OracleReadBudget, oracle
    <2>9. CASE OracleSelects
      <3>1. level' \in 1..100
        BY <1>a, <2>9, Zenon DEF OracleSelects
      <3> QED
        BY <2>9, <3>1 DEF OracleSelects
    <2>10. CASE OracleFlush
      BY <1>0, <2>10 DEF OracleFlush, oracle
    <2>11. CASE OracleMeasure
      <3>1. actual_power' \in Nat
        BY <2>11 DEF OracleMeasure
      <3> QED
        BY <2>11, <3>1 DEF OracleMeasure, oracle
    <2>12. CASE OracleDies
      BY <2>12 DEF OracleDies, Ends, oracle
    <2>13. CASE OracleSignal
      BY <1>0, <2>13, Zenon DEF OracleSignal, oracle
    <2> QED
      BY <2>1, <2>2, <2>3, <2>4, <2>5, <2>6, <2>7, <2>8, <2>9, <2>10, <2>11, <2>12,
         <2>13 DEF OracleNext, Collecting, OracleLoop
  <1> QED
    BY <1>c, <1>d, TablesOracle DEF TypeInv

LEMMA LimitOf ==
    ASSUME NEW b \in Budgets \cup {0}
    PROVE  per_socket_uw(b) \in {per_socket_uw(c) : c \in Budgets \cup {0}}
  OBVIOUS

LEMMA TypeRapl ==
    ASSUME TypeInv, RaplNext, UNCHANGED <<noqos, oracle>>
    PROVE  TypeInv'
  <1>a. TypeOK /\ todo \in Seq(Files)
    BY DEF TypeInv
  <1>b. IsTable(power_data)' /\ IsTable(power_info)'
    BY DEF TypeInv, oracle, IsTable
  <1>c. per_socket_uw(target_power) \in {per_socket_uw(b) : b \in Budgets \cup {0}}
    BY <1>a, LimitOf DEF TypeOK
  <1>d. 0 \in Sockets /\ 1 \in Sockets
    BY DEF Sockets
  <1>1. CASE RaplStart
    BY <1>1, <1>a, <1>b, CountersAssumption, Zenon
    DEF RaplStart, TypeInv, TypeOK, RaplTypeOK, noqos, oracle, energy, limits
  <1>2. ASSUME NEW failed \in SUBSET Sockets, RaplInitEnergy(failed)
        PROVE  TypeInv'
    BY <1>2, <1>a, <1>b
    DEF RaplInitEnergy, TypeInv, TypeOK, RaplTypeOK, noqos, oracle, limits
  <1>3. ASSUME NEW failed \in SUBSET Sockets, RaplMeasure(failed)
        PROVE  TypeInv'
    <2>1. ASSUME NEW i \in Sockets PROVE delta(i) \in Nat
      BY <1>a DEF delta, TypeOK, RaplTypeOK
    <2>2. actual_power' \in Nat
      <3>1. delta(0) \in Nat /\ delta(1) \in Nat
        BY <1>d, <2>1
      <3> QED
        BY <1>3, <3>1 DEF RaplMeasure
    <2>3. /\ prev_energy' \in [Sockets -> 0..(Wrap - 1)]
          /\ used' \in [Sockets -> Nat]
      BY <1>3, <1>a DEF RaplMeasure, TypeOK, RaplTypeOK
    <2> QED
      BY <1>3, <1>a, <1>b, <2>2, <2>3
      DEF RaplMeasure, TypeInv, TypeOK, RaplTypeOK, noqos, oracle, limits
  <1>4. CASE RaplReadBudget
    BY <1>4, <1>a, <1>b
    DEF RaplReadBudget, TypeInv, TypeOK, RaplTypeOK, noqos, oracle, energy, limits
  <1>5. CASE RaplUpdates
    <2>1. RaplTypeOK' /\ todo' \in Seq(Files)
      BY <1>5, <1>a, FilesOf, Zenon DEF RaplUpdates, TypeOK, RaplTypeOK, energy
    <2>2. TypeOK'
      BY <1>5, <1>a, <2>1 DEF RaplUpdates, TypeOK, noqos, oracle
    <2> QED
      BY <1>b, <2>1, <2>2 DEF TypeInv
  <1>6. CASE RaplKeeps
    BY <1>6, <1>a, <1>b
    DEF RaplKeeps, TypeInv, TypeOK, RaplTypeOK, noqos, oracle, energy, limits
  <1>7. CASE RaplWrite
    <2>1. Head(todo) \in Files /\ Tail(todo) \in Seq(Files)
      BY <1>7, <1>a DEF RaplWrite
    <2>2. limit_uw' \in [Files -> {per_socket_uw(b) : b \in Budgets \cup {0}}]
      BY <1>7, <1>a, <1>c, <2>1 DEF RaplWrite, TypeOK, RaplTypeOK
    <2>3. stale' \subseteq Files
      BY <1>7, <1>a, <2>1 DEF RaplWrite, TypeOK, RaplTypeOK
    <2> QED
      BY <1>7, <1>a, <1>b, <2>1, <2>2, <2>3
      DEF RaplWrite, TypeInv, TypeOK, RaplTypeOK, noqos, oracle, energy, loop
  <1>8. CASE RaplUpdated
    BY <1>8, <1>a, <1>b
    DEF RaplUpdated, TypeInv, TypeOK, RaplTypeOK, noqos, oracle, energy
  <1>9. CASE RaplEnds
    BY <1>9, <1>a, <1>b
    DEF RaplEnds, Ends, TypeInv, TypeOK, RaplTypeOK, noqos, oracle, energy, limits
  <1>10. ASSUME NEW i \in Sockets, NEW e \in Bursts, UseEnergy(i, e)
         PROVE  TypeInv'
    <2>1. e \in 1..Wrap
      OBVIOUS
    <2>2. /\ counter' \in [Sockets -> 0..(Wrap - 1)]
          /\ used' \in [Sockets -> Nat]
      <3> DEFINE c == IF counter[i] + e < Wrap THEN counter[i] + e
                      ELSE counter[i] + e - Wrap
      <3>1. counter[i] \in 0..(Wrap - 1) /\ used[i] \in Nat
        BY <1>a DEF TypeOK, RaplTypeOK
      <3>2. c \in 0..(Wrap - 1) /\ used[i] + e \in Nat
        BY <2>1, <3>1
      <3>3. /\ counter' = [counter EXCEPT ![i] = c]
            /\ used' = [used EXCEPT ![i] = used[i] + e]
        BY <1>10 DEF UseEnergy
      <3> HIDE DEF c
      <3> QED
        BY <1>a, <3>2, <3>3 DEF TypeOK, RaplTypeOK
    <2> QED
      BY <1>10, <1>a, <1>b, <2>2, SMTT(30)
      DEF UseEnergy, TypeInv, TypeOK, RaplTypeOK, noqos, oracle, limits, loop
  <1> QED
    BY <1>1, <1>2, <1>3, <1>4, <1>5, <1>6, <1>7, <1>8, <1>9, <1>10
    DEF RaplNext, RaplLoop

LEMMA TypeNext == TypeInv /\ [Next]_vars => TypeInv'
  <1> SUFFICES ASSUME TypeInv, [Next]_vars PROVE TypeInv'
    OBVIOUS
  <1>1. ASSUME UNCHANGED <<noqos, oracle, energy, limits>>,
               UNCHANGED <<cpu_max, loop, current_bandwidth>>,
               budget' \in Budgets \cup {NoBudget}
        PROVE  TypeInv'
    <2>1. RaplTypeOK' /\ todo' \in Seq(Files)
      BY <1>1, RaplKept
    <2>2. IsTable(power_data)' /\ IsTable(power_info)'
      BY <1>1, TablesKept
    <2>3. TypeOK'
      BY <1>1, <2>1 DEF TypeInv, TypeOK, loop, noqos, oracle
    <2> QED
      BY <2>1, <2>2, <2>3 DEF TypeInv
  <1>2. ASSUME NEW b \in Budgets, WriteBudget(b)
        PROVE  budget' \in Budgets \cup {NoBudget}
    BY <1>2 DEF WriteBudget
  <1>3. CASE UNCHANGED vars
    BY <1>1, <1>3 DEF vars, TypeInv, TypeOK
  <1> QED
    BY <1>1, <1>2, <1>3, TypeMS, TypeNQ, TypeOracle, TypeRapl DEF Next, WriteBudget

\* Whatever fails, the baselines write "max" or a quota between 1% and 100% to
\* cpu.max, and half of a budget, or 0, to the RAPL limits.
THEOREM BaselinesTypeCorrect == Spec => []TypeOK
  <1>1. TypeInv => TypeOK
    BY DEF TypeInv
  <1> QED
    BY <1>1, TypeInit, TypeNext, PTL DEF Spec

-----------------------------------------------------------------------------
(* MS.                                                                     *)

\* A thread of the MS controller that is past its first decision knows the
\* limit in force, whatever ended the threads before it.
THEOREM MSThreadKnowsLimit == Spec => []MSKnowsLimit
  <1>1. Init => MSKnowsLimit
    BY DEF Init, FilesInit, MSKnowsLimit
  <1>2. MSKnowsLimit /\ [Next]_vars => MSKnowsLimit'
    <2> SUFFICES ASSUME MSKnowsLimit, [Next]_vars PROVE MSKnowsLimit'
      OBVIOUS
    <2>1. CASE running # "ms" /\ running' # "ms"
      BY <2>1 DEF MSKnowsLimit
    <2>2. CASE MSNext
      BY <2>2
      DEF MSKnowsLimit, MSNext, MSStart, MSThreadStarts, MSLoop, MSMeasure, MSReadBudget,
          MSControl, MSLog, MSThreadDies, MSSignal, Ends
    <2>3. CASE UNCHANGED <<cpu_max, running, current_bandwidth>>
      BY <2>3 DEF MSKnowsLimit
    <2>4. CASE OracleNext
      <3>1. running # "ms" /\ running' # "ms"
        BY <2>4 DEF OracleNext, CollectStart, Collecting, CollectSets, CollectMeasures,
          CollectOpens, CollectDumps, CollectEnds, OracleStart, OracleLoop,
          OracleReadBudget, OracleSelects, OracleFlush, OracleMeasure, OracleDies,
          OracleSignal, Ends
      <3> QED
        BY <2>1, <3>1
    <2>5. CASE RaplNext
      <3>1. running # "ms" /\ running' # "ms"
        BY <2>5 DEF RaplNext, RaplStart, RaplLoop, RaplInitEnergy, RaplMeasure,
          RaplReadBudget, RaplUpdates, RaplKeeps, RaplWrite, RaplUpdated, RaplEnds,
          UseEnergy, Ends, loop
      <3> QED
        BY <2>1, <3>1
    <2>6. CASE NQNext
      BY <2>1, <2>6, NQRunning
    <2> QED
      BY <2>2, <2>3, <2>4, <2>5, <2>6 DEF Next, WriteBudget, vars, loop
  <1> QED
    BY <1>1, <1>2, PTL DEF Spec

-----------------------------------------------------------------------------
(* PIP without priorities.                                                 *)

LEMMA NQKnowsNext == NQKnowsLimit /\ [Next]_vars => NQKnowsLimit'
  <1> SUFFICES ASSUME NQKnowsLimit, [Next]_vars PROVE NQKnowsLimit'
    OBVIOUS
  <1>1. CASE running' # "noqos"
    BY <1>1 DEF NQKnowsLimit
  <1>2. CASE UNCHANGED <<cpu_max, running, current_bandwidth>>
    BY <1>2 DEF NQKnowsLimit, quota
  <1>3. CASE MSNext
    <2>1. running' \in {"ms", "done"}
      BY <1>3
      DEF MSNext, MSStart, MSLoop, MSMeasure, MSReadBudget, MSControl, MSLog,
          MSThreadDies, MSSignal, Ends
    <2> QED
      BY <1>1, <2>1
  <1>4. CASE OracleNext
    <2>1. running' \in {"collect", "collected", "oracle", "done"}
      BY <1>4 DEF OracleNext, CollectStart, Collecting, CollectSets, CollectMeasures,
        CollectOpens, CollectDumps, CollectEnds, OracleStart, OracleLoop,
        OracleReadBudget, OracleSelects, OracleFlush, OracleMeasure, OracleDies,
        OracleSignal, Ends
    <2> QED
      BY <1>1, <2>1
  <1>5. CASE RaplNext
    BY <1>1, <1>2, <1>5 DEF RaplNext, RaplStart, RaplLoop, RaplInitEnergy, RaplMeasure,
      RaplReadBudget, RaplUpdates, RaplKeeps, RaplWrite, RaplUpdated, RaplEnds,
      UseEnergy, Ends, loop
  <1>6. CASE NQNext
    <2>1. ASSUME NEW t, Applies(t) PROVE NQKnowsLimit'
      BY <2>1 DEF Applies, set_cpu_limit, NQKnowsLimit, quota
    <2>2. CASE current_bandwidth' = THROTTLE_MAX
      BY <2>2 DEF NQKnowsLimit
    <2> QED
      BY <1>1, <1>2, <1>6, <2>1, <2>2
      DEF NQNext, NQStart, NQLoop, NQReadBudget, NQSkips, NQEnergySample, NQSample,
          NQStrictBaby, NQSearch, NQIncrease, NQKeeps, NQThreadDies, NQSignal, Ends
  <1> QED
    BY <1>2, <1>3, <1>4, <1>5, <1>6 DEF Next, WriteBudget, vars, loop

\* If writes succeed, a thread that does not believe the user cgroup
\* unthrottled knows the limit in force, whatever maps ended its predecessors.
THEOREM NQThreadKnowsLimit == Spec => []NQKnowsLimit
  <1>1. Init => NQKnowsLimit
    BY DEF Init, FilesInit, NQKnowsLimit
  <1> QED
    BY <1>1, NQKnowsNext, PTL DEF Spec

LEMMA QuotaMonotone ==
    ASSUME NEW a \in Nat, NEW b \in Nat, a <= b
    PROVE  quota(a) <= quota(b)
  <1>1. Cores \in Nat
    OBVIOUS
  <1> HIDE FilesAssumption, StepAssumption, RaplAssumption
  <1>2. \E d \in Nat : b = a + d
    <2>1. b - a \in Nat /\ b = a + (b - a)
      OBVIOUS
    <2> QED
      BY <2>1
  <1>3. PICK d \in Nat : b = a + d
    BY <1>2
  <1>4. Cores * d \in Nat /\ Cores * a \in Nat
    BY <1>1
  <1>5. Cores * (a + d) = Cores * a + Cores * d
    BY <1>1
  <1>6. (1000 * Cores) * a = 1000 * (Cores * a)
        /\ (1000 * Cores) * (a + d) = 1000 * (Cores * (a + d))
    BY <1>1
  <1> QED
    BY <1>3, <1>4, <1>5, <1>6 DEF quota

\* If writes succeed, a decision near or over the budget raises the limit of
\* the user cgroup only if it is the first of a thread or the thread had given
\* all bandwidth back: for every model and every sequence of thread deaths.
THEOREM NQStrictThrottles == Spec => NQRaisesOnlyWhenFresh
  <1> DEFINE A == running = "noqos" /\ NearBudget(actual_power)
                     /\ current_bandwidth # THROTTLE_MAX /\ ~WriteErrors
                     => cpu_max' <= cpu_max
  <1>1. TypeInv /\ NQKnowsLimit /\ [Next]_vars => [A]_cpu_max
    <2> SUFFICES ASSUME TypeInv, NQKnowsLimit, [Next]_vars, cpu_max' # cpu_max,
                        running = "noqos", NearBudget(actual_power),
                        current_bandwidth # THROTTLE_MAX, ~WriteErrors
                 PROVE  cpu_max' <= cpu_max
      OBVIOUS
    <2>1. /\ cpu_max = quota(current_bandwidth)
          /\ current_bandwidth \in 1..100
          /\ actual_power \in Nat /\ target_power \in Nat
      BY DEF NQKnowsLimit, TypeInv, TypeOK
    <2>2. ~BelowBudget(actual_power)
      BY <2>1 DEF NearBudget, BelowBudget
    <2>3. ASSUME NEW t \in 1..100, t <= current_bandwidth, Applies(t)
          PROVE  cpu_max' <= cpu_max
      <3>1. cpu_max' = quota(t)
        BY <2>3 DEF Applies, set_cpu_limit
      <3>2. t \in Nat /\ current_bandwidth \in Nat
        BY <2>1, <2>3
      <3> QED
        BY <2>1, <2>3, <3>1, <3>2, QuotaMonotone
    <2>4. CASE NQStrictBaby
      <3>1. ASSUME NEW d \in {5, 10}
            PROVE  /\ MaxOf(current_bandwidth - d, THROTTLE_MIN) \in 1..100
                   /\ MaxOf(current_bandwidth - d, THROTTLE_MIN) <= current_bandwidth
        BY <2>1 DEF MaxOf, THROTTLE_MIN
      <3> QED
        BY <2>3, <2>4, <3>1, Zenon DEF NQStrictBaby
    <2>5. ASSUME NEW t \in 1..THROTTLE_MAX, NQSearch(t) PROVE cpu_max' <= cpu_max
      <3>1. t \in 1..100 /\ t <= current_bandwidth
        BY <2>1, <2>5 DEF NQSearch, Candidates, THROTTLE_MAX, THROTTLE_MIN
      <3> QED
        BY <2>3, <2>5, <3>1, Zenon DEF NQSearch
    <2>6. NQLoop
      BY
      DEF Next, vars, WriteBudget, MSNext, MSStart, MSLoop, NQNext, NQStart, NQSignal,
        Ends, OracleNext, CollectStart, Collecting, CollectEnds, OracleStart, OracleLoop,
        OracleSignal, RaplNext, RaplStart, RaplLoop, RaplEnds, UseEnergy
    <2> QED
      BY <2>2, <2>4, <2>5, <2>6
      DEF NQLoop, NQReadBudget, NQSkips, NQEnergySample, NQSample, NQIncrease, NQKeeps,
          NQThreadDies
  <1>2. [A]_cpu_max => [running = "noqos" /\ NearBudget(actual_power)
                         /\ current_bandwidth # THROTTLE_MAX /\ ~WriteErrors
                         => cpu_max' <= cpu_max]_cpu_max
    OBVIOUS
  <1> QED
    BY <1>1, <1>2, TypeInit, TypeNext, NQThreadKnowsLimit, PTL
    DEF Spec, NQRaisesOnlyWhenFresh

-----------------------------------------------------------------------------
(* Oracle.                                                                 *)

LEMMA OracleInvNext == TypeInv /\ OracleInv /\ [Next]_vars => OracleInv'
  <1> SUFFICES ASSUME TypeInv, OracleInv, [Next]_vars PROVE OracleInv'
    BY SMTT(30)
  <1>1. CASE running' # "oracle"
    BY <1>1 DEF OracleInv
  <1>2. CASE UNCHANGED <<cpu_max, running, pc, target_power, oracle>>
    BY <1>2 DEF OracleInv, select_throttle, Fits, max_of, quota, oracle
  <1>3. CASE MSNext
    <2>1. running' # "oracle"
      BY <1>3
      DEF MSNext, MSStart, MSLoop, MSMeasure, MSReadBudget, MSControl, MSLog,
          MSThreadDies, MSSignal, Ends
    <2> QED
      BY <1>1, <2>1
  <1>4. CASE RaplNext
    <2>1. running' # "oracle"
      BY <1>4 DEF RaplNext, RaplStart, RaplLoop, RaplInitEnergy, RaplMeasure,
        RaplReadBudget, RaplUpdates, RaplKeeps, RaplWrite, RaplUpdated, RaplEnds,
        UseEnergy, Ends, loop
    <2> QED
      BY <1>1, <2>1
  <1>5. CASE OracleNext
    <2>1. CASE CollectStart \/ Collecting \/ CollectEnds \/ OracleSignal
      <3>1. running' # "oracle"
        BY <2>1, SMTT(30)
        DEF CollectStart, Collecting, CollectSets, CollectMeasures, CollectOpens,
          CollectDumps, CollectEnds, OracleSignal, Ends
      <3> QED
        BY <1>1, <3>1
    <2>2. CASE OracleStart
      BY <2>2, ZenonT(30) DEF OracleStart, OracleInv
    <2>3. CASE OracleReadBudget
      BY <2>3, Zenon DEF OracleReadBudget, OracleInv
    <2>4. CASE OracleSelects
      BY <2>4 DEF OracleSelects, OracleInv, select_throttle, Fits
    <2>5. CASE running = "oracle" /\ OracleFlush
      BY <2>5, SMTT(30) DEF OracleFlush, OracleInv, select_throttle, Fits, max_of, quota, oracle
    <2>6. CASE OracleMeasure
      BY <2>6, Zenon DEF OracleMeasure, OracleInv
    <2>7. CASE OracleDies
      BY <2>7, <1>1 DEF OracleDies, Ends
    <2> QED
      BY <1>5, <2>1, <2>2, <2>3, <2>4, <2>5, <2>6, <2>7 DEF OracleNext, OracleLoop
  <1>6. CASE NQNext
    BY <1>1, <1>6, NQRunning
  <1> QED
    BY <1>2, <1>3, <1>4, <1>5, <1>6 DEF Next, WriteBudget, vars, loop

LEMMA OracleInvSuffices == TypeInv /\ OracleInv => OracleWithinTable
  <1> SUFFICES ASSUME TypeInv, OracleInv, running = "oracle", pc = "measure"
               PROVE  \E l \in DOMAIN power_info :
                        /\ cpu_max = max_of(l)
                        /\ power_info[l] <= target_power
                              \/ \A m \in DOMAIN power_info : l <= m
                        /\ \A m \in DOMAIN power_info :
                              m > l => power_info[m] > target_power
    BY DEF OracleWithinTable
  <1>1. /\ level \in DOMAIN power_info
        /\ select_throttle(target_power, level)
        /\ cpu_max = max_of(level)
    BY DEF OracleInv
  <1>2. /\ DOMAIN power_info \subseteq 1..100
        /\ \A m \in DOMAIN power_info : power_info[m] \in Nat
        /\ target_power \in Nat
    BY DEF TypeInv, TypeOK, IsTable
  <1>3. power_info[level] <= target_power \/ \A m \in DOMAIN power_info : level <= m
    BY <1>1 DEF select_throttle, Fits
  <1>4. ASSUME NEW m \in DOMAIN power_info, m > level
        PROVE  power_info[m] > target_power
    <2>1. m \notin Fits(target_power)
      <3>1. SUFFICES ASSUME m \in Fits(target_power) PROVE FALSE
        OBVIOUS
      <3>2. m <= level
        BY <1>1, <3>1 DEF select_throttle
      <3>3. m \in 1..100 /\ level \in 1..100
        BY <1>1, <1>2
      <3> HIDE FilesAssumption, StepAssumption, RaplAssumption
      <3>4. m \in Int /\ level \in Int
        BY <3>3
      <3> QED
        BY <1>4, <3>2, <3>4, NotAbove
    <2> QED
      BY <1>2, <2>1 DEF Fits
  <1> QED
    BY <1>1, <1>3, <1>4

\* For every table, complete or not, the limit in force is the highest level
\* whose recorded power fits the budget read, or the lowest if none does.
THEOREM OracleAppliesTable == Spec => []OracleWithinTable
  <1>1. Init => OracleInv
    BY DEF Init, FilesInit, OracleInv
  <1> QED
    BY <1>1, TypeInit, TypeNext, OracleInvNext, OracleInvSuffices, PTL DEF Spec

-----------------------------------------------------------------------------
(* RAPL.                                                                   *)

LEMMA EnergyInvNext == TypeInv /\ EnergyInv /\ [Next]_vars => EnergyInv'
  <1> SUFFICES ASSUME TypeInv, EnergyInv, [Next]_vars PROVE EnergyInv'
    OBVIOUS
  <1>a. /\ counter \in [Sockets -> 0..(Wrap - 1)]
        /\ prev_energy \in [Sockets -> 0..(Wrap - 1)]
        /\ used \in [Sockets -> Nat]
    BY DEF TypeInv, TypeOK, RaplTypeOK
  <1>1. CASE UNCHANGED energy
    BY <1>1 DEF EnergyInv, energy
  <1>2. ASSUME NEW failed \in SUBSET Sockets, RaplInitEnergy(failed)
        PROVE  EnergyInv'
    BY <1>2, <1>a DEF RaplInitEnergy, EnergyInv
  <1>3. ASSUME NEW failed \in SUBSET Sockets, RaplMeasure(failed)
        PROVE  EnergyInv'
    BY <1>3, <1>a DEF RaplMeasure, EnergyInv
  <1>4. ASSUME NEW j \in Sockets, NEW e \in Bursts, UseEnergy(j, e)
        PROVE  EnergyInv'
    <2> SUFFICES ASSUME NEW i \in Sockets \ unread
                 PROVE  /\ counter'[i] >= prev_energy'[i]
                              => used'[i] >= counter'[i] - prev_energy'[i]
                        /\ counter'[i] < prev_energy'[i]
                              => used'[i] >= counter'[i] - prev_energy'[i] + Wrap
      BY <1>4 DEF UseEnergy, EnergyInv
    <2>1. e \in 1..Wrap /\ prev_energy' = prev_energy
      BY <1>4 DEF UseEnergy
    <2>2. CASE i # j
      <3>1. counter'[i] = counter[i] /\ used'[i] = used[i]
        BY <1>4, <1>a, <2>2 DEF UseEnergy
      <3> QED
        BY <2>1, <3>1 DEF EnergyInv
    <2>3. CASE i = j
      <3>1. /\ counter'[i] = IF counter[i] + e < Wrap THEN counter[i] + e
                             ELSE counter[i] + e - Wrap
            /\ used'[i] = used[i] + e
        BY <1>4, <1>a, <2>3 DEF UseEnergy
      <3>2. /\ counter[i] \in 0..(Wrap - 1) /\ prev_energy[i] \in 0..(Wrap - 1)
            /\ used[i] \in Nat
        BY <1>a
      <3>3. /\ counter[i] >= prev_energy[i] => used[i] >= counter[i] - prev_energy[i]
            /\ counter[i] < prev_energy[i]
                  => used[i] >= counter[i] - prev_energy[i] + Wrap
        BY DEF EnergyInv
      <3>4. prev_energy'[i] = prev_energy[i]
        BY <2>1
      <3>5. Wrap \in Nat
        OBVIOUS
      <3> HIDE FilesAssumption, StepAssumption, RaplAssumption
      <3> QED
        BY <2>1, <3>1, <3>2, <3>3, <3>4, <3>5, TurnCounted
    <2> QED
      BY <2>2, <2>3
  <1>5. CASE RaplStart
    BY <1>5 DEF RaplStart, EnergyInv
  <1>6. CASE RaplNext
    BY <1>1, <1>2, <1>3, <1>4, <1>5, <1>6
    DEF RaplNext, RaplLoop, RaplReadBudget, RaplUpdates, RaplKeeps, RaplWrite,
        RaplUpdated, RaplEnds
  <1> QED
    BY <1>1, <1>6 DEF Next, vars

\* For every range of the counters and every amount of energy used between two
\* readings, the loop never counts more energy than was used.
THEOREM EnergyCountedOnce == Spec => []EnergyNotOvercounted
  <1>1. Init => EnergyInv
    BY DEF Init, RaplInit, EnergyInv, Sockets
  <1>2. TypeInv /\ EnergyInv => EnergyNotOvercounted
    BY DEF TypeInv, TypeOK, RaplTypeOK, EnergyInv, EnergyNotOvercounted, delta
  <1> QED
    BY <1>1, <1>2, TypeInit, TypeNext, EnergyInvNext, PTL DEF Spec

LEMMA RaplInvNext == TypeInv /\ RaplInv /\ [Next]_vars => RaplInv'
  <1> SUFFICES ASSUME TypeInv, RaplInv, [Next]_vars PROVE RaplInv'
    OBVIOUS
  <1> USE DEF RaplInv, RaplLimitsFollow, per_socket_uw
  <1>1. CASE running' \notin {"none", "rapl"}
    BY <1>1
  <1>2. CASE UNCHANGED <<running, pc, target_power, limits>>
    BY <1>2 DEF limits
  <1>3. CASE MSNext
    <2>1. running' \in {"ms", "done"}
      BY <1>3
      DEF MSNext, MSStart, MSLoop, MSMeasure, MSReadBudget, MSControl, MSLog,
          MSThreadDies, MSSignal, Ends
    <2> QED
      BY <1>1, <2>1
  <1>4. CASE OracleNext
    <2>1. running' \in {"collect", "collected", "oracle", "done"}
      BY <1>4 DEF OracleNext, CollectStart, Collecting, CollectSets, CollectMeasures,
        CollectOpens, CollectDumps, CollectEnds, OracleStart, OracleLoop,
        OracleReadBudget, OracleSelects, OracleFlush, OracleMeasure, OracleDies,
        OracleSignal, Ends
    <2> QED
      BY <1>1, <2>1, SMTT(30)
  <1>5. CASE RaplStart
    <2>1. running' = "rapl" /\ pc' = "init" /\ stale' = Files
      BY <1>5 DEF RaplStart, limits
    <2> QED
      BY <2>1
  <1>6. CASE running = "rapl" /\ RaplLoop
    <2>1. ASSUME NEW failed \in SUBSET Sockets,
                 RaplInitEnergy(failed) \/ RaplMeasure(failed)
          PROVE  RaplInv'
      <3>1. running' = "rapl" /\ pc # "limits" /\ pc' # "limits" /\ UNCHANGED limits
        BY <1>6, <2>1 DEF RaplInitEnergy, RaplMeasure
      <3> QED
        BY <1>6, <3>1 DEF limits
    <2>2. CASE RaplReadBudget \/ RaplKeeps
      <3>1. running' = "rapl" /\ pc # "limits" /\ pc' # "limits" /\ UNCHANGED limits
        BY <1>6, <2>2 DEF RaplReadBudget, RaplKeeps
      <3> QED
        BY <1>6, <3>1 DEF limits
    <2>3. CASE RaplUpdates
      BY <1>6, <2>3, FilesOf DEF RaplUpdates
    <2>4. CASE RaplWrite
      <3>1. /\ running' = "rapl" /\ pc = "limits" /\ pc' = "limits"
            /\ target_power' = target_power /\ todo' = Tail(todo)
            /\ todo # <<>> /\ todo \in Seq(Files)
        BY <1>6, <2>4 DEF RaplWrite, loop, TypeInv
      <3>2. ASSUME NEW f \in Files \ stale', \A k \in 1..Len(todo') : todo'[k] # f
            PROVE  limit_uw'[f] = per_socket_uw(target_power)
        <4>1. CASE f = Head(todo)
          BY <2>4, <3>2, <4>1 DEF RaplWrite, TypeInv, TypeOK, RaplTypeOK
        <4>2. CASE f # Head(todo)
          <5>1. limit_uw'[f] = limit_uw[f] /\ f \notin stale
            BY <2>4, <3>2, <4>2 DEF RaplWrite, TypeInv, TypeOK, RaplTypeOK
          <5>2. ASSUME NEW k \in 1..Len(todo) PROVE todo[k] # f
            <6>1. CASE k = 1
              BY <3>1, <4>2, <6>1
            <6>2. CASE k > 1
              <7>1. k - 1 \in 1..Len(todo') /\ todo'[k - 1] = todo[k]
                BY <3>1, <6>2
              <7> QED
                BY <3>2, <7>1
            <6> QED
              BY <3>1, <6>1, <6>2
          <5> QED
            BY <1>6, <3>1, <5>1, <5>2
        <4> QED
          BY <4>1, <4>2
      <3> QED
        BY <3>1, <3>2
    <2>5. CASE RaplUpdated
      BY <1>6, <2>5 DEF RaplUpdated, TypeInv
    <2> QED
      BY <1>6, <2>1, <2>2, <2>3, <2>4, <2>5 DEF RaplLoop
  <1>7. CASE RaplEnds
    BY <1>1, <1>7 DEF RaplEnds, Ends
  <1>8. ASSUME NEW i \in Sockets, NEW e \in Bursts, UseEnergy(i, e)
        PROVE  RaplInv'
    BY <1>2, <1>8, SMTT(30) DEF UseEnergy, loop
  <1>9. CASE RaplNext
    BY <1>5, <1>6, <1>7, <1>8, <1>9 DEF RaplNext, RaplLoop
  <1>10. CASE NQNext
    BY <1>1, <1>10, NQRunning
  <1> QED
    BY <1>2, <1>3, <1>4, <1>9, <1>10 DEF Next, WriteBudget, vars, loop

\* For every list of limit files and every pattern of failing writes, a file
\* whose last write succeeded holds half of the budget read last.
THEOREM RaplFilesFollow == Spec => []RaplLimitsFollow
  <1>1. Init => RaplInv
    BY DEF Init, FilesInit, RaplInit, RaplInv, RaplLimitsFollow
  <1>2. RaplInv => RaplLimitsFollow
    BY DEF RaplInv
  <1> QED
    BY <1>1, <1>2, TypeInit, TypeNext, RaplInvNext, PTL DEF Spec

-----------------------------------------------------------------------------
(* Liveness.  What the code's scheduling guarantees is stated on the program *)
(* counter: no call in the loop blocks for ever, so the loop always leaves   *)
(* the location it is at.  These follow from the fairness of FairSpec.       *)

\* A step that other controllers take does not reach a controller at work.
LEMMA OnlyMS ==
    ASSUME running = "ms", running' = "ms", [Next]_vars
    PROVE  MSLoop \/ UNCHANGED <<cpu_max, loop, current_bandwidth>>
  <1>1. CASE MSNext
    BY <1>1 DEF MSNext, MSStart, MSSignal, Ends
  <1>2. CASE NQNext
    BY <1>2 DEF NQNext, NQStart, NQLoop
  <1>3. CASE OracleNext
    BY <1>3 DEF OracleNext, CollectStart, Collecting, OracleStart, OracleLoop
  <1>4. CASE RaplNext
    BY <1>4 DEF RaplNext, RaplStart, RaplLoop, UseEnergy
  <1> QED
    BY <1>1, <1>2, <1>3, <1>4 DEF Next, WriteBudget, vars

\* An MS controller that logs and goes on, and whose decisions from some point
\* on all find the power above the budget, ends up with the user cgroup at 5%:
\* whatever threads die on the way, for every number of cores, every leftover
\* limit and every set of budgets and powers.
THEOREM MSThrottlesInTheEnd == Spec /\ []<>(pc # "print") => MSOverloadThrottles
  <1> DEFINE Low == cpu_max = quota(5)
  <1>1. MSDecidesAbove /\ MSDecidesAbove' /\ [Next]_vars /\ Low => Low'
    BY OnlyMS DEF MSDecidesAbove, MSLoop, MSMeasure, MSReadBudget, MSControl, ms_control,
      MSLog, MSThreadDies, quota
  <1>2. MSDecidesAbove /\ MSDecidesAbove' /\ [Next]_vars /\ pc # "print" /\ (pc = "print")'
            => Low'
    BY OnlyMS DEF MSDecidesAbove, MSLoop, MSMeasure, MSReadBudget, MSControl, ms_control,
      MSLog, MSThreadDies, MSThreadStarts, quota, loop
  <1>3. pc # "print" <=> ~(pc = "print")
    OBVIOUS
  <1> QED
    BY <1>1, <1>2, <1>3, PTL DEF Spec, MSOverloadThrottles, MSDecides

LEMMA OnlyOracle ==
    ASSUME running = "oracle", running' = "oracle", [Next]_vars
    PROVE  \/ OracleLoop /\ budget' = budget
           \/ \E b \in Budgets : WriteBudget(b) /\ UNCHANGED oracle
           \/ UNCHANGED <<budget, cpu_max, loop, oracle>>
  <1>1. CASE MSNext
    BY <1>1 DEF MSNext, MSStart, MSLoop
  <1>2. CASE NQNext
    BY <1>2 DEF NQNext, NQStart, NQLoop
  <1>3. CASE OracleNext
    <2>1. OracleLoop
      BY <1>3 DEF OracleNext, CollectStart, Collecting, CollectEnds, OracleStart, OracleSignal, Ends
    <2> QED
      BY <2>1 DEF OracleLoop, OracleReadBudget, OracleSelects, OracleFlush, OracleMeasure,
        OracleDies, Ends
  <1>4. CASE RaplNext /\ UNCHANGED oracle
    BY <1>4 DEF RaplNext, RaplStart, RaplLoop, RaplEnds, UseEnergy
  <1> QED
    BY <1>1, <1>2, <1>3, <1>4 DEF Next, vars

\* The loop of the Oracle, its budget readable before and after a step.
LEMMA OracleUndisturbedStep ==
    ASSUME OracleUndisturbed, OracleUndisturbed', [Next]_vars
    PROVE  /\ budget' = budget /\ power_info' = power_info
           /\ \/ OracleReadBudget \/ OracleSelects \/ OracleFlush \/ OracleMeasure
              \/ UNCHANGED <<cpu_max, loop, level>>
  <1>1. CASE OracleLoop /\ budget' = budget
    BY <1>1 DEF OracleUndisturbed, OracleLoop, OracleReadBudget, OracleSelects, OracleFlush,
      OracleMeasure, OracleDies, Ends, oracle
  <1>2. ASSUME NEW b \in Budgets, WriteBudget(b) PROVE FALSE
    BY <1>2 DEF OracleUndisturbed, WriteBudget
  <1> QED
    BY <1>1, <1>2, OnlyOracle DEF OracleUndisturbed, oracle

\* No call of the Oracle's loop blocks for ever.
OracleMoves ==
    /\ []<>(pc # "budget" \/ budget = NoBudget)
    /\ []<>(pc # "select") /\ []<>(pc # "flush") /\ []<>(pc # "measure")

OraclePlaces == running = "oracle" => pc \in {"budget", "select", "flush", "measure"}

LEMMA OraclePlacesNext == OraclePlaces /\ [Next]_vars => OraclePlaces'
  <1> SUFFICES ASSUME OraclePlaces, [Next]_vars, running' = "oracle" PROVE OraclePlaces'
    BY SMTT(30) DEF OraclePlaces
  <1>1. CASE running = "oracle"
    BY <1>1, OnlyOracle, Zenon DEF OraclePlaces, OracleLoop, OracleReadBudget, OracleSelects,
      OracleFlush, OracleMeasure, OracleDies, Ends, WriteBudget, loop
  <1>2. CASE running # "oracle"
    <2>1. CASE OracleNext
      BY <1>2, <2>1 DEF OraclePlaces, OracleNext, CollectStart, Collecting, CollectSets,
        CollectMeasures, CollectOpens, CollectDumps, CollectEnds, OracleStart, OracleLoop,
        OracleSignal, Ends
    <2>2. CASE MSNext
      BY <1>2, <2>2, SMTT(30)
      DEF MSNext, MSStart, MSLoop, MSMeasure, MSReadBudget, MSControl, MSLog,
        MSThreadDies, MSSignal, Ends
    <2>3. CASE RaplNext
      BY <1>2, <2>3 DEF RaplNext, RaplStart, RaplLoop, RaplInitEnergy, RaplMeasure,
        RaplReadBudget, RaplUpdates, RaplKeeps, RaplWrite, RaplUpdated, RaplEnds,
        UseEnergy, Ends, loop
    <2>4. CASE NQNext
      BY <2>4, NQRunning
    <2> QED
      BY <1>2, <2>1, <2>2, <2>3, <2>4 DEF Next, WriteBudget, vars, loop
  <1> QED
    BY <1>1, <1>2

\* Once the budget file is left alone, an Oracle that moves on reads it, selects
\* for it and puts the selection into force for good: for every table, however
\* the file was caught before and whatever the limit was.
THEOREM OracleSettlesInTheEnd == Spec /\ OracleMoves => OracleSettles
  <1> DEFINE Knows == target_power = budget
             Selected == level \in DOMAIN power_info /\ select_throttle(budget, level)
             At(l) == pc = l
             Lost == budget = NoBudget
             Step2 == OracleUndisturbed /\ OracleUndisturbed' /\ [Next]_vars
  <1>a. Step2 => /\ Knows => Knows'
                 /\ At("budget") => At("budget")' \/ (At("select")' /\ Knows')
    BY OracleUndisturbedStep, SMTT(30) DEF OracleReadBudget, OracleSelects, OracleFlush,
      OracleMeasure, loop
  <1>b. Step2 => /\ Knows /\ Selected => Selected'
                 /\ At("select") => At("select")' \/ At("flush")'
                 /\ At("select") /\ Knows /\ ~At("select")' => Selected'
    BY OracleUndisturbedStep DEF OracleReadBudget, OracleSelects, OracleFlush,
      OracleMeasure, loop, select_throttle, Fits, oracle
  <1>c. Step2 => /\ OracleApplied /\ ~At("flush") => OracleApplied'
                 /\ At("flush") => At("flush")' \/ At("measure")'
                 /\ At("flush") /\ Selected /\ ~At("flush")' => OracleApplied'
                 /\ At("flush") /\ At("flush")' /\ OracleApplied => OracleApplied'
    <2> SUFFICES ASSUME Step2
                 PROVE  /\ OracleApplied /\ ~At("flush") => OracleApplied'
                        /\ At("flush") => At("flush")' \/ At("measure")'
                        /\ At("flush") /\ Selected /\ ~At("flush")' => OracleApplied'
                        /\ At("flush") /\ At("flush")' /\ OracleApplied => OracleApplied'
      OBVIOUS
    <2>1. budget' = budget /\ power_info' = power_info
      BY OracleUndisturbedStep
    <2>2. cpu_max' = cpu_max /\ OracleApplied => OracleApplied'
      BY <2>1 DEF OracleApplied, select_throttle, Fits, max_of, quota
    <2>3. OracleFlush /\ Selected => OracleApplied'
      BY <2>1 DEF OracleApplied, OracleFlush, oracle, select_throttle, Fits, max_of, quota
    <2>4. \/ OracleFlush /\ At("measure")'
          \/ cpu_max' = cpu_max /\ (At("flush") => At("flush")')
      BY OracleUndisturbedStep DEF OracleReadBudget, OracleSelects, OracleFlush,
        OracleMeasure, loop
    <2>5. OracleFlush => At("flush")
      BY DEF OracleFlush
    <2>6. ~(At("measure")' /\ At("flush")')
      OBVIOUS
    <2> HIDE DEF At, Selected
    <2> QED
      BY <2>2, <2>3, <2>4, <2>5, <2>6
  <1>d. Step2 => (At("measure") => At("measure")' \/ At("budget")')
    BY OracleUndisturbedStep DEF OracleReadBudget, OracleSelects, OracleFlush,
      OracleMeasure, loop
  <1>e. OracleUndisturbed /\ OraclePlaces
            => At("budget") \/ At("select") \/ At("flush") \/ At("measure")
    BY DEF OracleUndisturbed, OraclePlaces
  <1>f. OracleUndisturbed => ~Lost
    BY DEF OracleUndisturbed
  <1>g. Init => OraclePlaces
    BY DEF Init, FilesInit, OraclePlaces
  <1>h. /\ pc # "budget" \/ budget = NoBudget <=> ~At("budget") \/ Lost
        /\ pc # "select" <=> ~At("select")
        /\ pc # "flush" <=> ~At("flush")
        /\ pc # "measure" <=> ~At("measure")
    OBVIOUS
  <1> QED
    BY <1>a, <1>b, <1>c, <1>d, <1>e, <1>f, <1>g, <1>h, OraclePlacesNext, PTL
    DEF Spec, OracleMoves, OracleSettles

LEMMA OnlyRapl ==
    ASSUME running = "rapl", running' = "rapl", [Next]_vars
    PROVE  \/ RaplLoop /\ budget' = budget
           \/ \E b \in Budgets : WriteBudget(b) /\ UNCHANGED limits
           \/ UNCHANGED <<budget, loop, limits>>
  <1>1. CASE MSNext
    BY <1>1 DEF MSNext, MSStart, MSLoop
  <1>2. CASE NQNext
    BY <1>2 DEF NQNext, NQStart, NQLoop
  <1>3. CASE OracleNext
    BY <1>3, SMTT(30) DEF OracleNext, CollectStart, Collecting, OracleStart, OracleLoop
  <1>4. CASE RaplNext
    <2>1. RaplLoop \/ \E i \in Sockets, e \in Bursts : UseEnergy(i, e)
      BY <1>4 DEF RaplNext, RaplStart, RaplEnds, Ends
    <2> QED
      BY <2>1 DEF RaplLoop, RaplInitEnergy, RaplMeasure, RaplReadBudget, RaplUpdates,
        RaplKeeps, RaplWrite, RaplUpdated, UseEnergy
  <1> QED
    BY <1>1, <1>2, <1>3, <1>4 DEF Next, vars

RaplPlaces ==
    running = "rapl" => pc \in {"init", "sleep", "budget", "compare", "limits"}

\* In the middle of an update every file that could be written holds the old or
\* the new budget.
RaplMixed ==
    running = "rapl" /\ pc = "limits" =>
        \A f \in Files \ stale :
            limit_uw[f] \in {per_socket_uw(target_power), per_socket_uw(last_budget)}

LEMMA RaplBegins ==
    ASSUME running # "rapl", running' = "rapl", [Next]_vars
    PROVE  pc' = "init"
  <1>1. CASE OracleNext
    BY <1>1 DEF OracleNext, CollectStart, Collecting, CollectSets, CollectMeasures,
      CollectOpens, CollectDumps, CollectEnds, OracleStart, OracleLoop, OracleReadBudget,
      OracleSelects, OracleFlush, OracleMeasure, OracleDies, OracleSignal, Ends
  <1>2. CASE MSNext
    BY <1>2 DEF MSNext, MSStart, MSLoop, MSMeasure, MSReadBudget, MSControl, MSLog,
      MSThreadDies, MSSignal, Ends
  <1>3. CASE RaplNext
    BY <1>3 DEF RaplNext, RaplStart, RaplLoop, RaplEnds, UseEnergy, Ends, loop
  <1>4. CASE NQNext
    BY <1>4, NQRunning
  <1> QED
    BY <1>1, <1>2, <1>3, <1>4, SMTT(30) DEF Next, WriteBudget, vars, loop

LEMMA RaplPlacesNext == RaplPlaces /\ [Next]_vars => RaplPlaces'
  <1> SUFFICES ASSUME RaplPlaces, [Next]_vars, running' = "rapl" PROVE RaplPlaces'
    BY SMTT(30) DEF RaplPlaces
  <1>1. CASE running = "rapl"
    BY <1>1, OnlyRapl DEF RaplPlaces, RaplLoop, RaplInitEnergy, RaplMeasure, RaplReadBudget,
      RaplUpdates, RaplKeeps, RaplWrite, RaplUpdated, WriteBudget, loop
  <1>2. CASE running # "rapl"
    BY <1>2, RaplBegins DEF RaplPlaces
  <1> QED
    BY <1>1, <1>2

LEMMA RaplMixedNext ==
    TypeInv /\ RaplInv /\ RaplMixed /\ RaplPlaces /\ [Next]_vars => RaplMixed'
  <1> SUFFICES ASSUME TypeInv, RaplInv, RaplMixed, RaplPlaces, [Next]_vars,
                      running' = "rapl", pc' = "limits"
               PROVE  RaplMixed'
    BY DEF RaplMixed
  <1>1. CASE running = "rapl"
    <2>1. CASE UNCHANGED <<loop, limits>>
      BY <1>1, <2>1 DEF RaplMixed, loop, limits, per_socket_uw
    <2>2. CASE RaplUpdates
      BY <1>1, <2>2 DEF RaplMixed, RaplUpdates, RaplInv, RaplLimitsFollow, per_socket_uw
    <2>3. CASE RaplWrite
      <3>1. /\ target_power' = target_power /\ last_budget' = last_budget /\ pc = "limits"
            /\ Head(todo) \in Files
            /\ limit_uw \in [Files -> {per_socket_uw(b) : b \in Budgets \cup {0}}]
        BY <2>3 DEF RaplWrite, loop, TypeInv, TypeOK, RaplTypeOK
      <3>2. ASSUME NEW f \in Files \ stale'
            PROVE  limit_uw'[f] \in {per_socket_uw(target_power), per_socket_uw(last_budget)}
        <4>1. CASE f = Head(todo)
          BY <2>3, <3>1, <3>2, <4>1 DEF RaplWrite
        <4>2. CASE f # Head(todo)
          <5>1. limit_uw'[f] = limit_uw[f] /\ f \notin stale
            BY <2>3, <3>1, <3>2, <4>2 DEF RaplWrite
          <5> QED
            BY <1>1, <3>1, <5>1 DEF RaplMixed
        <4> QED
          BY <4>1, <4>2
      <3> QED
        BY <3>1, <3>2 DEF RaplMixed, per_socket_uw
    <2>4. RaplLoop => RaplUpdates \/ RaplWrite
      BY DEF RaplLoop, RaplInitEnergy, RaplMeasure, RaplReadBudget, RaplKeeps, RaplUpdated
    <2> QED
      BY <1>1, <2>1, <2>2, <2>3, <2>4, OnlyRapl DEF WriteBudget
  <1>2. CASE running # "rapl"
    BY <1>2, RaplBegins
  <1> QED
    BY <1>1, <1>2, SMTT(30)

\* No call of the RAPL loop blocks for ever, and set_limits comes to the end of
\* its list of files.
RaplMoves ==
    /\ []<>(pc # "init") /\ []<>(pc # "sleep")
    /\ []<>(pc # "budget" \/ running # "rapl")
    /\ []<>(pc # "compare") /\ []<>(pc # "limits")

\* Once the budget file is left alone, a RAPL loop that moves on brings its
\* budget into force for good, in every limit file that can be written: for
\* every list of files, every pattern of failing reads and writes, and however
\* the budget file was caught before.
THEOREM RaplSettlesInTheEnd == Spec /\ RaplMoves => RaplSettles
  <1> DEFINE Knows == target_power = budget
             Applied == last_budget = budget
             At(l) == pc = l
             Step2 == RaplUndisturbed /\ RaplUndisturbed' /\ [Next]_vars
  <1>1. Step2 =>
            /\ Knows => Knows'
            /\ Knows /\ Applied => Applied'
            /\ At("init") => At("init")' \/ At("sleep")'
            /\ At("sleep") => At("sleep")' \/ At("budget")'
            /\ At("budget") => At("budget")' \/ (At("compare")' /\ Knows')
            /\ At("compare") =>
                   At("compare")' \/ At("limits")' \/ (At("sleep")' /\ (Knows => Applied'))
            /\ At("limits") => At("limits")' \/ (At("sleep")' /\ (Knows => Applied'))
    <2> SUFFICES ASSUME Step2
                 PROVE  /\ Knows => Knows'
                        /\ Knows /\ Applied => Applied'
                        /\ At("init") => At("init")' \/ At("sleep")'
                        /\ At("sleep") => At("sleep")' \/ At("budget")'
                        /\ At("budget") => At("budget")' \/ (At("compare")' /\ Knows')
                        /\ At("compare") => \/ At("compare")' \/ At("limits")'
                                            \/ At("sleep")' /\ (Knows => Applied')
                        /\ At("limits") => \/ At("limits")'
                                           \/ At("sleep")' /\ (Knows => Applied')
      OBVIOUS
    <2>1. budget # NoBudget /\ running = "rapl" /\ running' = "rapl"
      BY DEF RaplUndisturbed
    <2>2. ASSUME NEW b \in Budgets, WriteBudget(b) PROVE FALSE
      BY <2>2 DEF RaplUndisturbed, WriteBudget
    <2>3. budget' = budget /\ (RaplLoop \/ UNCHANGED <<loop, limits>>)
      BY <2>1, <2>2, OnlyRapl
    <2>4. CASE UNCHANGED <<loop, limits>>
      BY <2>3, <2>4 DEF loop, limits
    <2>5. ASSUME NEW failed \in SUBSET Sockets, RaplInitEnergy(failed) \/ RaplMeasure(failed)
          PROVE  /\ UNCHANGED <<target_power, last_budget>>
                 /\ \/ At("init") /\ At("sleep")'
                    \/ At("sleep") /\ At("budget")'
      BY <2>5 DEF RaplInitEnergy, RaplMeasure, limits
    <2>6. CASE RaplReadBudget
      BY <2>1, <2>3, <2>6 DEF RaplReadBudget, limits
    <2>7. CASE RaplUpdates \/ RaplKeeps
      BY <2>3, <2>7 DEF RaplUpdates, RaplKeeps, RaplChanged, limits
    <2>8. CASE RaplWrite \/ RaplUpdated
      BY <2>3, <2>8 DEF RaplWrite, RaplUpdated, loop
    <2> QED
      BY <2>3, <2>4, <2>5, <2>6, <2>7, <2>8 DEF RaplLoop
  <1>2. RaplUndisturbed /\ RaplPlaces
            => At("init") \/ At("sleep") \/ At("budget") \/ At("compare") \/ At("limits")
    BY SMTT(30) DEF RaplUndisturbed, RaplPlaces
  <1>3. RaplUndisturbed /\ RaplInv /\ RaplMixed /\ Knows /\ Applied => RaplApplied
    BY DEF RaplUndisturbed, RaplInv, RaplLimitsFollow, RaplMixed, RaplApplied
  <1>4. Init => RaplInv /\ RaplPlaces /\ RaplMixed
    BY DEF Init, FilesInit, RaplInit, RaplInv, RaplLimitsFollow, RaplPlaces, RaplMixed
  <1>5. /\ pc # "init" <=> ~At("init")
        /\ pc # "sleep" <=> ~At("sleep")
        /\ RaplUndisturbed => (pc # "budget" \/ running # "rapl" <=> ~At("budget"))
        /\ pc # "compare" <=> ~At("compare")
        /\ pc # "limits" <=> ~At("limits")
    BY DEF RaplUndisturbed
  <1> QED
    BY <1>1, <1>2, <1>3, <1>4, <1>5, TypeInit, TypeNext, RaplInvNext, RaplPlacesNext,
       RaplMixedNext, PTL
    DEF Spec, RaplMoves, RaplSettles

-----------------------------------------------------------------------------
(* Progress of the controller without priorities.                          *)

\* Every decision on complete maps makes progress: near or over the budget the
\* throttle falls unless it is at the minimum, below the budget it rises unless
\* it is at the maximum.  So it takes finitely many decisions to get to either.
NQDecisionsProgress ==
    [][running = "noqos" /\ running' = "noqos" /\ pc = "control" /\ pc' = "budget" /\ maps_ok
           => /\ NearBudget(actual_power) =>
                     \/ current_bandwidth' < current_bandwidth
                     \/ current_bandwidth' = THROTTLE_MIN
              /\ BelowBudget(actual_power) =>
                     \/ current_bandwidth' > current_bandwidth
                     \/ current_bandwidth' = THROTTLE_MAX]_vars

LEMMA NearNotBelow ==
    ASSUME target_power \in Nat, actual_power \in Nat
    PROVE  ~(NearBudget(actual_power) /\ BelowBudget(actual_power))
  BY DEF NearBudget, BelowBudget

\* For every set of budgets and powers and whatever the searches accept.
THEOREM NQEveryDecisionProgresses == Spec => NQDecisionsProgress
  <1> DEFINE Progress ==
          /\ NearBudget(actual_power) =>
                 \/ current_bandwidth' < current_bandwidth
                 \/ current_bandwidth' = THROTTLE_MIN
          /\ BelowBudget(actual_power) =>
                 \/ current_bandwidth' > current_bandwidth
                 \/ current_bandwidth' = THROTTLE_MAX
             At == running = "noqos" /\ running' = "noqos" /\ pc = "control"
                   /\ pc' = "budget" /\ maps_ok
  <1>1. TypeInv /\ [Next]_vars => [At => Progress]_vars
    <2> SUFFICES ASSUME TypeInv, Next, At PROVE Progress
      BY DEF vars
    <2>1. target_power \in Nat /\ actual_power \in Nat /\ current_bandwidth \in 1..100
      BY DEF TypeInv, TypeOK
    <2> HIDE FilesAssumption, StepAssumption, RaplAssumption
    <2> USE DEF THROTTLE_MAX, THROTTLE_MIN, MinOf, MaxOf, Strict, BabyStep, Search, Applies
    <2>2. CASE NQStrictBaby
      BY <2>1, <2>2, NearNotBelow DEF NQStrictBaby
    <2>3. ASSUME NEW t \in 1..THROTTLE_MAX, NQSearch(t) PROVE Progress
      BY <2>1, <2>3, NearNotBelow DEF NQSearch, Candidates
    <2>4. ASSUME NEW t \in 1..THROTTLE_MAX, NQIncrease(t) PROVE Progress
      BY <2>1, <2>4, NearNotBelow DEF NQIncrease
    <2>5. CASE NQKeeps
      BY <2>1, <2>5, NearNotBelow DEF NQKeeps
    <2>6. NQLoop
      <3>1. CASE MSNext
        BY <3>1 DEF MSNext, MSStart, MSLoop
      <3>2. CASE NQNext
        BY <3>2 DEF NQNext, NQStart, NQSignal, Ends
      <3>3. CASE OracleNext
        BY <3>3 DEF OracleNext, CollectStart, Collecting, OracleStart, OracleLoop
      <3>4. CASE RaplNext
        BY <3>4 DEF RaplNext, RaplStart, RaplLoop, RaplEnds, UseEnergy, loop
      <3> QED
        BY <3>1, <3>2, <3>3, <3>4 DEF Next, WriteBudget, loop
    <2>7. NQStrictBaby \/ (\E t \in 1..THROTTLE_MAX : NQSearch(t) \/ NQIncrease(t)) \/ NQKeeps
      BY <2>6 DEF NQLoop, NQReadBudget, NQSkips, NQEnergySample, NQSample, NQThreadDies
    <2> QED
      BY <2>2, <2>3, <2>4, <2>5, <2>7
  <1> QED
    BY <1>1, TypeInit, TypeNext, PTL DEF Spec, NQDecisionsProgress

-----------------------------------------------------------------------------
(* A throttle that never moves away from its goal settles.                 *)

\* How far the throttle is from where the controller drives it.
Left == IF running = "noqos" THEN current_bandwidth ELSE THROTTLE_MAX - current_bandwidth

Distance == INSTANCE Settling WITH n <- Left

LEMMA WithinBits ==
    ASSUME NEW x \in 1..100
    PROVE  /\ x \in Nat /\ x < 128 * 128
           /\ 100 - x \in Nat /\ 100 - x < 128 * 128
  OBVIOUS

LEMMA LeftRange == TypeInv => Left \in Nat /\ Left < 128 * 128
  BY WithinBits DEF TypeInv, TypeOK, Left, THROTTLE_MAX

\* An MS controller that logs and goes on, and whose decisions from some point
\* on all find the power within the budget, ends up with the user cgroup at
\* 100%, one point at a time from whatever limit was in force.
THEOREM MSRecoversInTheEnd == Spec /\ []<>(pc # "print") => MSSlackRecovers
  <1> DEFINE Recovered == current_bandwidth = THROTTLE_MAX /\ cpu_max = quota(THROTTLE_MAX)
             Slack == MSDecidesBelow /\ MSDecidesBelow' /\ TypeInv /\ [Next]_vars
  <1>1. ASSUME Slack
        PROVE  /\ [Left' <= Left]_Left
               /\ Recovered => Recovered'
               /\ pc # "print" /\ (pc = "print")' => Recovered' \/ Left' # Left
    <2>1. current_bandwidth \in 1..100 /\ actual_power \in Nat /\ target_power \in Nat
      BY <1>1 DEF TypeInv, TypeOK
    <2>2. running = "ms" /\ running' = "ms"
      BY <1>1 DEF MSDecidesBelow
    <2>3. CASE MSControl
      <3>1. cpu_max' = quota(ms_control) /\ current_bandwidth' = ms_control
        BY <2>3 DEF MSControl
      <3>2. ms_control = IF current_bandwidth < 100 THEN current_bandwidth + 1 ELSE 100
        BY <1>1, <2>1, <2>3 DEF MSControl, MSDecidesBelow, ms_control, MinOf, THROTTLE_MAX
      <3> QED
        BY <2>1, <2>2, <3>1, <3>2 DEF Left, THROTTLE_MAX, quota
    <2>4. CASE (current_bandwidth' = current_bandwidth \/ current_bandwidth' = 100)
               /\ cpu_max' = cpu_max /\ (pc = "print" \/ pc' # "print")
      BY <2>1, <2>2, <2>4 DEF Left, THROTTLE_MAX, quota
    <2> QED
      BY <1>1, <2>2, <2>3, <2>4, OnlyMS DEF MSLoop, MSMeasure, MSReadBudget, MSLog,
        MSThreadDies, MSThreadStarts, loop, THROTTLE_MAX
  <1>2. /\ pc # "print" <=> ~(pc = "print")
        /\ Recovered => cpu_max = quota(THROTTLE_MAX)
    OBVIOUS
  <1>3. Slack =>
            /\ [Left' <= Left]_Left
            /\ Recovered => Recovered'
            /\ pc # "print" /\ (pc = "print")' => Recovered' \/ Left' # Left
    BY <1>1
  <1>4. Slack /\ [FALSE]_Left /\ ~(pc = "print") /\ (pc = "print")' => Recovered'
    BY <1>3
  <1>5. Slack /\ Recovered => Recovered'
    BY <1>3
  <1> HIDE DEF Recovered
  <1>6. []TypeInv /\ [][Next]_vars /\ <>[]MSDecidesBelow => <>[][FALSE]_Left
    BY <1>3, LeftRange, Distance!Settles, PTL
  <1>7. []TypeInv /\ [][Next]_vars /\ []<>(pc # "print") /\ MSDecides /\ <>[]MSDecidesBelow
            => <>[]Recovered
    BY <1>2, <1>4, <1>5, <1>6, PTL DEF MSDecides
  <1> QED
    BY <1>2, <1>7, TypeInit, TypeNext, PTL DEF Spec, MSSlackRecovers

LEMMA OnlyNQ ==
    ASSUME running = "noqos", running' = "noqos", [Next]_vars
    PROVE  \/ NQLoop
           \/ UNCHANGED <<cpu_max, loop, current_bandwidth, noqos>>
  <1>1. CASE MSNext
    BY <1>1 DEF MSNext, MSStart, MSLoop
  <1>2. CASE NQNext
    BY <1>2 DEF NQNext, NQStart, NQSignal, Ends
  <1>3. CASE OracleNext
    BY <1>3 DEF OracleNext, CollectStart, Collecting, OracleStart, OracleLoop
  <1>4. CASE RaplNext
    BY <1>4 DEF RaplNext, RaplStart, RaplLoop, RaplEnds, UseEnergy
  <1> QED
    BY <1>1, <1>2, <1>3, <1>4 DEF Next, WriteBudget, vars

\* While writes to cpu.max succeed, a controller without priorities that gets
\* through its decisions, all of them from some point on near or over the budget
\* and on complete maps, ends up with the user cgroup at 1%: whatever its
\* searches accept and whatever limit it found in force.
THEOREM NQThrottlesInTheEnd ==
    ~WriteErrors => (Spec /\ []<>(pc # "control") => NQOverloadThrottles)
  <1> SUFFICES ASSUME ~WriteErrors
               PROVE  Spec /\ []<>(pc # "control") => NQOverloadThrottles
    OBVIOUS
  <1> DEFINE AtMin == current_bandwidth = THROTTLE_MIN
             Near == NQDecidesNear /\ NQDecidesNear' /\ TypeInv /\ [Next]_vars
  <1>1. ASSUME Near
        PROVE  /\ [Left' <= Left]_Left
               /\ AtMin => AtMin'
               /\ pc = "control" /\ (pc # "control")' => AtMin' \/ Left' # Left
    <2>1. current_bandwidth \in 1..100 /\ actual_power \in Nat /\ target_power \in Nat
      BY <1>1 DEF TypeInv, TypeOK
    <2>2. running = "noqos" /\ running' = "noqos"
      BY <1>1 DEF NQDecidesNear
    <2>3. pc = "control" => maps_ok /\ NearBudget(actual_power) /\ ~BelowBudget(actual_power)
      BY <1>1, <2>1, NearNotBelow DEF NQDecidesNear
    <2> HIDE FilesAssumption, StepAssumption, RaplAssumption
    <2>4. CASE NQStrictBaby
      BY <2>1, <2>2, <2>4 DEF NQStrictBaby, BabyStep, Strict, Applies, Left, THROTTLE_MIN, MaxOf
    <2>5. ASSUME NEW t \in 1..THROTTLE_MAX, NQSearch(t)
          PROVE  /\ [Left' <= Left]_Left
                 /\ AtMin => AtMin'
                 /\ AtMin' \/ Left' # Left
      BY <2>1, <2>2, <2>5 DEF NQSearch, Candidates, Applies, Left, THROTTLE_MIN, THROTTLE_MAX
    <2>6. CASE NQKeeps
      BY <2>1, <2>2, <2>3, <2>6 DEF NQKeeps, Left, THROTTLE_MIN
    <2>7. CASE current_bandwidth' = current_bandwidth /\ (pc # "control" \/ pc' = "control")
      BY <2>1, <2>2, <2>7 DEF Left
    <2>8. CASE NQLoop
      <3>1. ~NQThreadDies /\ \A t \in 1..THROTTLE_MAX : ~NQIncrease(t)
        BY <2>3 DEF NQThreadDies, NQIncrease
      <3>2. CASE NQReadBudget \/ NQSkips \/ \E p \in Powers : NQEnergySample(p) \/ NQSample(p)
        BY <2>7, <3>2 DEF NQReadBudget, NQSkips, NQEnergySample, NQSample
      <3> QED
        BY <2>4, <2>5, <2>6, <2>8, <3>1, <3>2 DEF NQLoop
    <2> QED
      BY <1>1, <2>2, <2>7, <2>8, OnlyNQ DEF loop
  <1>2. pc # "control" <=> ~(pc = "control")
    OBVIOUS
  <1>3. Near =>
            /\ [Left' <= Left]_Left
            /\ AtMin => AtMin'
            /\ pc = "control" /\ (pc # "control")' => AtMin' \/ Left' # Left
    BY <1>1
  <1>4. Near /\ [FALSE]_Left /\ pc = "control" /\ ~(pc = "control")' => AtMin'
    BY <1>3
  <1>5. Near /\ AtMin => AtMin'
    BY <1>3
  <1>6. NQDecidesNear /\ NQKnowsLimit /\ AtMin => cpu_max = quota(THROTTLE_MIN)
    BY DEF NQDecidesNear, NQKnowsLimit, THROTTLE_MIN, THROTTLE_MAX
  <1> HIDE DEF AtMin
  <1>7. []TypeInv /\ [][Next]_vars /\ <>[]NQDecidesNear => <>[][FALSE]_Left
    BY <1>3, LeftRange, Distance!Settles, PTL
  <1>8. []TypeInv /\ [][Next]_vars /\ []<>(pc # "control") /\ NQDecides /\ <>[]NQDecidesNear
            => <>[]AtMin
    BY <1>2, <1>4, <1>5, <1>7, PTL DEF NQDecides
  <1> QED
    BY <1>6, <1>8, TypeInit, TypeNext, NQThreadKnowsLimit, PTL DEF Spec, NQOverloadThrottles

=============================================================================

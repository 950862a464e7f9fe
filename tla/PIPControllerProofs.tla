------------------------ MODULE PIPControllerProofs ------------------------
(***************************************************************************)
(* Proofs about the PIP controller for every set of budgets and powers and *)
(* every percentage Full.                                                  *)
(***************************************************************************)
EXTENDS PIPController, TLAPS

USE ConstantsAssumption DEF Floor

-----------------------------------------------------------------------------
(* What the helpers return.                                                *)

LEMMA DownRange ==
    ASSUME NEW from \in Int, NEW t \in Down(from)
    PROVE  t \in Floor..from
BY DEF Down

LEMMA ReadBackRange ==
    ASSUME NEW t \in Limits
    PROVE  read_cpu_max(t) \in Limits /\ read_cpu_max(t) \in {t - 1, t}
BY DEF read_cpu_max, Limits

LEMMA BabyThrottleRange ==
    ASSUME NEW t \in Limits
    PROVE  BabyThrottle(t) \in Floor..t
BY DEF BabyThrottle, MaxOf, Limits

LEMMA RaisedRange ==
    ASSUME NEW t \in Limits, t < Full,
           NEW found \in Up(t) \cup {t}
    PROVE  Raised(t, found) \in (t + 1)..Full
BY DEF Raised, MinOf, Limits, Up

-----------------------------------------------------------------------------
(* Type correctness.                                                       *)

LEMMA InitType == Init => TypeOK
<1> SUFFICES ASSUME Init PROVE TypeOK
  OBVIOUS
<1>1. Full \in Limits
  BY DEF Limits
<1>2. cpu_max \in [user : Limits, critical : Limits]
  BY <1>1 DEF Init
<1>3. full_mode \in BOOLEAN /\ used_map \in BOOLEAN
  BY Zenon DEF Init
<1> QED
  BY <1>1, <1>2, <1>3 DEF Init, TypeOK, SampleKinds

LEMMA MeasureType == TypeOK /\ (Environment \/ Measure) => TypeOK'
<1> SUFFICES ASSUME TypeOK, Environment \/ Measure
             PROVE  TypeOK'
  OBVIOUS
<1> USE DEF TypeOK, throttles, SampleKinds
<1>1. CASE TruncateBudget
  BY <1>1 DEF TruncateBudget
<1>2. ASSUME NEW b \in Budgets, WriteBudget(b)
      PROVE  TypeOK'
  BY <1>2 DEF WriteBudget
<1>3. CASE ReadBudget
  BY <1>3 DEF ReadBudget
<1>4. ASSUME NEW p \in Powers \cup {NoReading}, EnergySample(p)
      PROVE  TypeOK'
  <2>1. full_mode' \in BOOLEAN
    BY <1>4, Zenon DEF EnergySample
  <2> QED
    BY <1>4, <2>1 DEF EnergySample
<1>5. CASE SampleNoPower
  BY <1>5 DEF SampleNoPower
<1>6. ASSUME NEW kind \in Samples, NEW p \in Powers, Sample(kind, p)
      PROVE  TypeOK'
  BY <1>6 DEF Sample
<1> QED
  BY <1>1, <1>2, <1>3, <1>4, <1>5, <1>6 DEF Environment, Measure

LEMMA DecideType == TypeOK /\ Decide => TypeOK'
<1> SUFFICES ASSUME TypeOK, Decide
             PROVE  TypeOK'
  OBVIOUS
<1> USE DEF TypeOK, throttles, Iterated
<1> DEFINE Files == [user : Limits, critical : Limits]
<1>a. ASSUME NEW g \in {"user", "critical"}, NEW t \in Limits, NEW f \in Files
      PROVE  [f EXCEPT ![g] = t] \in Files
  BY <1>a
<1>b. ASSUME NEW g \in {"user", "critical"}, NEW t \in Limits,
             NEW f \in set_cpu_limit(g, t)
      PROVE  f \in Files
  BY <1>a, <1>b DEF set_cpu_limit
<1>c. Floor \in Limits /\ Full \in Limits
  BY DEF Limits
<1>1. CASE AdjustmentDies
  BY <1>1 DEF AdjustmentDies
<1>2. CASE StrictBabyUser
  <2>1. current_bandwidth' \in Limits
    BY <1>2, BabyThrottleRange DEF StrictBabyUser, Limits
  <2> QED
    BY <1>2, <2>1, <1>b DEF StrictBabyUser
<1>3. CASE StrictBabyCritical
  <2>1. current_bandwidth2' \in Limits
    BY <1>3, BabyThrottleRange DEF StrictBabyCritical, Limits
  <2> QED
    BY <1>3, <2>1, <1>b DEF StrictBabyCritical
<1>4. CASE StrictBabyNothing
  BY <1>4 DEF StrictBabyNothing
<1>5. ASSUME NEW t \in Floor..Full, StrictUser(t)
      PROVE  TypeOK'
  BY <1>5, <1>b DEF StrictUser, Limits
<1>6. ASSUME NEW t \in Floor..Full, critical_power_capping(t)
      PROVE  TypeOK'
  <2>1. t \in Limits /\ read_cpu_max(t) \in Limits
    BY ReadBackRange DEF Limits
  <2>2. [cpu_max EXCEPT !["critical"] = t] \in Files
    BY <2>1, <1>a
  <2> QED
    BY <1>6, <2>1, <2>2, <1>b, Zenon DEF critical_power_capping
<1>7. CASE UserToFloor
  BY <1>7, <1>b, <1>c DEF UserToFloor
<1>8. CASE StrictDies
  BY <1>8, Zenon DEF StrictDies
<1>9. ASSUME NEW found \in Floor..Full, IncreaseCritical(found)
      PROVE  TypeOK'
  <2>1. current_bandwidth2' \in Limits
    BY <1>9, RaisedRange DEF IncreaseCritical, Limits
  <2>2. PICK held \in set_cpu_limit("user", Floor) :
            cpu_max' \in {[held EXCEPT !["critical"] = current_bandwidth2']}
                         \cup (IF write_errors THEN {held} ELSE {})
    BY <1>9 DEF IncreaseCritical
  <2>3. cpu_max' \in Files
    BY <2>1, <2>2, <1>a, <1>b, <1>c
  <2> QED
    BY <1>9, <2>1, <2>3, <1>c DEF IncreaseCritical
<1>10. ASSUME NEW found \in Floor..Full, IncreaseUser(found)
       PROVE  TypeOK'
  <2>1. current_bandwidth' \in Limits
    BY <1>10, RaisedRange DEF IncreaseUser, Limits
  <2> QED
    BY <1>10, <2>1, <1>b DEF IncreaseUser
<1>11. CASE IncreaseNothing
  BY <1>11, Zenon DEF IncreaseNothing
<1>12. CASE IncreaseDies
  <2>1. current_bandwidth < Full =>
            /\ current_bandwidth + 1 \in Limits
            /\ read_cpu_max(current_bandwidth + 1) \in Limits
            /\ [cpu_max EXCEPT !["user"] = current_bandwidth + 1] \in Files
    <3>1. current_bandwidth < Full => current_bandwidth + 1 \in Limits
      BY DEF Limits
    <3> QED
      BY <3>1, ReadBackRange, <1>a
  <2> QED
    BY <1>12, <2>1, <1>b, <1>c, Zenon DEF IncreaseDies
<1>13. CASE DeadBand
  BY <1>13, Zenon DEF DeadBand
<1>14. CASE Restart
  BY <1>14, <1>c DEF Restart
<1> QED
  BY <1>1, <1>2, <1>3, <1>4, <1>5, <1>6, <1>7, <1>8, <1>9, <1>10, <1>11,
     <1>12, <1>13, <1>14 DEF Decide

LEMMA NextType == TypeOK /\ [Next]_vars => TypeOK'
<1>1. TypeOK /\ UNCHANGED vars => TypeOK'
  BY DEF vars, throttles, TypeOK
<1> QED
  BY <1>1, MeasureType, DecideType DEF Next, Controller

\* Whatever perf returns, whatever the model answers and however often the
\* thread dies, every throttle stays a percentage from 1 to Full: the search
\* ranges of critical_power_capping are never empty and no throttle ratio
\* divides by zero.
THEOREM TypeCorrect == Spec => []TypeOK
BY InitType, NextType, PTL DEF Spec

-----------------------------------------------------------------------------
(* The order of the two beliefs, whatever fails.                           *)

LEMMA PriorityStep ==
    ASSUME TypeOK, BeliefPriority, pc # "dead", [Next]_vars
    PROVE  BeliefPriority'
<1> USE DEF BeliefPriority
<1>1. CASE Environment \/ Measure \/ UNCHANGED vars
  BY <1>1 DEF Environment, Measure, TruncateBudget, WriteBudget, ReadBudget,
     EnergySample, SampleNoPower, Sample, throttles, vars
<1>2. CASE Decide
  <2> USE DEF Iterated, throttles
  <2>1. CASE StrictBabyUser
    <3>1. current_bandwidth > Floor /\ pc = "control" /\ UNCHANGED current_bandwidth2
      BY <2>1 DEF StrictBabyUser, BabyStep, Strict, Control
    <3> QED
      BY <3>1 DEF TypeOK, Limits
  <2>2. CASE StrictBabyCritical
    BY <2>2 DEF StrictBabyCritical, TypeOK, Limits
  <2>3. ASSUME NEW t \in Floor..Full, StrictUser(t)
        PROVE  BeliefPriority'
    <3>1. current_bandwidth > 5 /\ pc = "control" /\ UNCHANGED current_bandwidth2
      BY <2>3 DEF StrictUser, Search, Strict, Control
    <3> QED
      BY <3>1 DEF TypeOK, Limits
  <2>4. ASSUME NEW t \in Floor..Full, critical_power_capping(t)
        PROVE  BeliefPriority'
    BY <2>4 DEF critical_power_capping
  <2>5. CASE UserToFloor
    BY <2>5 DEF UserToFloor
  <2>6. ASSUME NEW found \in Floor..Full, IncreaseCritical(found)
        PROVE  BeliefPriority'
    BY <2>6 DEF IncreaseCritical
  <2>7. ASSUME NEW found \in Floor..Full, IncreaseUser(found)
        PROVE  BeliefPriority'
    BY <2>7 DEF IncreaseUser, TypeOK, Limits
  <2>8. CASE IncreaseDies
    BY <2>8 DEF IncreaseDies, TypeOK, Limits
  <2>9. CASE \/ AdjustmentDies \/ StrictBabyNothing \/ StrictDies
             \/ IncreaseNothing \/ DeadBand
    BY <2>9 DEF AdjustmentDies, StrictBabyNothing, BabyStep, StrictDies, Search,
       Strict, IncreaseNothing, Increase, DeadBand, Control
  <2> QED
    BY <1>2, <2>1, <2>2, <2>3, <2>4, <2>5, <2>6, <2>7, <2>8, <2>9
       DEF Decide, Restart
<1> QED
  BY <1>1, <1>2 DEF Next, Controller

\* Whatever fails, no step of the controller thread puts its belief of the
\* critical limit below full while that of the user limit is above the floor;
\* only the restart of a dead thread does.
THEOREM ThreadKeepsPriority == Spec => OnlyRestartUpsetsPriority
<1>1. TypeOK /\ [Next]_vars
      => [BeliefPriority /\ pc # "dead" => BeliefPriority']_vars
  BY PriorityStep
<1> QED
  BY <1>1, TypeCorrect, PTL DEF Spec, OnlyRestartUpsetsPriority

-----------------------------------------------------------------------------
(* The critical cgroup, whatever the samples: its belief survives restarts.*)

\* Whether cpu.max can be written does not change.
LEMMA WriteErrorsFixed ==
    [Next]_vars => UNCHANGED write_errors
BY DEF Next, Environment, Controller, vars

\* A step that may touch the critical limit leaves the belief and the file in
\* step; every other one leaves both alone.
LEMMA CriticalStep ==
    ASSUME TypeOK, CriticalInSync, [Next]_vars, ~write_errors
    PROVE  CriticalInSync'
<1> USE DEF CriticalInSync
<1> DEFINE Kept == cpu_max.critical' = cpu_max.critical
                   /\ UNCHANGED current_bandwidth2
<1>k. Kept => CriticalInSync'
  BY DEF read_cpu_max
<1>u. ASSUME NEW t, cpu_max' \in set_cpu_limit("user", t),
             UNCHANGED current_bandwidth2
      PROVE  Kept
  BY <1>u DEF set_cpu_limit, TypeOK
<1>1. CASE StrictBabyCritical
  <2>1. cpu_max.critical' = current_bandwidth2'
    BY <1>1 DEF StrictBabyCritical, set_cpu_limit, TypeOK
  <2> QED
    BY <2>1
<1>2. ASSUME NEW t \in Floor..Full, critical_power_capping(t)
      PROVE  CriticalInSync'
  <2>1. cpu_max.critical' = t /\ current_bandwidth2' = read_cpu_max(t)
    BY <1>2 DEF critical_power_capping, TypeOK
  <2> QED
    BY <2>1
<1>3. ASSUME NEW found \in Floor..Full, IncreaseCritical(found)
      PROVE  CriticalInSync'
  <2>1. PICK held \in set_cpu_limit("user", Floor) :
            cpu_max' = [held EXCEPT !["critical"] = current_bandwidth2']
    BY <1>3 DEF IncreaseCritical
  <2>2. cpu_max.critical' = current_bandwidth2'
    BY <2>1 DEF set_cpu_limit, TypeOK
  <2> QED
    BY <2>2
<1>4. CASE UNCHANGED throttles
  BY <1>4, <1>k DEF throttles
<1>5. Environment \/ Measure \/ UNCHANGED vars => UNCHANGED throttles
  BY DEF Environment, Measure, TruncateBudget, WriteBudget, ReadBudget,
         EnergySample, SampleNoPower, Sample, vars
<1>6. AdjustmentDies \/ StrictBabyNothing \/ StrictDies \/ IncreaseNothing
      \/ DeadBand => UNCHANGED throttles
  BY DEF AdjustmentDies, StrictBabyNothing, StrictDies, IncreaseNothing,
         DeadBand
<1>7. StrictBabyUser \/ (\E t \in Floor..Full : StrictUser(t)) \/ UserToFloor
      \/ (\E found \in Floor..Full : IncreaseUser(found)) => Kept
  BY <1>u DEF StrictBabyUser, StrictUser, UserToFloor, IncreaseUser
<1>8. IncreaseDies => Kept
  BY <1>u DEF IncreaseDies, TypeOK
<1>9. Restart => Kept
  BY DEF Restart
<1> QED
  BY <1>1, <1>2, <1>3, <1>4, <1>5, <1>6, <1>7, <1>8, <1>9, <1>k
     DEF Next, Controller, Decide

\* However samples fail and the thread restarts, the controller's idea of the
\* critical limit is the limit in force, up to the truncated percent: as long
\* as cpu.max can be written, current_bandwidth2 does not drift.
THEOREM CriticalStaysInSync ==
    Spec => []CriticalInSync
<1>1. Init => CriticalInSync
  BY DEF Init, CriticalInSync
<1>2. TypeOK /\ CriticalInSync /\ [Next]_vars => CriticalInSync'
  BY CriticalStep, WriteErrorsFixed DEF CriticalInSync
<1> QED
  BY <1>1, <1>2, TypeCorrect, PTL DEF Spec

LEMMA BandsDisjoint ==
    ASSUME TypeOK, NearBudget(actual_power)
    PROVE  ~BelowBudget(actual_power)
<1>1. actual_power \in Int /\ actual_power >= -2
      /\ target_power \in Int /\ target_power >= -1
  BY DEF TypeOK, NoReading, NoBudget
<1> QED
  BY <1>1 DEF NearBudget, BelowBudget

\* The limits after a write to one cgroup.
LEMMA WriteLimit ==
    ASSUME ~write_errors, cpu_max \in [user : Limits, critical : Limits],
           NEW t \in Limits
    PROVE  /\ \A f \in set_cpu_limit("user", t) :
                  f.user = t /\ f.critical = cpu_max.critical
           /\ \A f \in set_cpu_limit("critical", t) :
                  f.critical = t /\ f.user = cpu_max.user
BY DEF set_cpu_limit

\* What a decision near the budget does to the limits, sample by sample.
LEMMA StrictStep ==
    ASSUME ~write_errors, TypeOK, CriticalInSync, Next, Deciding,
           NearBudget(actual_power)
    PROVE  /\ cpu_max.critical' <= cpu_max.critical
           /\ cpu_max.user = current_bandwidth
                  => cpu_max.user' <= cpu_max.user
<1> DEFINE Goal == /\ cpu_max.critical' <= cpu_max.critical
                   /\ cpu_max.user = current_bandwidth
                          => cpu_max.user' <= cpu_max.user
<1>t. /\ cpu_max \in [user : Limits, critical : Limits]
      /\ current_bandwidth \in Limits /\ current_bandwidth2 \in Limits
      /\ cpu_max.user \in Limits /\ cpu_max.critical \in Limits
      /\ Floor \in Limits
  BY DEF TypeOK, Limits
<1>c. current_bandwidth2 <= cpu_max.critical
  BY <1>t, ReadBackRange DEF CriticalInSync, Limits
<1>0. CASE UNCHANGED cpu_max
  BY <1>0, <1>t DEF Limits
<1>1. CASE Environment \/ Measure
  <2>1. UNCHANGED cpu_max
    BY <1>1 DEF Environment, Measure, TruncateBudget, WriteBudget, ReadBudget,
         EnergySample, SampleNoPower, Sample, throttles
  <2> QED
    BY <2>1, <1>0
<1>2. CASE StrictBabyUser
  <2>1. current_bandwidth' \in Limits /\ current_bandwidth' <= current_bandwidth
    BY <1>2, <1>t, BabyThrottleRange DEF StrictBabyUser, Limits
  <2>2. cpu_max.user' = current_bandwidth' /\ cpu_max.critical' = cpu_max.critical
    BY <1>2, <1>t, <2>1, WriteLimit DEF StrictBabyUser
  <2> QED
    BY <2>1, <2>2, <1>t DEF Limits
<1>3. CASE StrictBabyCritical
  <2>1. current_bandwidth2' \in Limits /\ current_bandwidth2' <= current_bandwidth2
    BY <1>3, <1>t, BabyThrottleRange DEF StrictBabyCritical, Limits
  <2>2. cpu_max.critical' = current_bandwidth2' /\ cpu_max.user' = cpu_max.user
    BY <1>3, <1>t, <2>1, WriteLimit DEF StrictBabyCritical
  <2> QED
    BY <2>1, <2>2, <1>t, <1>c DEF Limits
<1>4. ASSUME NEW t \in Floor..Full, StrictUser(t)
      PROVE  Goal
  <2>1. t \in Limits /\ t <= current_bandwidth
    BY <1>4, <1>t, DownRange DEF StrictUser, Limits
  <2>2. cpu_max.user' = t /\ cpu_max.critical' = cpu_max.critical
    BY <1>4, <1>t, <2>1, WriteLimit DEF StrictUser
  <2> QED
    BY <2>1, <2>2, <1>t DEF Limits
<1>5. ASSUME NEW t \in Floor..Full, critical_power_capping(t)
      PROVE  Goal
  <2>1. t \in Limits /\ t <= current_bandwidth2
    BY <1>5, <1>t, DownRange DEF critical_power_capping, Limits
  <2>2. cpu_max.critical' = t /\ cpu_max.user' = cpu_max.user
    BY <1>5, <1>t, <2>1 DEF critical_power_capping
  <2> QED
    BY <2>1, <2>2, <1>t, <1>c DEF Limits
<1>6. CASE UserToFloor
  <2>1. cpu_max.user' = Floor /\ cpu_max.critical' = cpu_max.critical
    BY <1>6, <1>t, WriteLimit DEF UserToFloor
  <2> QED
    BY <2>1, <1>t DEF Limits
<1>7. AdjustmentDies \/ StrictBabyNothing \/ StrictDies \/ DeadBand
      => UNCHANGED cpu_max
  BY DEF AdjustmentDies, StrictBabyNothing, StrictDies, DeadBand, throttles
<1>8. ~Increase /\ ~Restart
  BY BandsDisjoint DEF Increase, Restart, Deciding
<1> QED
  BY <1>0, <1>1, <1>2, <1>3, <1>4, <1>5, <1>6, <1>7, <1>8
     DEF Next, Controller, Decide, IncreaseCritical, IncreaseUser,
         IncreaseNothing, IncreaseDies

\* A decision at 97% of the budget or above never raises the critical limit,
\* even when the thread has died and been restarted in between.
THEOREM StrictSparesCritical ==
    Spec => StrictNeverRaisesCritical
<1>1. TypeOK /\ CriticalInSync /\ [Next]_vars
      => [~write_errors /\ Deciding /\ NearBudget(actual_power)
              => cpu_max.critical' <= cpu_max.critical]_vars
  BY StrictStep
<1> QED
  BY <1>1, TypeCorrect, CriticalStaysInSync, PTL
     DEF Spec, StrictNeverRaisesCritical

-----------------------------------------------------------------------------
(* The user cgroup, whatever the samples.                                  *)

LEMMA UserStep ==
    ASSUME ~write_errors, TypeOK, UserKnownOrForgotten, [Next]_vars
    PROVE  UserKnownOrForgotten'
<1> USE DEF UserKnownOrForgotten
<1>t. /\ cpu_max \in [user : Limits, critical : Limits]
      /\ current_bandwidth \in Limits /\ Floor \in Limits
  BY DEF TypeOK, Limits
<1>n. TypeOK'
  BY NextType
<1>1. CASE Environment \/ Measure \/ UNCHANGED vars
  BY <1>1 DEF Environment, Measure, TruncateBudget, WriteBudget, ReadBudget,
     EnergySample, SampleNoPower, Sample, throttles, vars
<1>2. CASE StrictBabyUser
  BY <1>2, <1>t, <1>n, WriteLimit DEF StrictBabyUser, TypeOK, Limits
<1>3. CASE StrictBabyCritical
  <2>1. current_bandwidth2' \in Limits /\ pc = "control"
    BY <1>3, <1>n DEF TypeOK, StrictBabyCritical, BabyStep, Strict, Control
  <2>2. cpu_max.user' = cpu_max.user
    BY <1>3, <1>t, <2>1, WriteLimit DEF StrictBabyCritical
  <2> QED
    BY <1>3, <2>1, <2>2 DEF StrictBabyCritical
<1>4. ASSUME NEW t \in Floor..Full, StrictUser(t)
      PROVE  UserKnownOrForgotten'
  BY <1>4, <1>t, WriteLimit DEF StrictUser, Limits
<1>5. ASSUME NEW t \in Floor..Full, critical_power_capping(t)
      PROVE  UserKnownOrForgotten'
  <2>1. cpu_max' = [cpu_max EXCEPT !["critical"] = t] /\ pc = "control"
    BY <1>5 DEF critical_power_capping, Search, Strict, Control
  <2>2. cpu_max.user' = cpu_max.user
    BY <2>1, <1>t
  <2> QED
    BY <1>5, <2>1, <2>2 DEF critical_power_capping
<1>6. CASE UserToFloor
  BY <1>6, <1>t, WriteLimit DEF UserToFloor, Limits
<1>7. ASSUME NEW found \in Floor..Full, IncreaseCritical(found)
      PROVE  UserKnownOrForgotten'
  <2>1. PICK held \in set_cpu_limit("user", Floor) :
            cpu_max' = [held EXCEPT !["critical"] = current_bandwidth2']
    BY <1>7 DEF IncreaseCritical
  <2>2. cpu_max.user' = Floor
    BY <2>1, <1>t DEF set_cpu_limit
  <2> QED
    BY <1>7, <2>2 DEF IncreaseCritical
<1>8. ASSUME NEW found \in Floor..Full, IncreaseUser(found)
      PROVE  UserKnownOrForgotten'
  BY <1>8, <1>t, <1>n, WriteLimit DEF IncreaseUser, TypeOK, Limits
<1>9. CASE \/ StrictBabyNothing \/ IncreaseNothing \/ DeadBand
  BY <1>9 DEF StrictBabyNothing, BabyStep, Strict, IncreaseNothing, Increase,
     DeadBand, Control, Iterated, throttles
<1>10. CASE \/ AdjustmentDies \/ StrictDies \/ IncreaseDies
  BY <1>10 DEF AdjustmentDies, StrictDies, IncreaseDies
<1>11. CASE Restart
  BY <1>11, <1>t DEF Restart, Limits
<1> QED
  BY <1>1, <1>2, <1>3, <1>4, <1>5, <1>6, <1>7, <1>8, <1>9, <1>10, <1>11
     DEF Next, Controller, Decide

\* Across every sampling fault and restart, what a live thread believes of the
\* user limit is the limit in force, or full: the only thing it can get wrong
\* is to have forgotten a throttle.
THEOREM UserKnownOrFull ==
    Spec => []UserKnownOrForgotten
<1>1. Init => UserKnownOrForgotten
  BY DEF Init, UserKnownOrForgotten
<1>2. TypeOK /\ UserKnownOrForgotten /\ [Next]_vars => UserKnownOrForgotten'
  BY UserStep, WriteErrorsFixed DEF UserKnownOrForgotten
<1> QED
  BY <1>1, <1>2, TypeCorrect, PTL DEF Spec

\* A decision near the budget that raises the user limit has forgotten a
\* throttle.
RaisesOnlyForgotten ==
    [][~write_errors /\ Deciding /\ NearBudget(actual_power)
           /\ cpu_max.user' > cpu_max.user
           => current_bandwidth = Full /\ cpu_max.user < Full]_vars

\* Whatever fails, as long as cpu.max can be written: the only decision at 97%
\* of the budget or above that raises the user limit is one of a thread that
\* has been restarted and has not written the limit since.
THEOREM StrictRaisesOnlyForgotten == Spec => RaisesOnlyForgotten
<1>1. TypeOK /\ CriticalInSync /\ UserKnownOrForgotten /\ [Next]_vars
      => [~write_errors /\ Deciding /\ NearBudget(actual_power)
              /\ cpu_max.user' > cpu_max.user
              => current_bandwidth = Full /\ cpu_max.user < Full]_vars
  <2> SUFFICES ASSUME TypeOK, CriticalInSync, UserKnownOrForgotten, Next,
                      ~write_errors, Deciding, NearBudget(actual_power),
                      cpu_max.user' > cpu_max.user
               PROVE  current_bandwidth = Full /\ cpu_max.user < Full
    OBVIOUS
  <2>1. cpu_max.user \in Limits /\ cpu_max.user' \in Limits
    BY NextType DEF TypeOK
  <2>2. cpu_max.user # current_bandwidth
    BY <2>1, StrictStep DEF Limits
  <2>3. current_bandwidth \in {cpu_max.user, Full}
    BY DEF UserKnownOrForgotten, Deciding
  <2> QED
    BY <2>1, <2>2, <2>3 DEF Limits
<1> QED
  BY <1>1, TypeCorrect, CriticalStaysInSync, UserKnownOrFull, PTL
     DEF Spec, RaisesOnlyForgotten

-----------------------------------------------------------------------------
(* The healthy controller: complete samples and writable limits.           *)

\* The facts about the limits every healthy step starts from.
LimitFacts ==
    /\ cpu_max \in [user : Limits, critical : Limits]
    /\ current_bandwidth \in Limits /\ current_bandwidth2 \in Limits
    /\ cpu_max.user \in Limits /\ cpu_max.critical \in Limits
    /\ Floor \in Limits /\ Full \in Limits
    /\ cpu_max.user = current_bandwidth
    /\ current_bandwidth2 <= cpu_max.critical
    /\ cpu_max.critical <= current_bandwidth2 + 1
    /\ (current_bandwidth2 = Full) <=> (cpu_max.critical = Full)
    /\ pc # "user_write" /\ current_bandwidth2 < Full
           => current_bandwidth = Floor

LEMMA HealthyLimits ==
    ASSUME TypeOK, HealthyInv
    PROVE  LimitFacts
<1>1. /\ cpu_max \in [user : Limits, critical : Limits]
      /\ current_bandwidth \in Limits /\ current_bandwidth2 \in Limits
      /\ cpu_max.user \in Limits /\ cpu_max.critical \in Limits
      /\ Floor \in Limits /\ Full \in Limits
  BY DEF TypeOK, Limits
<1>2. /\ current_bandwidth2 <= cpu_max.critical
      /\ cpu_max.critical <= current_bandwidth2 + 1
      /\ cpu_max.critical = Full => current_bandwidth2 = Full
  BY <1>1 DEF HealthyInv, CriticalInSync, read_cpu_max, Limits
<1> QED
  BY <1>1, <1>2 DEF HealthyInv, BeliefPriority, LimitFacts, Limits

LEMMA HealthyMeasure ==
    ASSUME Healthy, TypeOK, HealthyInv, Environment \/ Measure,
           UNCHANGED write_errors
    PROVE  HealthyInv'
<1> USE DEF HealthyInv, CriticalInSync, BeliefPriority, throttles, read_cpu_max
<1>1. CASE TruncateBudget
  BY <1>1 DEF TruncateBudget
<1>2. ASSUME NEW b \in Budgets, WriteBudget(b)
      PROVE  HealthyInv'
  BY <1>2 DEF WriteBudget
<1>3. CASE ReadBudget
  BY <1>3 DEF ReadBudget
<1>4. ASSUME NEW p \in Powers \cup {NoReading}, EnergySample(p)
      PROVE  HealthyInv'
  BY <1>4 DEF EnergySample
<1>5. CASE SampleNoPower
  BY <1>5 DEF SampleNoPower
<1>6. ASSUME NEW kind \in Samples, NEW p \in Powers, Sample(kind, p)
      PROVE  HealthyInv'
  <2>1. kind = "ok"
    BY <1>6 DEF Sample, Healthy
  <2> QED
    BY <1>6, <2>1 DEF Sample
<1> QED
  BY <1>1, <1>2, <1>3, <1>4, <1>5, <1>6 DEF Environment, Measure

LEMMA HealthyDecide ==
    ASSUME Healthy, TypeOK, HealthyInv, Decide, UNCHANGED write_errors
    PROVE  HealthyInv'
<1>t. TypeOK'
  BY DecideType
<1>s. CriticalInSync'
  BY CriticalStep DEF Healthy, HealthyInv, Next, Controller
<1>l. LimitFacts
  BY HealthyLimits
<1>w. ~write_errors
  BY DEF HealthyInv
<1> USE DEF HealthyInv, BeliefPriority, Iterated, throttles, LimitFacts
<1>1. ~AdjustmentDies /\ ~StrictDies /\ ~IncreaseDies /\ ~Restart
  BY DEF AdjustmentDies, AdjustmentRaises, StrictDies, IncreaseDies, Restart
<1>2. CASE StrictBabyUser
  <2>1. current_bandwidth' \in Limits
        /\ (current_bandwidth2 < Full => current_bandwidth' = Floor)
    BY <1>2, <1>l, BabyThrottleRange DEF StrictBabyUser, BabyStep, Strict,
       Control, Limits
  <2>2. cpu_max.user' = current_bandwidth'
    BY <1>2, <1>l, <1>w, <2>1, WriteLimit DEF StrictBabyUser
  <2> QED
    BY <1>2, <1>s, <2>1, <2>2 DEF StrictBabyUser
<1>3. CASE StrictBabyCritical
  <2>1. current_bandwidth2' \in Limits
    BY <1>t DEF TypeOK
  <2>2. cpu_max.user' = cpu_max.user
    BY <1>3, <1>l, <1>w, <2>1, WriteLimit DEF StrictBabyCritical
  <2>3. current_bandwidth = Floor
    BY <1>3, <1>l DEF StrictBabyCritical, Limits
  <2> QED
    BY <1>3, <1>s, <2>2, <2>3 DEF StrictBabyCritical
<1>4. CASE StrictBabyNothing \/ IncreaseNothing \/ DeadBand
  BY <1>4, <1>s, <1>l DEF StrictBabyNothing, IncreaseNothing, DeadBand,
     BabyStep, Strict, Increase, Control
<1>5. ASSUME NEW t \in Floor..Full, StrictUser(t)
      PROVE  HealthyInv'
  <2>1. current_bandwidth2 = Full
    BY <1>5, <1>l DEF StrictUser, Search, Strict, Control, Limits
  <2>2. cpu_max.user' = current_bandwidth'
    BY <1>5, <1>l, <1>w, WriteLimit DEF StrictUser, Limits
  <2> QED
    BY <1>5, <1>s, <2>1, <2>2 DEF StrictUser
<1>6. ASSUME NEW t \in Floor..Full, critical_power_capping(t)
      PROVE  HealthyInv'
  <2>1. cpu_max.user' = cpu_max.user
    BY <1>6, <1>l, <1>w DEF critical_power_capping
  <2> QED
    BY <1>6, <1>s, <2>1 DEF critical_power_capping
<1>7. CASE UserToFloor
  <2>1. cpu_max.user' = Floor
    BY <1>7, <1>l, <1>w, WriteLimit DEF UserToFloor
  <2> QED
    BY <1>7, <1>s, <2>1 DEF UserToFloor
<1>8. ASSUME NEW found \in Floor..Full, IncreaseCritical(found)
      PROVE  HealthyInv'
  <2>1. PICK held \in set_cpu_limit("user", Floor) :
            cpu_max' = [held EXCEPT !["critical"] = current_bandwidth2']
    BY <1>8, <1>w DEF IncreaseCritical
  <2>2. cpu_max.user' = Floor
    BY <2>1, <1>l, <1>w DEF set_cpu_limit
  <2> QED
    BY <1>8, <1>s, <2>2 DEF IncreaseCritical
<1>9. ASSUME NEW found \in Floor..Full, IncreaseUser(found)
      PROVE  HealthyInv'
  <2>1. cpu_max.user' = current_bandwidth'
    BY <1>9, <1>l, <1>w, <1>t, WriteLimit DEF IncreaseUser, TypeOK
  <2> QED
    BY <1>9, <1>s, <1>l, <2>1 DEF IncreaseUser, Limits
<1> QED
  BY <1>1, <1>2, <1>3, <1>4, <1>5, <1>6, <1>7, <1>8, <1>9 DEF Decide

\* As long as perf and cpupower deliver complete maps and cpu.max can be
\* written, the controller's beliefs are the limits in force, the thread does
\* not die, and the critical cgroup is throttled last.
THEOREM HealthyHolds ==
    ASSUME Healthy
    PROVE  Spec => []HealthyInv
<1>1. Init => HealthyInv
  BY DEF Init, Healthy, HealthyInv, CriticalInSync, BeliefPriority
<1>2. TypeOK /\ HealthyInv /\ [Next]_vars => HealthyInv'
  <2>1. TypeOK /\ HealthyInv /\ UNCHANGED vars => HealthyInv'
    BY DEF vars, throttles, HealthyInv, CriticalInSync, BeliefPriority,
           read_cpu_max
  <2> QED
    BY <2>1, HealthyMeasure, HealthyDecide, WriteErrorsFixed
       DEF Next, Controller
<1> QED
  BY <1>1, <1>2, TypeCorrect, PTL DEF Spec

\* A healthy decision at 97% of the budget or above raises neither limit.
THEOREM StrictThrottles ==
    ASSUME Healthy
    PROVE  Spec => StrictNeverRaises
<1>1. TypeOK /\ HealthyInv /\ [Next]_vars
      => [Deciding /\ NearBudget(actual_power)
              => /\ cpu_max.user' <= cpu_max.user
                 /\ cpu_max.critical' <= cpu_max.critical]_vars
  BY StrictStep DEF HealthyInv, Healthy
<1> QED
  BY <1>1, TypeCorrect, HealthyHolds, PTL DEF Spec, StrictNeverRaises

-----------------------------------------------------------------------------
(* Refinement: every healthy step is a step of the priority specification  *)
(* or leaves its variables alone.                                          *)

LEMMA RefineStrict ==
    ASSUME Healthy, TypeOK, HealthyInv, Decide, Strict \/ pc = "user_write"
    PROVE  Capping!Throttle \/ UNCHANGED Capping!vars
<1>l. LimitFacts
  BY HealthyLimits
<1>w. ~write_errors
  BY DEF HealthyInv
<1> USE DEF LimitFacts, Iterated, throttles, Capping!Throttle, Capping!vars
<1>1. ~Increase /\ ~DeadBand /\ ~AdjustmentDies /\ ~StrictDies /\ ~Restart
  BY BandsDisjoint DEF Increase, DeadBand, AdjustmentDies, AdjustmentRaises,
     Strict, Control, StrictDies, Restart, HealthyInv
<1>2. CASE StrictBabyUser
  <2>1. current_bandwidth' \in Floor..current_bandwidth /\ current_bandwidth' \in Limits
    BY <1>2, <1>l, BabyThrottleRange DEF StrictBabyUser, Limits
  <2>2. cpu_max.user' = current_bandwidth' /\ cpu_max.critical' = cpu_max.critical
    BY <1>2, <1>l, <1>w, <2>1, WriteLimit DEF StrictBabyUser
  <2>3. pc # "user_write" /\ pc' # "user_write"
    BY <1>2 DEF StrictBabyUser, BabyStep, Strict, Control
  <2> QED
    BY <1>l, <2>1, <2>2, <2>3 DEF Limits
<1>3. CASE StrictBabyCritical
  <2>1. current_bandwidth2' \in Floor..current_bandwidth2 /\ current_bandwidth2' \in Limits
    BY <1>3, <1>l, BabyThrottleRange DEF StrictBabyCritical, Limits
  <2>2. cpu_max.critical' = current_bandwidth2' /\ cpu_max.user' = cpu_max.user
    BY <1>3, <1>l, <1>w, <2>1, WriteLimit DEF StrictBabyCritical
  <2>3. pc # "user_write" /\ pc' # "user_write" /\ cpu_max.user = Floor
    BY <1>3, <1>l DEF StrictBabyCritical, BabyStep, Strict, Control, Limits
  <2> QED
    BY <1>l, <2>1, <2>2, <2>3 DEF Limits
<1>4. CASE StrictBabyNothing
  BY <1>4 DEF StrictBabyNothing, BabyStep, Strict, Control
<1>5. ASSUME NEW t \in Floor..Full, StrictUser(t)
      PROVE  Capping!Throttle
  <2>1. t \in Floor..current_bandwidth /\ t \in Limits
    BY <1>5, <1>l, DownRange DEF StrictUser, Limits
  <2>2. cpu_max.user' = t /\ cpu_max.critical' = cpu_max.critical
    BY <1>5, <1>l, <1>w, <2>1, WriteLimit DEF StrictUser
  <2>3. pc # "user_write" /\ pc' # "user_write"
    BY <1>5 DEF StrictUser, Search, Strict, Control
  <2> QED
    BY <1>l, <2>1, <2>2, <2>3 DEF Limits
<1>6. ASSUME NEW t \in Floor..Full, critical_power_capping(t)
      PROVE  Capping!Throttle
  <2>1. t \in Floor..current_bandwidth2 /\ t \in Limits
    BY <1>6, <1>l, DownRange DEF critical_power_capping, Limits
  <2>2. cpu_max.critical' = t
    BY <1>6, <1>l, <1>w DEF critical_power_capping
  <2>3. pc # "user_write" /\ pc' = "user_write"
    BY <1>6 DEF critical_power_capping, Search, Strict, Control
  <2> QED
    BY <1>l, <2>1, <2>2, <2>3 DEF Limits
<1>7. CASE UserToFloor
  <2>1. cpu_max.user' = Floor /\ cpu_max.critical' = cpu_max.critical
    BY <1>7, <1>l, <1>w, WriteLimit DEF UserToFloor
  <2> QED
    BY <1>7, <2>1 DEF UserToFloor
<1> QED
  BY <1>1, <1>2, <1>3, <1>4, <1>5, <1>6, <1>7
     DEF Decide, IncreaseCritical, IncreaseUser, IncreaseNothing, IncreaseDies

LEMMA RefineIncrease ==
    ASSUME Healthy, TypeOK, HealthyInv, Decide, ~Strict, pc # "user_write"
    PROVE  Capping!Recover \/ UNCHANGED Capping!vars
<1>l. LimitFacts
  BY HealthyLimits
<1>w. ~write_errors
  BY DEF HealthyInv
<1> USE DEF LimitFacts, Iterated, throttles, Capping!Recover, Capping!vars
<1>1. /\ ~AdjustmentDies /\ ~StrictDies /\ ~IncreaseDies /\ ~Restart
      /\ ~UserToFloor
  BY DEF AdjustmentDies, AdjustmentRaises, StrictDies, Search, IncreaseDies,
     Restart, HealthyInv, UserToFloor
<1>2. CASE IncreaseNothing \/ DeadBand
  BY <1>2 DEF IncreaseNothing, DeadBand
<1>3. ASSUME NEW found \in Floor..Full, IncreaseCritical(found)
      PROVE  Capping!Recover
  <2>1. current_bandwidth2' \in (current_bandwidth2 + 1)..Full
    BY <1>3, <1>l, RaisedRange DEF IncreaseCritical
  <2>2. PICK held \in set_cpu_limit("user", Floor) :
            cpu_max' = [held EXCEPT !["critical"] = current_bandwidth2']
    BY <1>3, <1>w DEF IncreaseCritical
  <2>3. cpu_max.user' = Floor /\ cpu_max.critical' = current_bandwidth2'
    BY <2>2, <1>l, <1>w DEF set_cpu_limit
  <2>4. cpu_max.user = Floor /\ pc' # "user_write"
    BY <1>3, <1>l DEF IncreaseCritical
  <2> QED
    BY <1>l, <2>1, <2>3, <2>4 DEF Limits
<1>4. ASSUME NEW found \in Floor..Full, IncreaseUser(found)
      PROVE  Capping!Recover
  <2>1. current_bandwidth' \in (current_bandwidth + 1)..Full
        /\ current_bandwidth' \in Limits
    BY <1>4, <1>l, RaisedRange DEF IncreaseUser, Limits
  <2>2. cpu_max.user' = current_bandwidth' /\ cpu_max.critical' = cpu_max.critical
    BY <1>4, <1>l, <1>w, <2>1, WriteLimit DEF IncreaseUser
  <2>3. cpu_max.critical = Full /\ pc' # "user_write"
    BY <1>4, <1>l DEF IncreaseUser, Limits
  <2> QED
    BY <1>l, <2>1, <2>2, <2>3 DEF Limits
<1> QED
  BY <1>1, <1>2, <1>3, <1>4 DEF Decide, StrictBabyUser, StrictBabyCritical,
     StrictBabyNothing, StrictUser, critical_power_capping, BabyStep, Search

LEMMA RefineStep ==
    ASSUME Healthy, TypeOK, HealthyInv, [Next]_vars
    PROVE  [Capping!Next]_Capping!vars
<1>1. CASE Environment \/ Measure \/ UNCHANGED vars
  <2>1. UNCHANGED cpu_max /\ (pc = "user_write" <=> pc' = "user_write")
    BY <1>1 DEF Environment, Measure, TruncateBudget, WriteBudget, ReadBudget,
         EnergySample, SampleNoPower, Sample, throttles, vars
  <2> QED
    BY <2>1 DEF Capping!vars
<1> QED
  BY <1>1, RefineStrict, RefineIncrease DEF Next, Controller, Capping!Next

\* The limits the healthy controller puts in force implement the priority
\* specification: every decision throttles the user cgroup first and recovers
\* the critical one first.
THEOREM ImplementsPriority ==
    ASSUME Healthy
    PROVE  Spec => CappingSpec
<1>1. Init => Capping!Init
  BY DEF Init, Capping!Init
<1>2. TypeOK /\ HealthyInv /\ [Next]_vars => [Capping!Next]_Capping!vars
  BY RefineStep
<1> QED
  BY <1>1, <1>2, TypeCorrect, HealthyHolds, PTL
     DEF Spec, CappingSpec, Capping!Spec

\* A healthy decision below 94% of the budget lowers neither limit.
THEOREM RecoveryNeverLowers ==
    ASSUME Healthy
    PROVE  Spec => IncreaseNeverLowers
<1>1. ASSUME TypeOK, HealthyInv, Next, pc = "control", BelowBudget(actual_power)
      PROVE  /\ cpu_max.user' >= cpu_max.user
             /\ cpu_max.critical' >= cpu_max.critical
  <2>l. LimitFacts
    BY <1>1, HealthyLimits
  <2>1. ~Strict
    BY <1>1, BandsDisjoint DEF Strict
  <2>2. CASE Environment \/ Measure
    <3>1. UNCHANGED cpu_max
      BY <2>2 DEF Environment, Measure, TruncateBudget, WriteBudget, ReadBudget,
         EnergySample, SampleNoPower, Sample, throttles
    <3> QED
      BY <3>1, <2>l DEF LimitFacts, Limits
  <2>3. CASE Decide
    <3>1. Capping!Recover \/ UNCHANGED Capping!vars
      BY <1>1, <2>1, <2>3, RefineIncrease
    <3>2. pc' # "user_write"
      BY <1>1, <2>1, <2>3 DEF Decide, AdjustmentDies, StrictBabyUser,
         StrictBabyCritical, StrictBabyNothing, StrictUser, BabyStep, Search,
         critical_power_capping, UserToFloor, StrictDies, IncreaseCritical,
         IncreaseUser, IncreaseNothing, IncreaseDies, DeadBand, Restart, Iterated
    <3> QED
      BY <1>1, <3>1, <3>2, <2>l DEF Capping!Recover, Capping!vars, LimitFacts, Limits
  <2> QED
    BY <1>1, <2>2, <2>3 DEF Next, Controller
<1>2. TypeOK /\ HealthyInv /\ [Next]_vars
      => [pc = "control" /\ BelowBudget(actual_power)
              => /\ cpu_max.user' >= cpu_max.user
                 /\ cpu_max.critical' >= cpu_max.critical]_vars
  BY <1>1
<1> QED
  BY <1>2, TypeCorrect, HealthyHolds, PTL DEF Spec, IncreaseNeverLowers

-----------------------------------------------------------------------------
(* Recovery makes progress, whatever the model answers and whether or not  *)
(* the files can be written.                                               *)

\* How far the controller believes the limits to be from full.  The critical
\* limit weighs more: raising it takes the user limit back to the floor.
Shortfall == Full * (Full - current_bandwidth2) + (Full - current_bandwidth)

LEMMA ShortfallNat ==
    ASSUME NEW c \in Limits, NEW u \in Limits
    PROVE  Full * (Full - c) + (Full - u) \in Nat
<1>1. Full - c \in Nat /\ Full - u \in Nat
  BY DEF Limits
<1>2. Full * (Full - c) \in Nat
  BY <1>1
<1> QED
  BY <1>1, <1>2

LEMMA ShortfallOrder ==
    ASSUME NEW c \in Limits, NEW u \in Limits, NEW d \in (c + 1)..Full,
           NEW w \in Limits
    PROVE  Full * (Full - d) + (Full - w) < Full * (Full - c) + (Full - u)
<1>1. c \in 1..Full /\ u \in 1..Full /\ w \in 1..Full /\ d \in Nat
  BY DEF Limits
<1>2. Full * (Full - c) = Full * (Full - d) + Full * (d - c)
  BY <1>1
<1>3. Full * (d - c) = Full * (d - c - 1) + Full
  BY <1>1
<1>4. Full * (d - c - 1) >= 0
  <2>1. Full \in Nat /\ d - c - 1 \in Nat
    BY <1>1
  <2> QED
    BY <2>1
<1> DEFINE x == Full * (Full - d)  y == Full * (Full - c)  z == Full * (d - c)
           k == Full * (d - c - 1)
<1>5. x \in Int /\ y \in Int /\ z \in Int /\ k \in Int
  BY <1>1
<1> HIDE DEF x, y, z, k
<1>6. y = x + z /\ z = k + Full /\ k >= 0
  BY <1>2, <1>3, <1>4 DEF x, y, z, k
<1>7. x + (Full - w) < y + (Full - u)
  BY <1>1, <1>5, <1>6
<1> QED
  BY <1>7 DEF x, y

LEMMA ShortfallOrderUser ==
    ASSUME NEW c \in Limits, NEW u \in Limits, NEW w \in (u + 1)..Full
    PROVE  Full * (Full - c) + (Full - w) < Full * (Full - c) + (Full - u)
<1>1. u \in Int /\ w \in Int /\ u < w /\ c \in Int
  BY DEF Limits
<1>2. \A k, m, a, b \in Int : a < b => k + (m - b) < k + (m - a)
  OBVIOUS
<1>3. Full * (Full - c) \in Int
  BY <1>1
<1> QED
  BY <1>1, <1>2, <1>3

\* A decision below 94% of the budget, on a complete sample, reduces the
\* shortfall or finds none, and no other step of a thread that lives on and is
\* not near the budget increases it.
Lives ==
    /\ pc \notin {"user_write", "dead"} /\ pc' # "dead"
    /\ pc = "control" => ~NearBudget(actual_power)

RecoveryProgress ==
    [][/\ Increase /\ metrics_data = "ok" /\ pc' # pc
              => Shortfall' < Shortfall \/ Shortfall' = 0
       /\ Lives => Shortfall' <= Shortfall]_vars

\* The step behind RecoversWhenLow, for every percentage Full: at most
\* Full * Full consecutive decisions below 94% of the budget take both beliefs
\* back to full, for every model and although each raise of the critical limit
\* holds the user limit at the floor.
THEOREM RecoveryMakesProgress == Spec => RecoveryProgress
<1>1. ASSUME TypeOK, Next, Increase, metrics_data = "ok", pc' # pc
      PROVE  Shortfall' < Shortfall \/ Shortfall' = 0
  <2>t. current_bandwidth \in Limits /\ current_bandwidth2 \in Limits
        /\ current_bandwidth' \in Limits /\ current_bandwidth2' \in Limits
    BY <1>1, NextType DEF TypeOK
  <2>0. pc = "control" /\ BelowBudget(actual_power) /\ ~NearBudget(actual_power)
    BY <1>1, BandsDisjoint DEF Increase, Control
  <2>1. ~Environment /\ ~Measure
    BY <1>1, <2>0 DEF Environment, Measure, TruncateBudget, WriteBudget, ReadBudget,
       EnergySample, SampleNoPower, Sample
  <2>2. /\ ~AdjustmentDies /\ ~StrictDies /\ ~IncreaseDies /\ ~Restart /\ ~UserToFloor
        /\ ~DeadBand /\ ~StrictBabyUser /\ ~StrictBabyCritical /\ ~StrictBabyNothing
    BY <1>1, <2>0 DEF AdjustmentDies, StrictDies, IncreaseDies, Restart, UserToFloor,
       DeadBand, StrictBabyUser, StrictBabyCritical, StrictBabyNothing, BabyStep,
       Search, Strict, Increase, Control
  <2>3. \A t : ~StrictUser(t) /\ ~critical_power_capping(t)
    BY <2>0 DEF StrictUser, critical_power_capping, Search, Strict
  <2>4. ASSUME NEW found \in Floor..Full, IncreaseCritical(found)
        PROVE  Shortfall' < Shortfall
    <3>1. current_bandwidth2' \in (current_bandwidth2 + 1)..Full
      BY <2>t, <2>4, RaisedRange DEF IncreaseCritical
    <3> QED
      BY <2>t, <3>1, ShortfallOrder, Zenon DEF Shortfall
  <2>5. ASSUME NEW found \in Floor..Full, IncreaseUser(found)
        PROVE  Shortfall' < Shortfall
    <3>1. current_bandwidth' \in (current_bandwidth + 1)..Full
          /\ current_bandwidth2' = current_bandwidth2
      BY <2>t, <2>5, RaisedRange DEF IncreaseUser
    <3> QED
      BY <2>t, <3>1, ShortfallOrderUser, Zenon DEF Shortfall
  <2>6. CASE IncreaseNothing
    <3>1. current_bandwidth' = Full /\ current_bandwidth2' = Full
      BY <2>t, <2>6 DEF IncreaseNothing, throttles, Limits
    <3> QED
      BY <3>1 DEF Shortfall
  <2> QED
    BY <1>1, <2>1, <2>2, <2>3, <2>4, <2>5, <2>6 DEF Next, Controller, Decide
<1>2. ASSUME TypeOK, Next, Lives
      PROVE  Shortfall' <= Shortfall
  <2>t. Shortfall \in Nat /\ Shortfall' \in Nat
    BY <1>2, ShortfallNat, NextType DEF TypeOK, Shortfall
  <2>1. CASE UNCHANGED throttles
    BY <2>t, <2>1 DEF throttles, Shortfall
  <2>2. Environment \/ Measure \/ DeadBand \/ IncreaseNothing => UNCHANGED throttles
    BY DEF Environment, Measure, TruncateBudget, WriteBudget, ReadBudget,
       EnergySample, SampleNoPower, Sample, DeadBand, IncreaseNothing
  <2>3. CASE \E found \in Floor..Full : IncreaseCritical(found) \/ IncreaseUser(found)
    <3>1. Increase /\ metrics_data = "ok" /\ pc' # pc
      BY <2>3 DEF IncreaseCritical, IncreaseUser, Increase, Control, Iterated
    <3> QED
      BY <1>1, <1>2, <2>t, <3>1
  <2>4. /\ ~AdjustmentDies /\ ~StrictDies /\ ~IncreaseDies /\ ~Restart /\ ~UserToFloor
        /\ ~StrictBabyUser /\ ~StrictBabyCritical /\ ~StrictBabyNothing
    BY <1>2 DEF Lives, AdjustmentDies, StrictDies, IncreaseDies, Restart, UserToFloor,
       StrictBabyUser, StrictBabyCritical, StrictBabyNothing, BabyStep, Strict, Control
  <2>5. \A t : ~StrictUser(t) /\ ~critical_power_capping(t)
    BY <1>2 DEF Lives, StrictUser, critical_power_capping, Search, Strict, Control
  <2> QED
    BY <1>2, <2>1, <2>2, <2>3, <2>4, <2>5 DEF Next, Controller, Decide
<1>3. TypeOK /\ [Next]_vars
      => [/\ Increase /\ metrics_data = "ok" /\ pc' # pc
                 => Shortfall' < Shortfall \/ Shortfall' = 0
          /\ Lives => Shortfall' <= Shortfall]_vars
  BY <1>1, <1>2
<1> QED
  BY <1>3, TypeCorrect, PTL DEF Spec, RecoveryProgress

\* A limit of at most 128% keeps the shortfall below 2^14.
LEMMA ShortfallRange ==
    ASSUME TypeOK, Full <= 128
    PROVE  /\ Shortfall \in Nat /\ Shortfall < 128 * 128
           /\ Shortfall = 0 => current_bandwidth = Full /\ current_bandwidth2 = Full
<1> DEFINE c == Full - current_bandwidth2
           u == Full - current_bandwidth
<1>1. c \in 0..(Full - 1) /\ u \in 0..(Full - 1) /\ Full \in 1..128
      /\ (c = 0 => current_bandwidth2 = Full) /\ (u = 0 => current_bandwidth = Full)
  BY DEF TypeOK, Limits
<1>2. Shortfall = Full * c + u
  BY DEF Shortfall
<1> HIDE DEF c, u
<1> DEFINE x == Full * c
           y == Full * (Full - 1)
           z == Full * Full
<1>3. x \in Nat /\ y \in Nat /\ z \in Nat /\ x <= y /\ z = y + Full /\ z <= 128 * 128
      /\ (c > 0 => x > 0)
  <2>1. Full * c <= Full * (Full - 1)
    BY <1>1
  <2>2. Full * Full <= 128 * 128
    BY <1>1
  <2>3. Full * Full = Full * (Full - 1) + Full
    BY <1>1
  <2>4. c > 0 => Full * c > 0
    BY <1>1
  <2> QED
    BY <1>1, <2>1, <2>2, <2>3, <2>4
<1> HIDE DEF x, y, z
<1>4. Shortfall = x + u
  BY <1>2 DEF x
<1> QED
  BY <1>1, <1>3, <1>4

Recovery == INSTANCE Settling WITH n <- Shortfall

\* Past the second write of a failed search, decisions below 94% of the budget
\* on complete samples only ever reduce the shortfall.
LEMMA LowStep ==
    ASSUME TypeOK, HealthyInv, HealthyInv', LowDecisions, pc # "user_write", [Next]_vars,
           Full <= 128,
           [/\ Increase /\ metrics_data = "ok" /\ pc' # pc
                   => Shortfall' < Shortfall \/ Shortfall' = 0
            /\ Lives => Shortfall' <= Shortfall]_vars
    PROVE  /\ pc' # "user_write"
           /\ [Shortfall' <= Shortfall]_Shortfall
           /\ Shortfall = 0 => Shortfall' = 0
           /\ [FALSE]_Shortfall /\ pc = "control" /\ pc' # "control" => Shortfall' = 0
<1>1. pc = "control" => BelowBudget(actual_power) /\ ~NearBudget(actual_power)
                        /\ metrics_data = "ok" /\ Increase
  <2>1. pc = "control" => BelowBudget(actual_power) /\ metrics_data = "ok"
    BY DEF LowDecisions, BelowBudget
  <2> QED
    BY <2>1, BandsDisjoint DEF Increase, Control, AdjustmentRaises, HealthyInv
<1>2. Shortfall \in Nat /\ Shortfall' \in Nat
  <2>1. TypeOK'
    BY NextType
  <2> QED
    BY <2>1, ShortfallNat DEF TypeOK, Shortfall
<1>3. Lives
  BY <1>1 DEF Lives, HealthyInv
<1>4. pc' # "user_write"
  <2>1. \A t : ~critical_power_capping(t)
    BY <1>1 DEF critical_power_capping, Search, Strict, Control
  <2> QED
    BY <2>1 DEF Next, vars, throttles, Environment, TruncateBudget, WriteBudget, Controller,
       Measure, ReadBudget, EnergySample, SampleNoPower, Sample, Decide, AdjustmentDies,
       StrictBabyUser, StrictBabyCritical, StrictBabyNothing, StrictUser, UserToFloor,
       StrictDies, IncreaseCritical, IncreaseUser, IncreaseNothing, IncreaseDies, DeadBand,
       Restart, Iterated
<1>5. CASE UNCHANGED vars
  BY <1>2, <1>4, <1>5 DEF vars, throttles, Shortfall
<1> QED
  BY <1>1, <1>2, <1>3, <1>4, <1>5

\* A healthy controller that gets through its decisions, all of them from some
\* point on below 94% of the budget, gives both cgroups their full bandwidth
\* back: for every model and calibration, whatever the budgets and powers, for
\* every percentage up to 128 (the code's is 100).
THEOREM RecoversInTheEnd ==
    ASSUME Healthy, Full <= 128
    PROVE  Spec /\ []<>(pc # "control") => RecoversWhenLow
<1> DEFINE Progress ==
        [/\ Increase /\ metrics_data = "ok" /\ pc' # pc
                => Shortfall' < Shortfall \/ Shortfall' = 0
         /\ Lives => Shortfall' <= Shortfall]_vars
           Low == /\ TypeOK /\ HealthyInv /\ HealthyInv' /\ LowDecisions
                  /\ ~(pc = "user_write") /\ [Next]_vars /\ Progress
           None == Shortfall = 0
<1>1. /\ Low => ~(pc = "user_write")'
      /\ Low => [Shortfall' <= Shortfall]_Shortfall
      /\ Low /\ None => None'
      /\ Low /\ [FALSE]_Shortfall /\ pc = "control" /\ ~(pc = "control")' => None'
  BY LowStep
<1>2. /\ pc # "control" <=> ~(pc = "control")
      /\ ~(pc = "control" /\ pc = "user_write")
  OBVIOUS
<1>3. TypeOK => Shortfall \in Nat /\ Shortfall < 128 * 128
  BY ShortfallRange
<1>4. TypeOK /\ HealthyInv /\ None => cpu_max.user = Full /\ cpu_max.critical = Full
  BY ShortfallRange, HealthyLimits DEF LimitFacts
<1> HIDE DEF None
<1> DEFINE Healthily == /\ []TypeOK /\ []HealthyInv /\ [][Next]_vars /\ RecoveryProgress
                        /\ []<>(pc = "control") /\ <>[]LowDecisions
<1>5. Healthily => <>[]~(pc = "user_write")
  BY <1>1, <1>2, PTL DEF RecoveryProgress
<1>6. Healthily => <>[][FALSE]_Shortfall
  BY <1>1, <1>3, <1>5, Recovery!Settles, PTL DEF RecoveryProgress
<1>7. Healthily /\ []<>(pc # "control") => <>[]None
  BY <1>1, <1>2, <1>5, <1>6, PTL DEF RecoveryProgress
<1> QED
  BY <1>4, <1>7, TypeCorrect, HealthyHolds, RecoveryMakesProgress, PTL
     DEF Spec, RecoversWhenLow

=============================================================================

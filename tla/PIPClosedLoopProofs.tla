------------------------ MODULE PIPClosedLoopProofs ------------------------
(***************************************************************************)
(* The closed loop is an instance of the PIP controller, and its           *)
(* calibration offset is bounded, for every machine, load and model.       *)
(***************************************************************************)
EXTENDS PIPClosedLoop, PIPControllerProofs, WellFoundedInduction

USE ConstantsAssumption DEF Floor

-----------------------------------------------------------------------------
(* Arithmetic.                                                             *)

LEMMA TimesMonotone ==
    ASSUME NEW k \in Nat, NEW a \in Int, NEW b \in Int, a <= b
    PROVE  k * a <= k * b /\ k * a \in Int /\ k * b \in Int
<1>1. k * (b - a) >= 0
  OBVIOUS
<1>2. k * (b - a) = k * b - k * a
  OBVIOUS
<1> QED
  BY <1>1, <1>2

LEMMA TimesCancels ==
    ASSUME NEW k \in Nat \ {0}, NEW a \in Int, NEW b \in Int, k * a <= k * b
    PROVE  a <= b
<1> SUFFICES ASSUME b + 1 <= a PROVE FALSE
  OBVIOUS
<1>1. k * (b + 1) <= k * a /\ k * (b + 1) \in Int /\ k * a \in Int /\ k * b \in Int
  BY TimesMonotone
<1>2. k * (b + 1) = k * b + k
  OBVIOUS
<1> QED
  BY <1>1, <1>2

LEMMA RemainderBounds ==
    ASSUME NEW n \in Nat
    PROVE  n % 5 \in 0..n
<1>1. n % 5 \in 0..4 /\ n % 5 = n - 5 * (n \div 5) /\ n \div 5 >= 0
      /\ n \div 5 \in Int
  OBVIOUS
<1> QED
  BY <1>1

LEMMA QuotientBounds ==
    ASSUME NEW n \in Nat, NEW m \in Nat, NEW d \in Nat \ {0}, n <= m * d
    PROVE  n \div d \in 0..m
<1> DEFINE q == n \div d
<1>1. q \in Int /\ q * d <= n /\ n < q * d + d
  OBVIOUS
<1>2. q >= 0
  <2> SUFFICES ASSUME q <= -1 PROVE FALSE
    BY <1>1
  <2>1. d * q <= d * (-1)
    BY <1>1, TimesMonotone
  <2> QED
    BY <1>1, <2>1
<1>3. q <= m
  <2> SUFFICES ASSUME m + 1 <= q PROVE FALSE
    BY <1>1
  <2>1. d * (m + 1) <= d * q
    BY <1>1, TimesMonotone
  <2> QED
    BY <1>1, <2>1
<1> QED
  BY <1>1, <1>2, <1>3

LEMMA QuotientMonotone ==
    ASSUME NEW m \in Nat, NEW n \in Nat, NEW d \in Nat \ {0}, m <= n
    PROVE  m \div d <= n \div d
<1> DEFINE p == m \div d  q == n \div d
<1>1. p \in Int /\ p * d <= m /\ q \in Int /\ n < q * d + d
  OBVIOUS
<1> HIDE DEF p, q
<1> SUFFICES ASSUME q + 1 <= p PROVE FALSE
  BY <1>1 DEF p, q
<1>2. d * (q + 1) <= d * p
  BY <1>1, TimesMonotone
<1> QED
  BY <1>1, <1>2

LEMMA QuotientOfSum ==
    ASSUME NEW m \in Nat, NEW n \in Nat, NEW d \in Nat \ {0}
    PROVE  (m + n) \div d <= m \div d + n \div d + 1
<1> DEFINE p == m \div d  q == n \div d  r == (m + n) \div d
<1>1. /\ p \in Int /\ m < p * d + d
      /\ q \in Int /\ n < q * d + d
      /\ r \in Int /\ r * d <= m + n
  OBVIOUS
<1> HIDE DEF p, q, r
<1> SUFFICES ASSUME p + q + 2 <= r PROVE FALSE
  BY <1>1 DEF p, q, r
<1>2. d * (p + q + 2) <= d * r
  BY <1>1, TimesMonotone
<1> QED
  BY <1>1, <1>2

\* A non-empty set of naturals has a least element.
LEMMA LeastElement ==
    ASSUME NEW S, S \subseteq Nat, S # {}
    PROVE  \E x \in S : \A y \in S : x <= y
<1> DEFINE R == OpToRel(<, Nat)
<1>1. IsWellFoundedOn(R, Nat)
  BY NatLessThanWellFounded, Zenon
<1>2. \A x, y \in Nat : y < x => <<y, x>> \in R
  BY DEF OpToRel
<1> HIDE DEF R
<1>3. PICK x \in S : \A y \in S : ~(<<y, x>> \in R)
  BY <1>1, WFMin, Zenon
<1>4. ASSUME NEW y \in S PROVE x <= y
  <2>1. x \in Nat /\ y \in Nat /\ ~(<<y, x>> \in R)
    BY <1>3
  <2>2. ~(y < x)
    BY <1>2, <2>1
  <2> QED
    BY <2>1, <2>2
<1> QED
  BY <1>4

\* The first throttle a search accepts, trying them from the highest down.
LEMMA HighestElement ==
    ASSUME NEW S, S \subseteq Limits, S # {}
    PROVE  Highest(S) \in S /\ \A s \in S : s <= Highest(S)
<1> DEFINE T == {Full - s : s \in S}
<1>0. ASSUME NEW s \in S PROVE Full - s \in Nat
  <2>1. s \in 1..Full
    BY DEF Limits
  <2> QED
    BY <2>1
<1>1. T \subseteq Nat /\ T # {}
  BY <1>0
<1>2. PICK x \in T : \A y \in T : x <= y
  <2> HIDE DEF T
  <2> QED
    BY <1>1, LeastElement, Zenon
<1>3. PICK t \in S : x = Full - t
  OBVIOUS
<1>4. ASSUME NEW s \in S PROVE s <= t
  <2>1. Full - t <= Full - s
    BY <1>2, <1>3
  <2> QED
    BY <2>1 DEF Limits
<1>5. \E h \in S : \A s \in S : s <= h
  BY <1>4
<1> QED
  BY <1>5, Zenon DEF Highest

-----------------------------------------------------------------------------
(* What the machine draws and what the model predicts.                     *)

Cgroups == [user : 0..Full, critical : 0..Full]

LEMMA WattsRange ==
    ASSUME NEW u \in Cgroups
    PROVE  Watts(u) \in Idle..MaxWatts
<1> DEFINE su == Span.user  sc == Span.critical  uu == u.user  uc == u.critical
<1>1. su \in Nat /\ sc \in Nat /\ uu \in 0..Full /\ uc \in 0..Full /\ Idle \in Nat
  <2>1. Span \in [user : Nat, critical : Nat] /\ Idle \in Nat
    BY ClosedLoopAssumption
  <2>2. u \in [user : 0..Full, critical : 0..Full]
    BY DEF Cgroups
  <2> QED
    BY <2>1, <2>2
<1>2. Full \in Nat \ {0}
  OBVIOUS
<1> HIDE DEF su, sc, uu, uc
<1>3. su * uu <= su * Full /\ su * uu \in Int /\ su * Full \in Int
  BY <1>1, <1>2, TimesMonotone
<1>4. sc * uc <= sc * Full /\ sc * uc \in Int /\ sc * Full \in Int
  BY <1>1, <1>2, TimesMonotone
<1>5. su * 0 <= su * uu /\ sc * 0 <= sc * uc
  BY <1>1, TimesMonotone
<1>6. (su + sc) * Full = su * Full + sc * Full
  BY <1>1, <1>2
<1>7. su * uu + sc * uc \in Nat /\ su * uu + sc * uc <= (su + sc) * Full
  BY <1>1, <1>3, <1>4, <1>5, <1>6
<1>8. (su * uu + sc * uc) \div Full \in 0..(su + sc)
  BY <1>1, <1>2, <1>7, QuotientBounds
<1> QED
  BY <1>1, <1>8 DEF Watts, MaxWatts, su, sc, uu, uc

LEMMA WattsMonotone ==
    ASSUME NEW u \in Cgroups, NEW v \in Cgroups,
           u.user <= v.user, u.critical <= v.critical
    PROVE  Watts(u) <= Watts(v)
<1> DEFINE su == Span.user  sc == Span.critical
           m == su * u.user + sc * u.critical
           n == su * v.user + sc * v.critical
<1>1. su \in Nat /\ sc \in Nat /\ Idle \in Nat /\ Full \in Nat \ {0}
  BY ClosedLoopAssumption
<1>2. /\ u.user \in Nat /\ u.critical \in Nat
      /\ v.user \in Nat /\ v.critical \in Nat
  BY DEF Cgroups
<1> HIDE DEF su, sc
<1>3. /\ su * 0 <= su * u.user /\ su * u.user <= su * v.user
      /\ sc * 0 <= sc * u.critical /\ sc * u.critical <= sc * v.critical
      /\ su * u.user \in Int /\ su * v.user \in Int
      /\ sc * u.critical \in Int /\ sc * v.critical \in Int
  BY <1>1, <1>2, TimesMonotone
<1>4. m \in Nat /\ n \in Nat /\ m <= n
  BY <1>1, <1>3
<1> HIDE DEF m, n
<1>5. m \div Full <= n \div Full /\ m \div Full \in Int /\ n \div Full \in Int
  BY <1>1, <1>4, QuotientMonotone
<1> QED
  BY <1>1, <1>5 DEF Watts, m, n, su, sc

\* 5% more of one cgroup costs at most 5% of the larger span, rounded up.
ForcedStep == 1 + (5 * MaxOf(Span.user, Span.critical)) \div Full

LEMMA WattsOfStep ==
    ASSUME NEW u \in Cgroups, NEW v \in Cgroups,
           \/ v.user <= u.user + 5 /\ v.critical <= u.critical
           \/ v.user <= u.user /\ v.critical <= u.critical + 5
    PROVE  Watts(v) <= Watts(u) + ForcedStep
<1> DEFINE su == Span.user  sc == Span.critical  k == 5 * MaxOf(su, sc)
           m == su * u.user + sc * u.critical
           n == su * v.user + sc * v.critical
<1>1. su \in Nat /\ sc \in Nat /\ Idle \in Nat /\ Full \in Nat \ {0}
  BY ClosedLoopAssumption
<1>2. /\ u.user \in Nat /\ u.critical \in Nat
      /\ v.user \in Nat /\ v.critical \in Nat
  BY DEF Cgroups
<1> HIDE DEF su, sc
<1>3. /\ su * 0 <= su * u.user /\ sc * 0 <= sc * u.critical
      /\ su * 0 <= su * v.user /\ sc * 0 <= sc * v.critical
      /\ su * u.user \in Int /\ su * v.user \in Int
      /\ sc * u.critical \in Int /\ sc * v.critical \in Int
  BY <1>1, <1>2, TimesMonotone
<1>4. m \in Nat /\ n \in Nat
  BY <1>1, <1>3
<1>5. k \in Nat /\ 5 * su <= k /\ 5 * sc <= k
  BY <1>1 DEF MaxOf
<1>6. n <= m + k
  <2>1. CASE v.user <= u.user + 5 /\ v.critical <= u.critical
    <3>1. su * v.user <= su * (u.user + 5) /\ sc * v.critical <= sc * u.critical
      BY <1>1, <1>2, <2>1, TimesMonotone
    <3>2. su * (u.user + 5) = su * u.user + 5 * su
      BY <1>1, <1>2
    <3> QED
      BY <1>1, <1>3, <1>5, <3>1, <3>2
  <2>2. CASE v.user <= u.user /\ v.critical <= u.critical + 5
    <3>1. su * v.user <= su * u.user /\ sc * v.critical <= sc * (u.critical + 5)
      BY <1>1, <1>2, <2>2, TimesMonotone
    <3>2. sc * (u.critical + 5) = sc * u.critical + 5 * sc
      BY <1>1, <1>2
    <3> QED
      BY <1>1, <1>3, <1>5, <3>1, <3>2
  <2> QED
    BY <2>1, <2>2
<1> HIDE DEF m, n, k
<1>7. n \div Full <= (m + k) \div Full /\ (m + k) \div Full <= m \div Full + k \div Full + 1
  BY <1>1, <1>4, <1>5, <1>6, QuotientMonotone, QuotientOfSum
<1>8. n \div Full \in Int /\ m \div Full \in Int /\ k \div Full \in Int
      /\ (m + k) \div Full \in Int
  BY <1>1, <1>4, <1>5
<1>9. n \div Full <= m \div Full + (1 + k \div Full)
  BY <1>7, <1>8
<1> QED
  BY <1>1, <1>8, <1>9 DEF Watts, ForcedStep, m, n, k, su, sc

LEMMA PredictRange ==
    ASSUME NEW u \in Cgroups, model_error \in ModelErrors
    PROVE  predict(u) \in (Idle - ErrorBound)..(MaxWatts + ErrorBound)
<1>1. Watts(u) \in Idle..MaxWatts
  BY WattsRange
<1>2. model_error \in -ErrorBound..ErrorBound /\ ErrorBound \in Nat /\ Idle \in Nat
      /\ MaxWatts \in Nat
  BY ClosedLoopAssumption DEF MaxWatts
<1> QED
  BY <1>1, <1>2 DEF predict

LEMMA UtilRange ==
    ASSUME TypeOK, load \in Loads
    PROVE  Util \in Cgroups
<1>1. load \in [user : 0..Full, critical : 0..Full]
  BY ClosedLoopAssumption
<1>2. cpu_max \in [user : 1..Full, critical : 1..Full]
  BY DEF TypeOK, Limits
<1>3. \A g \in {"user", "critical"} : MinOf(cpu_max[g], load[g]) \in 0..Full
  <2>1. load.user \in 0..Full /\ load.critical \in 0..Full
        /\ cpu_max.user \in 1..Full /\ cpu_max.critical \in 1..Full
    BY <1>1, <1>2
  <2> QED
    BY <2>1 DEF MinOf
<1> QED
  BY <1>3 DEF Util, Cgroups

LEMMA LoweredRange ==
    ASSUME NEW u \in Cgroups, NEW g \in {"user", "critical"}, NEW t \in Limits
    PROVE  Lowered(u, g, t) \in Cgroups
<1>1. u \in [user : 0..Full, critical : 0..Full] /\ t \in 1..Full
  BY DEF Cgroups, Limits
<1>2. u[g] \in 0..Full
  BY <1>1
<1>3. MinOf(u[g], t) \in 0..Full
  BY <1>1, <1>2 DEF MinOf
<1>4. [u EXCEPT ![g] = MinOf(@, t)] \in [user : 0..Full, critical : 0..Full]
  BY <1>1, <1>3
<1> QED
  BY <1>4 DEF Lowered, Cgroups

-----------------------------------------------------------------------------
(* The inductive invariant: besides the types, a decision is taken on a    *)
(* power the machine can draw, and every prediction it is compared with is *)
(* one the model can make, or the initial 0.                               *)

PlantOK ==
    /\ load \in Loads
    /\ model_error \in ModelErrors
    /\ utilisation \in Cgroups

PredictionOK ==
    /\ prev_prediction \in {0} \cup (Idle - ErrorBound)..(MaxWatts + ErrorBound)
    /\ pc = "control" => actual_power \in Idle..MaxWatts

\* A decision is taken on the power of the utilisation it looks at, and a
\* failed search was started by a power near the budget.
SampleOK ==
    /\ pc = "control" => actual_power = Watts(utilisation) /\ metrics_data = "ok"
    /\ pc = "user_write" => NearBudget(actual_power)

OffsetOK == calibration_offset \in Int /\ OffsetBounded

LoopInv == TypeOK /\ PlantOK /\ PredictionOK /\ SampleOK /\ OffsetOK

LEMMA LoopInitInv == LoopInit => LoopInv
<1> SUFFICES ASSUME LoopInit PROVE LoopInv
  OBVIOUS
<1>1. TypeOK
  BY InitType DEF LoopInit
<1>2. PlantOK
  <2>1. utilisation = [user |-> 0, critical |-> 0] /\ 0 \in 0..Full
    BY DEF LoopInit
  <2> QED
    BY <2>1 DEF LoopInit, PlantOK, Cgroups
<1>3. PredictionOK
  BY DEF LoopInit, Init, PredictionOK
<1>s. SampleOK
  BY DEF LoopInit, Init, SampleOK
<1>4. MaxWatts - Idle + ErrorBound \in Nat /\ MaxWatts + ErrorBound \in Nat
  BY ClosedLoopAssumption DEF MaxWatts
<1>5. Scale * 0 <= Scale * (MaxWatts - Idle + ErrorBound)
      /\ Scale * 0 <= Scale * (MaxWatts + ErrorBound)
  BY <1>4, ClosedLoopAssumption, TimesMonotone
<1>6. OffsetOK
  BY <1>4, <1>5, ClosedLoopAssumption DEF LoopInit, OffsetOK, OffsetBounded
<1> QED
  BY <1>1, <1>2, <1>3, <1>s, <1>6 DEF LoopInv

\* A calibration keeps the offset in its bounds.
LEMMA OffsetRange ==
    ASSUME LoopInv, pc = "control"
    PROVE  /\ Offset \in Int
           /\ -Scale * (MaxWatts - Idle + ErrorBound) <= Offset
           /\ Offset <= Scale * (MaxWatts + ErrorBound)
<1> DEFINE lo == MaxWatts - Idle + ErrorBound
           hi == MaxWatts + ErrorBound
           d == actual_power - prev_prediction
<1>1. lo \in Nat /\ hi \in Nat /\ Scale \in Nat /\ MaxWatts \in Nat /\ Idle \in Nat
      /\ ErrorBound \in Nat
  BY ClosedLoopAssumption DEF MaxWatts
<1>2. d \in Int /\ -lo <= d /\ d <= hi
  BY <1>1 DEF LoopInv, PredictionOK
<1>3. calibration_offset \in Int /\ -Scale * lo <= calibration_offset
      /\ calibration_offset <= Scale * hi
  BY DEF LoopInv, OffsetOK, OffsetBounded
<1> HIDE DEF lo, hi, d
<1>4. Scale * (-lo) <= Scale * d /\ Scale * d <= Scale * hi
      /\ Scale * d \in Int /\ Scale * hi \in Int /\ Scale * (-lo) \in Int
  BY <1>1, <1>2, TimesMonotone
<1>5. Scale * (-lo) = -Scale * lo
  BY <1>1
<1>6. /\ Calibrated(calibration_offset) \in Int
      /\ -Scale * lo <= Calibrated(calibration_offset)
      /\ Calibrated(calibration_offset) <= Scale * hi
  <2> DEFINE x == Scale * d  l == Scale * (-lo)  h == Scale * hi
             o == calibration_offset
  <2>1. x \in Int /\ l \in Int /\ h \in Int /\ o \in Int
        /\ l <= x /\ x <= h /\ l <= o /\ o <= h
    BY <1>3, <1>4, <1>5
  <2> HIDE DEF x, l, h, o
  <2>2. (4 * o + x) \div 5 \in Int /\ l <= (4 * o + x) \div 5
        /\ (4 * o + x) \div 5 <= h
    BY <2>1
  <2> QED
    BY <2>2, <1>5 DEF Calibrated, x, l, h, o, d
<1> QED
  BY <1>3, <1>6 DEF Offset, lo, hi

-----------------------------------------------------------------------------
(* Every step of the loop is a step of the controller or leaves it alone.  *)

LEMMA PowersDrawn ==
    ASSUME LoopInv
    PROVE  Watts(Util) \in Powers /\ Watts(Util) \in Idle..MaxWatts
<1>1. Watts(Util) \in Idle..MaxWatts
  BY UtilRange, WattsRange DEF LoopInv, PlantOK
<1>2. Idle..MaxWatts \subseteq Powers
  BY ClosedLoopAssumption DEF MaxWatts
<1> QED
  BY <1>1, <1>2

LEMMA LoopStepIsStep == LoopInv /\ [LoopNext]_loopVars => [Next]_vars
<1> SUFFICES ASSUME LoopInv, [LoopNext]_loopVars PROVE [Next]_vars
  OBVIOUS
<1> USE DEF Next, Controller, Environment
<1>1. CASE LoadChanges
  BY <1>1 DEF LoadChanges
<1>2. CASE BudgetChanges
  BY <1>2 DEF BudgetChanges
<1>3. CASE BudgetWritten
  BY <1>3 DEF BudgetWritten, plant
<1>4. CASE Measures
  BY <1>4, PowersDrawn, ClosedLoopAssumption DEF Measures, Measure, plant
<1>5. CASE Unpredicted
  <2>1. current_bandwidth \in 1..Full /\ current_bandwidth2 \in 1..Full
    BY DEF LoopInv, TypeOK, Limits
  <2>2. ASSUME NEW found, IncreaseCritical(found)
        PROVE  found \in Floor..Full
    BY <2>1, <2>2 DEF IncreaseCritical, Up
  <2>3. ASSUME NEW found, IncreaseUser(found)
        PROVE  found \in Floor..Full
    BY <2>1, <2>3 DEF IncreaseUser, Up
  <2> QED
    BY <1>5, <2>2, <2>3 DEF Unpredicted, Decide, plant
<1>6. CASE SearchUser
  <2>1. ASSUME NEW t, StrictUser(t)
        PROVE  t \in Floor..Full
    BY <2>1 DEF StrictUser, Down, LoopInv, TypeOK, Limits
  <2> QED
    BY <1>6, <2>1 DEF SearchUser, Decide, plant
<1>7. CASE SearchCritical
  <2>1. ASSUME NEW t, critical_power_capping(t)
        PROVE  t \in Floor..Full
    BY <2>1 DEF critical_power_capping, Down, LoopInv, TypeOK, Limits
  <2> QED
    BY <1>7, <2>1 DEF SearchCritical, Decide, plant
<1>8. CASE SearchEnds
  BY <1>8 DEF SearchEnds, Decide, plant
<1>9. CASE UNCHANGED loopVars
  BY <1>9 DEF loopVars
<1> QED
  BY <1>1, <1>2, <1>3, <1>4, <1>5, <1>6, <1>7, <1>8, <1>9 DEF LoopNext, LoopController

-----------------------------------------------------------------------------
(* The invariant is inductive.                                             *)

LEMMA PlantStep == LoopInv /\ [LoopNext]_loopVars => PlantOK'
<1> SUFFICES ASSUME LoopInv, [LoopNext]_loopVars PROVE PlantOK'
  OBVIOUS
<1>1. Util \in Cgroups
  BY UtilRange DEF LoopInv, PlantOK
<1> QED
  BY <1>1 DEF LoopInv, PlantOK, LoopNext, LoopController, loopVars, plant,
       LoadChanges, BudgetChanges, BudgetWritten, Measures, Unpredicted,
       SearchUser, SearchCritical, SearchEnds

\* prev_prediction is assigned by the two searches, actual_power by the
\* samples.
LEMMA PredictionStep == LoopInv /\ [LoopNext]_loopVars => PredictionOK'
<1> SUFFICES ASSUME LoopInv, [LoopNext]_loopVars PROVE PredictionOK'
  OBVIOUS
<1> USE DEF LoopInv
<1>1. PredictionOK /\ PlantOK /\ TypeOK
  OBVIOUS
<1>2. CASE LoadChanges \/ BudgetChanges \/ BudgetWritten \/ UNCHANGED loopVars
  BY <1>1, <1>2 DEF PredictionOK, LoadChanges, BudgetChanges, BudgetWritten, vars,
       loopVars, TruncateBudget, WriteBudget
<1>3. CASE Measures
  BY <1>1, <1>3, PowersDrawn DEF PredictionOK, Measures, ReadBudget, EnergySample,
       Sample
<1>4. CASE Unpredicted
  BY <1>1, <1>4 DEF PredictionOK, Unpredicted, Iterated, StrictBabyUser,
       StrictBabyCritical, StrictBabyNothing, IncreaseCritical, IncreaseUser,
       IncreaseNothing, DeadBand
<1>5. CASE SearchUser
  <2> DEFINE t == Highest(UserCandidates)
  <2>1. StrictUser(t) /\ prev_prediction' = predict(Lowered(utilisation, "user", t))
    BY <1>5 DEF SearchUser
  <2>2. t \in Limits /\ pc' = "budget"
    BY <1>1, <2>1 DEF StrictUser, Down, TypeOK, Limits, Iterated
  <2> HIDE DEF t
  <2>3. Lowered(utilisation, "user", t) \in Cgroups
    BY <1>1, <2>2, LoweredRange DEF PlantOK
  <2>4. predict(Lowered(utilisation, "user", t))
            \in (Idle - ErrorBound)..(MaxWatts + ErrorBound)
    BY <1>1, <2>3, PredictRange DEF PlantOK
  <2> QED
    BY <2>1, <2>2, <2>4 DEF PredictionOK
<1>6. CASE SearchCritical
  <2> DEFINE tried == IF CriticalCandidates # {} THEN Highest(CriticalCandidates)
                      ELSE LastTried
  <2>1. prev_prediction' = predict(Lowered(UserAtFloor, "critical", tried))
        /\ pc' = "user_write"
    BY <1>6 DEF SearchCritical, critical_power_capping
  <2>2. current_bandwidth2 \in 1..Full
    BY <1>1 DEF TypeOK, Limits
  <2>3. ASSUME CriticalCandidates = {} PROVE tried \in Limits
    <3>1. current_bandwidth2 - 1 \in Nat
      BY <2>2
    <3>2. (current_bandwidth2 - 1) % 5 \in 0..(current_bandwidth2 - 1)
      BY <3>1, RemainderBounds
    <3> DEFINE r == (current_bandwidth2 - 1) % 5
    <3> HIDE DEF r
    <3>3. 1 + r \in 1..Full
      BY <2>2, <3>2 DEF r
    <3>4. LastTried = 1 + r
      BY DEF LastTried, r
    <3>5. LastTried \in Limits
      BY <3>3, <3>4 DEF Limits
    <3> QED
      BY <2>3, <3>5
  <2>4. ASSUME CriticalCandidates # {} PROVE tried \in Limits
    <3>1. tried \in Down(current_bandwidth2) \cup {Floor}
      BY <1>6, <2>4 DEF SearchCritical, critical_power_capping
    <3> QED
      BY <2>2, <3>1, DownRange DEF Limits
  <2>0. tried \in Limits
    BY <2>3, <2>4
  <2> HIDE DEF tried
  <2>5. UserAtFloor \in Cgroups
    BY <1>1 DEF UserAtFloor, PlantOK, Cgroups
  <2>6. Lowered(UserAtFloor, "critical", tried) \in Cgroups
    BY <2>0, <2>5, LoweredRange
  <2>7. predict(Lowered(UserAtFloor, "critical", tried))
            \in (Idle - ErrorBound)..(MaxWatts + ErrorBound)
    BY <1>1, <2>6, PredictRange DEF PlantOK
  <2> QED
    BY <2>1, <2>7 DEF PredictionOK
<1>7. CASE SearchEnds
  BY <1>1, <1>7 DEF PredictionOK, SearchEnds, UserToFloor, Iterated
<1> QED
  BY <1>2, <1>3, <1>4, <1>5, <1>6, <1>7 DEF LoopNext, LoopController

LEMMA SampleStep == LoopInv /\ [LoopNext]_loopVars => SampleOK'
<1> SUFFICES ASSUME LoopInv, [LoopNext]_loopVars PROVE SampleOK'
  OBVIOUS
<1>1. SampleOK
  BY DEF LoopInv
<1>2. CASE LoadChanges \/ BudgetChanges \/ BudgetWritten \/ UNCHANGED loopVars
  <2>1. UNCHANGED <<pc, actual_power, target_power, utilisation, metrics_data>>
    BY <1>2 DEF LoadChanges, BudgetChanges, BudgetWritten, vars, loopVars,
         TruncateBudget, WriteBudget
  <2> QED
    BY <1>1, <2>1 DEF SampleOK, Watts, NearBudget
<1>3. CASE Measures
  <2>1. CASE Sample("ok", Watts(Util)) /\ utilisation' = Util
    <3>1. actual_power' = Watts(Util) /\ pc' = "control" /\ metrics_data' = "ok"
      BY <2>1 DEF Sample
    <3>2. Watts(utilisation') = Watts(Util)
      BY <2>1
    <3>3. Watts(utilisation)' = Watts(utilisation')
      BY DEF Watts
    <3> QED
      BY <3>1, <3>2, <3>3 DEF SampleOK
  <2>2. CASE ReadBudget \/ EnergySample(Watts(Util))
    <3>1. pc' \notin {"control", "user_write"}
      BY <2>2 DEF ReadBudget, EnergySample
    <3> QED
      BY <3>1 DEF SampleOK
  <2> QED
    BY <1>3, <2>1, <2>2 DEF Measures
<1>4. CASE Unpredicted \/ SearchUser \/ SearchEnds
  <2>1. pc' = "budget"
    BY <1>4 DEF Unpredicted, SearchUser, SearchEnds, Iterated, StrictBabyUser,
         StrictBabyCritical, StrictBabyNothing, IncreaseCritical, IncreaseUser,
         IncreaseNothing, DeadBand, StrictUser, UserToFloor
  <2> QED
    BY <2>1 DEF SampleOK
<1>5. CASE SearchCritical
  <2>1. pc' = "user_write" /\ UNCHANGED <<actual_power, target_power>>
        /\ NearBudget(actual_power)
    BY <1>5 DEF SearchCritical, critical_power_capping, Search, Strict
  <2> QED
    BY <2>1 DEF SampleOK, NearBudget
<1> QED
  BY <1>2, <1>3, <1>4, <1>5 DEF LoopNext, LoopController

\* Only the decisions calibrate.
LEMMA OffsetStep == LoopInv /\ [LoopNext]_loopVars => OffsetOK'
<1> SUFFICES ASSUME LoopInv, [LoopNext]_loopVars PROVE OffsetOK'
  OBVIOUS
<1>1. OffsetOK
  BY DEF LoopInv
<1>2. CASE UNCHANGED calibration_offset
  BY <1>1, <1>2 DEF OffsetOK, OffsetBounded, MaxWatts
<1>3. CASE Unpredicted \/ SearchUser \/ SearchCritical
  <2>1. pc = "control" /\ calibration_offset' = Offset
    BY <1>3 DEF Unpredicted, SearchUser, SearchCritical, StrictBabyUser,
         StrictBabyCritical, StrictBabyNothing, IncreaseCritical, IncreaseUser,
         IncreaseNothing, DeadBand, StrictUser, critical_power_capping, BabyStep,
         Search, Strict, Increase, Control
  <2> QED
    BY <2>1, OffsetRange DEF OffsetOK, OffsetBounded
<1> QED
  BY <1>2, <1>3 DEF LoopNext, LoopController, loopVars, LoadChanges, BudgetChanges,
       BudgetWritten, Measures, SearchEnds

LEMMA LoopInvStep == LoopInv /\ [LoopNext]_loopVars => LoopInv'
<1> SUFFICES ASSUME LoopInv, [LoopNext]_loopVars PROVE LoopInv'
  OBVIOUS
<1>1. TypeOK'
  BY LoopStepIsStep, NextType DEF LoopInv
<1> QED
  BY <1>1, PlantStep, PredictionStep, SampleStep, OffsetStep DEF LoopInv

LEMMA LoopInvariant == LoopSpec => []LoopInv
BY LoopInitInv, LoopInvStep, PTL DEF LoopSpec

\* For every machine, every set of loads, every model of bounded error and any
\* number of changes: calibrating against stale predictions, and against the
\* initial 0, never takes the offset out of its bounds.
THEOREM OffsetStaysBounded == LoopSpec => []OffsetBounded
<1>1. LoopInv => OffsetBounded
  BY DEF LoopInv, OffsetOK
<1> QED
  BY <1>1, LoopInvariant, PTL

\* The loop is a special case of the controller with an open model, so what is
\* proved of the controller holds of it.
THEOREM LoopImplementsController == LoopSpec => Spec
<1>1. LoopInit => Init
  BY DEF LoopInit
<1> QED
  BY <1>1, LoopInvariant, LoopStepIsStep, PTL DEF LoopSpec, Spec

-----------------------------------------------------------------------------
(* Raising a limit.                                                        *)

\* What a decision of a healthy loop starts from.
LEMMA HealthyLoop ==
    ASSUME Healthy, LoopInv, HealthyInv
    PROVE  /\ LimitFacts
           /\ utilisation \in Cgroups
           /\ load \in [user : 0..Full, critical : 0..Full]
           /\ ~write_errors
<1>1. LimitFacts
  BY HealthyLimits DEF LoopInv
<1> QED
  BY <1>1, ClosedLoopAssumption DEF LoopInv, PlantOK, HealthyInv

\* A throttle that recover_bandwidth finds is predicted to fit the budget; with
\* a model that does not underestimate, it does.
LEMMA FoundFits ==
    ASSUME LoopInv, pc = "control", model_error >= 0, NEW g \in {"user", "critical"},
           NEW current \in Limits, recover_bandwidth(g, current) # current
    PROVE  LET found == recover_bandwidth(g, current)
           IN  /\ found \in (current + 1)..Full
               /\ RaisedMap(g, found, current) \in Cgroups
               /\ Watts(RaisedMap(g, found, current)) <= target_power
<1> DEFINE found == recover_bandwidth(g, current)
           fits == {t \in Up(current) :
                       Scale * predict(RaisedMap(g, t, current)) + Offset
                           <= Scale * target_power + Offset}
           m == RaisedMap(g, found, current)
<1>1. fits \subseteq (current + 1)..Full /\ fits \subseteq Limits
  BY DEF Up, Limits
<1>2. fits # {} /\ found = Highest(fits)
  BY DEF recover_bandwidth
<1>3. found \in fits
  <2> HIDE DEF fits, found
  <2> QED
    BY <1>1, <1>2, HighestElement, Zenon
<1>4. found \in (current + 1)..Full
  BY <1>1, <1>3
<1>5. m \in Cgroups
  <2> HIDE DEF found
  <2>1. utilisation \in [user : 0..Full, critical : 0..Full]
    BY DEF LoopInv, PlantOK, Cgroups
  <2>2. utilisation[g] \in 0..Full
    BY <2>1
  <2>3. MaxOf(utilisation[g], found) \in 0..Full
    BY <1>4, <2>2 DEF MaxOf, Limits
  <2> QED
    BY <2>1, <2>2, <2>3 DEF RaisedMap, Cgroups
<1>6. Scale * predict(m) + Offset <= Scale * target_power + Offset
  BY <1>3
<1>7. Watts(m) <= target_power
  <2> HIDE DEF m
  <2>1. Watts(m) \in Int /\ predict(m) \in Int /\ Watts(m) <= predict(m)
    BY <1>5, WattsRange, ClosedLoopAssumption DEF predict, LoopInv, PlantOK, MaxWatts
  <2>2. target_power \in Int /\ Scale \in Nat \ {0}
    BY ClosedLoopAssumption DEF LoopInv, TypeOK, NoBudget
  <2>3. Offset \in Int
    BY OffsetRange
  <2>4. Scale * predict(m) \in Int /\ Scale * target_power \in Int
    BY <2>1, <2>2
  <2>5. Scale * predict(m) <= Scale * target_power
    BY <1>6, <2>3, <2>4
  <2>6. predict(m) <= target_power
    BY <2>1, <2>2, <2>5, TimesCancels
  <2> QED
    BY <2>1, <2>2, <2>6
<1> QED
  BY <1>4, <1>5, <1>7

\* The power after the limit of one cgroup is raised the way increase_bandwidth
\* does, the limit being current up to the percent a read-back may drop.
LEMMA RaiseBounded ==
    ASSUME LoopInv, pc = "control", SameLoad, model_error >= 0,
           load \in [user : 0..Full, critical : 0..Full], UNCHANGED load,
           NEW g \in {"user", "critical"}, NEW o \in {"user", "critical"} \ {g},
           NEW current \in Limits, current < Full,
           current <= cpu_max[g], cpu_max[g] <= current + 1,
           NEW f \in [user : Limits, critical : Limits], cpu_max' = f,
           f[g] = Raised(current, recover_bandwidth(g, current)),
           f[o] = cpu_max[o]
    PROVE  Watts(Util') <= MaxOf(target_power, actual_power + ForcedStep)
<1> DEFINE found == recover_bandwidth(g, current)
           v == [x \in {"user", "critical"} |-> MinOf(f[x], load[x])]
<1>t. /\ cpu_max \in [user : Limits, critical : Limits]
      /\ \A x \in {"user", "critical"} :
             cpu_max[x] \in 1..Full /\ load[x] \in 0..Full /\ f[x] \in 1..Full
      /\ current \in 1..Full
  BY DEF LoopInv, TypeOK, Limits
<1>0. Util' = v
  BY DEF Util
<1>1. Util \in Cgroups /\ utilisation = Util /\ actual_power = Watts(Util)
  BY UtilRange DEF LoopInv, PlantOK, SampleOK, SameLoad
<1>2. v \in Cgroups
  <2>1. \A x \in {"user", "critical"} : MinOf(f[x], load[x]) \in 0..Full
    BY <1>t DEF MinOf
  <2> QED
    BY <2>1 DEF Cgroups
<1>3. \A x \in {"user", "critical"} :
          v[x] = MinOf(f[x], load[x]) /\ Util[x] = MinOf(cpu_max[x], load[x])
  BY DEF Util
<1>4. v[o] = Util[o]
  BY <1>3
<1>5. {g, o} = {"user", "critical"}
  OBVIOUS
<1>6. Watts(v) \in Int /\ Watts(Util) \in Int /\ target_power \in Int
      /\ ForcedStep \in Int
  <2>1. Span.user \in Nat /\ Span.critical \in Nat /\ Idle \in Nat
    BY ClosedLoopAssumption
  <2>2. 5 * MaxOf(Span.user, Span.critical) \in Nat /\ Full \in Nat \ {0}
    BY <2>1 DEF MaxOf
  <2>3. (5 * MaxOf(Span.user, Span.critical)) \div Full \in Int
    BY <2>2
  <2> QED
    BY <1>1, <1>2, <2>1, <2>3, WattsRange DEF MaxWatts, LoopInv, TypeOK, NoBudget,
       ForcedStep
<1> HIDE DEF v
<1>7. CASE f[g] <= current + 5
  <2>1. v[g] <= Util[g] + 5
    BY <1>t, <1>3, <1>7 DEF MinOf
  <2>2. \/ v.user <= Util.user + 5 /\ v.critical <= Util.critical
        \/ v.user <= Util.user /\ v.critical <= Util.critical + 5
    <3>1. v.user \in Int /\ v.critical \in Int /\ Util.user \in Int
          /\ Util.critical \in Int
      BY <1>1, <1>2 DEF Cgroups
    <3>2. CASE g = "user"
      BY <1>4, <2>1, <3>1, <3>2
    <3>3. CASE g = "critical"
      BY <1>4, <2>1, <3>1, <3>3
    <3> QED
      BY <3>2, <3>3
  <2>3. Watts(v) <= Watts(Util) + ForcedStep
    BY <1>1, <1>2, <2>2, WattsOfStep
  <2> QED
    BY <1>0, <1>1, <1>6, <2>3, SMTT(30) DEF MaxOf
<1>8. CASE ~(f[g] <= current + 5)
  <2> DEFINE m == RaisedMap(g, found, current)
  <2>1. found # current
    BY <1>t, <1>8 DEF Raised, MinOf
  <2>2. /\ found \in (current + 1)..Full /\ m \in Cgroups
        /\ Watts(m) <= target_power
    BY <2>1, FoundFits
  <2>3. f[g] = found
    BY <1>t, <1>8, <2>1, <2>2 DEF Raised, MinOf
  <2>4. m[o] = Util[o] /\ m[g] = IF Util[g] >= current THEN MaxOf(Util[g], found)
                                  ELSE Util[g]
    <3>1. Util \in [user : 0..Full, critical : 0..Full]
      BY <1>1 DEF Cgroups
    <3> QED
      BY <1>1, <3>1 DEF RaisedMap
  <2> HIDE DEF m, found
  <2>5. v[g] <= m[g]
    BY <1>t, <1>3, <2>2, <2>3, <2>4 DEF MinOf, MaxOf
  <2>6. v.user <= m.user /\ v.critical <= m.critical
    <3>1. v.user \in Int /\ v.critical \in Int
      BY <1>2 DEF Cgroups
    <3>2. CASE g = "user"
      BY <1>4, <2>4, <2>5, <3>1, <3>2
    <3>3. CASE g = "critical"
      BY <1>4, <2>4, <2>5, <3>1, <3>3
    <3> QED
      BY <3>2, <3>3
  <2>7. Watts(v) <= Watts(m) /\ Watts(m) \in Int
    BY <1>2, <2>2, <2>6, WattsMonotone, WattsRange, ClosedLoopAssumption DEF MaxWatts
  <2> QED
    BY <1>0, <1>1, <1>6, <2>2, <2>7 DEF MaxOf
<1> QED
  BY <1>7, <1>8

\* Below 94% of the budget only the two branches of increase_bandwidth change
\* a limit.
LEMMA OvershootStep ==
    ASSUME Healthy, LoopInv, HealthyInv, LoopNext, cpu_max' # cpu_max,
           BelowBudget(actual_power), SameLoad, model_error >= 0
    PROVE  Watts(Util') <= MaxOf(target_power, actual_power + ForcedStep)
<1> DEFINE Goal == Watts(Util') <= MaxOf(target_power, actual_power + ForcedStep)
<1>h. LimitFacts /\ load \in [user : 0..Full, critical : 0..Full] /\ ~write_errors
  BY HealthyLoop
<1>b. ~NearBudget(actual_power)
  BY BandsDisjoint DEF LoopInv
<1>1. CASE LoadChanges \/ BudgetChanges \/ BudgetWritten \/ Measures
  <2>1. UNCHANGED cpu_max
    BY <1>1, SMTT(30) DEF LoadChanges, BudgetChanges, BudgetWritten, Measures, vars, throttles,
         TruncateBudget, WriteBudget, ReadBudget, EnergySample, Sample
  <2> QED
    BY <2>1
<1>2. CASE SearchUser \/ SearchCritical \/ SearchEnds
  BY <1>2, <1>b DEF SearchUser, SearchCritical, SearchEnds, StrictUser,
       critical_power_capping, UserToFloor, Search, Strict, LoopInv, SampleOK
<1>3. CASE Unpredicted
  <2>0. UNCHANGED load
    BY <1>3 DEF Unpredicted, plant
  <2>1. CASE StrictBabyUser \/ StrictBabyCritical \/ StrictBabyNothing
    BY <2>1, <1>b DEF StrictBabyUser, StrictBabyCritical, StrictBabyNothing,
         BabyStep, Strict
  <2>2. CASE IncreaseNothing \/ DeadBand
    BY <2>2 DEF IncreaseNothing, DeadBand, throttles
  <2>3. CASE IncreaseCritical(recover_bandwidth("critical", current_bandwidth2))
    <3> DEFINE found == recover_bandwidth("critical", current_bandwidth2)
    <3>1. /\ pc = "control" /\ current_bandwidth2 < Full
          /\ current_bandwidth2' = Raised(current_bandwidth2, found)
          /\ found \in Up(current_bandwidth2) \cup {current_bandwidth2}
      BY <2>3 DEF IncreaseCritical, Increase, Control
    <3>2. current_bandwidth2' \in Limits
      BY <1>h, <3>1, RaisedRange DEF LimitFacts, Limits
    <3>3. cpu_max' = [[cpu_max EXCEPT !["user"] = Floor]
                          EXCEPT !["critical"] = current_bandwidth2']
      BY <1>h, <2>3 DEF IncreaseCritical, set_cpu_limit
    <3>4. cpu_max.user = Floor
      BY <1>h, <3>1 DEF LimitFacts
    <3> HIDE DEF found
    <3> DEFINE f == cpu_max'
    <3>5. /\ f \in [user : Limits, critical : Limits]
          /\ f["critical"] = current_bandwidth2' /\ f["user"] = cpu_max["user"]
      BY <1>h, <3>2, <3>3, <3>4 DEF LimitFacts
    <3>6. /\ current_bandwidth2 \in Limits
          /\ current_bandwidth2 <= cpu_max["critical"]
          /\ cpu_max["critical"] <= current_bandwidth2 + 1
      BY <1>h DEF LimitFacts
    <3> HIDE DEF f
    <3>7. f["critical"] = Raised(current_bandwidth2,
                                 recover_bandwidth("critical", current_bandwidth2))
      BY <3>1, <3>5 DEF found
    <3> QED
      BY <1>h, <2>0, <3>1, <3>5, <3>6, <3>7, RaiseBounded DEF f
  <2>4. CASE IncreaseUser(recover_bandwidth("user", current_bandwidth))
    <3> DEFINE found == recover_bandwidth("user", current_bandwidth)
    <3>1. /\ pc = "control" /\ current_bandwidth < Full
          /\ current_bandwidth' = Raised(current_bandwidth, found)
          /\ found \in Up(current_bandwidth) \cup {current_bandwidth}
      BY <2>4 DEF IncreaseUser, Increase, Control
    <3>2. current_bandwidth' \in Limits
      BY <1>h, <3>1, RaisedRange DEF LimitFacts, Limits
    <3>3. cpu_max' = [cpu_max EXCEPT !["user"] = current_bandwidth']
      BY <1>h, <2>4 DEF IncreaseUser, set_cpu_limit
    <3> HIDE DEF found
    <3> DEFINE f == cpu_max'
    <3>5. /\ f \in [user : Limits, critical : Limits]
          /\ f["user"] = current_bandwidth' /\ f["critical"] = cpu_max["critical"]
      BY <1>h, <3>2, <3>3 DEF LimitFacts
    <3>6. /\ current_bandwidth \in Limits
          /\ current_bandwidth <= cpu_max["user"]
          /\ cpu_max["user"] <= current_bandwidth + 1
      BY <1>h DEF LimitFacts, Limits
    <3> HIDE DEF f
    <3>7. f["user"] = Raised(current_bandwidth,
                             recover_bandwidth("user", current_bandwidth))
      BY <3>1, <3>5 DEF found
    <3> QED
      BY <1>h, <2>0, <3>1, <3>5, <3>6, <3>7, RaiseBounded DEF f
  <2> QED
    BY <1>3, <2>1, <2>2, <2>3, <2>4 DEF Unpredicted
<1> QED
  BY <1>1, <1>2, <1>3 DEF LoopNext, LoopController

LEMMA LoopHealthy == ASSUME Healthy PROVE LoopSpec => []HealthyInv
BY LoopImplementsController, HealthyHolds, PTL

\* For every machine, every load and every model that does not underestimate:
\* raising a limit takes the power past the budget by no more than the forced
\* step of 5%, although recover_bandwidth cancels the offset out.
THEOREM OvershootStaysBounded == ASSUME Healthy PROVE LoopSpec => OvershootBounded
<1>1. LoopInv /\ HealthyInv /\ [LoopNext]_loopVars
      => [cpu_max' # cpu_max /\ BelowBudget(actual_power) /\ SameLoad
              /\ model_error >= 0
          => Watts(Util') <= MaxOf(target_power, actual_power + 1
                 + (5 * MaxOf(Span.user, Span.critical)) \div Full)]_loopVars
  <2> SUFFICES ASSUME LoopInv, HealthyInv, LoopNext, cpu_max' # cpu_max,
                      BelowBudget(actual_power), SameLoad, model_error >= 0
               PROVE  Watts(Util') <= MaxOf(target_power, actual_power + 1
                          + (5 * MaxOf(Span.user, Span.critical)) \div Full)
    OBVIOUS
  <2>1. Watts(Util') <= MaxOf(target_power, actual_power + ForcedStep)
    BY OvershootStep
  <2>2. actual_power \in Int
    BY DEF LoopInv, TypeOK, NoReading
  <2>3. (5 * MaxOf(Span.user, Span.critical)) \div Full \in Int
    <3>1. 5 * MaxOf(Span.user, Span.critical) \in Nat
      BY ClosedLoopAssumption DEF MaxOf
    <3> QED
      BY <3>1
  <2>4. actual_power + ForcedStep
            = actual_power + 1 + (5 * MaxOf(Span.user, Span.critical)) \div Full
    BY <2>2, <2>3 DEF ForcedStep
  <2> QED
    BY <2>1, <2>4
<1> QED
  BY <1>1, LoopInvariant, LoopHealthy, PTL DEF LoopSpec, OvershootBounded

-----------------------------------------------------------------------------
(* The searches.                                                           *)

\* A throttle is accepted on the power the machine will draw plus the
\* misprediction.
LEMMA MeetsIsWatts ==
    ASSUME LoopInv, pc = "control", NEW u \in Cgroups
    PROVE  /\ Meets(u) => Scale * Watts(u) + Misprediction <= Scale * target_power
           /\ Misprediction <= 0 /\ ~Meets(u) => Watts(u) > target_power
<1>1. Watts(u) \in Int /\ model_error \in Int
  BY WattsRange, ClosedLoopAssumption DEF LoopInv, PlantOK, MaxWatts
<1>2. target_power \in Int /\ Scale \in Nat \ {0}
  BY ClosedLoopAssumption DEF LoopInv, TypeOK, NoBudget
<1>3. Offset \in Int
  BY OffsetRange
<1> DEFINE w == Scale * Watts(u)  e == Scale * model_error  b == Scale * target_power
<1>4. w \in Int /\ e \in Int /\ b \in Int
  BY <1>1, <1>2
<1>5. Scale * predict(u) = w + e
  BY <1>1, <1>2 DEF predict
<1>6. Misprediction = e + Offset
  BY DEF Misprediction
<1>7. Meets(u) <=> w + e + Offset <= b
  BY <1>5 DEF Meets
<1>8. Watts(u) <= target_power => w <= b
  BY <1>1, <1>2, TimesMonotone
<1>9. Scale * Watts(u) = w /\ Scale * target_power = b
  OBVIOUS
<1> HIDE DEF w, e, b
<1> QED
  BY <1>1, <1>2, <1>3, <1>4, <1>6, <1>7, <1>8, <1>9

LEMMA CandidateRanges ==
    ASSUME LoopInv
    PROVE  UserCandidates \subseteq Limits /\ CriticalCandidates \subseteq Limits
<1>1. current_bandwidth \in 1..Full /\ current_bandwidth2 \in 1..Full
  BY DEF LoopInv, TypeOK, Limits
<1> QED
  BY <1>1 DEF UserCandidates, CriticalCandidates, Down, Limits

LEMMA ExcessMonotone ==
    ASSUME LoopInv, pc = "control", NEW a \in Int, NEW b \in Int, a <= b,
           Scale * b + Misprediction <= Scale * target_power
    PROVE  Scale * a + Misprediction <= Scale * target_power
<1>1. Scale * a <= Scale * b /\ Scale * a \in Int /\ Scale * b \in Int
  BY TimesMonotone, ClosedLoopAssumption
<1>2. Misprediction \in Int
  <2>1. Offset \in Int /\ model_error \in Int
    BY OffsetRange, ClosedLoopAssumption DEF LoopInv, PlantOK
  <2>2. Scale * model_error \in Int
    BY <2>1, ClosedLoopAssumption
  <2> QED
    BY <2>1, <2>2 DEF Misprediction
<1>3. Scale * target_power \in Int
  BY ClosedLoopAssumption DEF LoopInv, TypeOK, NoBudget
<1> DEFINE x == Scale * a  y == Scale * b  z == Scale * target_power
<1>4. x \in Int /\ y \in Int /\ z \in Int /\ x <= y /\ y + Misprediction <= z
  BY <1>1, <1>3
<1> HIDE DEF x, y, z
<1>5. x + Misprediction <= z
  BY <1>2, <1>4
<1> QED
  BY <1>5 DEF x, z

LEMMA UserSearchMeets ==
    ASSUME Healthy, LoopInv, HealthyInv, SearchUser, SameLoad
    PROVE  Scale * Watts(UtilUnder(Decided)) + Misprediction <= Scale * target_power
<1> DEFINE t == Highest(UserCandidates)
           m == Lowered(utilisation, "user", t)
           v == UtilUnder(cpu_max')
<1>h. LimitFacts /\ load \in [user : 0..Full, critical : 0..Full] /\ ~write_errors
      /\ utilisation \in Cgroups
  BY HealthyLoop
<1>1. t \in UserCandidates
  BY CandidateRanges, HighestElement DEF SearchUser
<1>2. /\ StrictUser(t) /\ pc = "control" /\ pc' = "budget"
      /\ cpu_max' \in set_cpu_limit("user", t)
  BY DEF SearchUser, StrictUser, Search, Strict, Control, Iterated
<1>3. t \in Limits /\ t <= current_bandwidth /\ Meets(m)
  BY <1>h, <1>1 DEF UserCandidates, Down, LimitFacts, Limits
<1> HIDE DEF t
<1>4. m \in Cgroups
  BY <1>h, <1>3, LoweredRange
<1>5. Scale * Watts(m) + Misprediction <= Scale * target_power
  <2> HIDE DEF m
  <2> QED
    BY <1>2, <1>3, <1>4, MeetsIsWatts
<1>6. cpu_max'.user = t /\ cpu_max'.critical = cpu_max.critical
  BY <1>h, <1>2, <1>3, WriteLimit DEF LimitFacts
<1>7. Decided = cpu_max'
  BY <1>2 DEF Decided
<1>8. /\ v.user = MinOf(t, load.user)
      /\ v.critical = MinOf(cpu_max.critical, load.critical)
  BY <1>6 DEF UtilUnder
<1>9. /\ m.user = MinOf(MinOf(cpu_max.user, load.user), t)
      /\ m.critical = MinOf(cpu_max.critical, load.critical)
  BY <1>h DEF Lowered, SameLoad, Util, Cgroups
<1>10. /\ cpu_max.user \in 1..Full /\ cpu_max.critical \in 1..Full /\ t \in 1..Full
       /\ t <= cpu_max.user /\ load.user \in 0..Full /\ load.critical \in 0..Full
  BY <1>h, <1>3 DEF LimitFacts, Limits
<1>11. v.user <= m.user /\ v.critical <= m.critical
       /\ v.user \in 0..Full /\ v.critical \in 0..Full
  BY <1>8, <1>9, <1>10 DEF MinOf
<1>12. v \in Cgroups
  BY <1>11 DEF UtilUnder, Cgroups
<1> HIDE DEF v, m
<1>13. Watts(v) <= Watts(m) /\ Watts(v) \in Int /\ Watts(m) \in Int
  BY <1>4, <1>11, <1>12, WattsMonotone, WattsRange, ClosedLoopAssumption DEF MaxWatts
<1> QED
  BY <1>2, <1>5, <1>7, <1>13, ExcessMonotone DEF v

LEMMA CriticalSearchMeets ==
    ASSUME Healthy, LoopInv, HealthyInv, SearchCritical, SameLoad
    PROVE  \/ Scale * Watts(UtilUnder(Decided)) + Misprediction <= Scale * target_power
           \/ Decided = [user |-> Floor, critical |-> Floor]
<1>h. LimitFacts /\ load \in [user : 0..Full, critical : 0..Full] /\ ~write_errors
      /\ utilisation \in Cgroups
  BY HealthyLoop
<1>1. pc = "control" /\ pc' = "user_write"
  BY DEF SearchCritical, critical_power_capping, Search, Strict, Control
<1>2. CASE CriticalCandidates = {}
  <2>1. cpu_max' = [cpu_max EXCEPT !["critical"] = Floor]
    BY <1>h, <1>2 DEF SearchCritical, critical_power_capping
  <2>2. Decided = [cpu_max' EXCEPT !["user"] = Floor]
    BY <1>1 DEF Decided
  <2> QED
    BY <1>h, <2>1, <2>2, Zenon DEF LimitFacts
<1>3. CASE CriticalCandidates # {}
  <2> DEFINE t == Highest(CriticalCandidates)
             m == Lowered(UserAtFloor, "critical", t)
             v == UtilUnder(Decided)
  <2>1. t \in CriticalCandidates
    BY <1>3, CandidateRanges, HighestElement
  <2>2. cpu_max' = [cpu_max EXCEPT !["critical"] = t]
    BY <1>h, <1>3 DEF SearchCritical, critical_power_capping
  <2>3. t \in Limits /\ t <= current_bandwidth2 /\ Meets(m)
    BY <1>h, <2>1 DEF CriticalCandidates, Down, LimitFacts, Limits
  <2> HIDE DEF t
  <2>4. UserAtFloor \in Cgroups
    BY <1>h DEF UserAtFloor, Cgroups
  <2>5. m \in Cgroups
    BY <2>3, <2>4, LoweredRange
  <2>6. Scale * Watts(m) + Misprediction <= Scale * target_power
    <3> HIDE DEF m
    <3> QED
      BY <1>1, <2>3, <2>5, MeetsIsWatts
  <2>7. Decided.user = Floor /\ Decided.critical = t
    BY <1>h, <1>1, <2>2 DEF Decided, LimitFacts
  <2>8. v.user = MinOf(Floor, load.user) /\ v.critical = MinOf(t, load.critical)
    BY <2>7 DEF UtilUnder
  <2>9. /\ m.user = Floor
        /\ m.critical = MinOf(MinOf(cpu_max.critical, load.critical), t)
    BY <1>h DEF Lowered, UserAtFloor, SameLoad, Util, Cgroups
  <2>10. /\ cpu_max.critical \in 1..Full /\ t \in 1..Full /\ t <= cpu_max.critical
         /\ load.user \in 0..Full /\ load.critical \in 0..Full
    BY <1>h, <2>3 DEF LimitFacts, Limits
  <2>11. v.user <= m.user /\ v.critical <= m.critical
         /\ v.user \in 0..Full /\ v.critical \in 0..Full
    BY <2>8, <2>9, <2>10 DEF MinOf
  <2>12. v \in Cgroups
    BY <2>11 DEF UtilUnder, Cgroups
  <2> HIDE DEF v, m
  <2>13. Watts(v) <= Watts(m) /\ Watts(v) \in Int /\ Watts(m) \in Int
    BY <2>5, <2>11, <2>12, WattsMonotone, WattsRange, ClosedLoopAssumption DEF MaxWatts
    <2> QED
    BY <1>1, <2>6, <2>13, ExcessMonotone DEF v
<1> QED
  BY <1>2, <1>3

\* For every machine, load and error of the model: a search leaves limits under
\* which the load exceeds the budget at most by what the calibrated prediction
\* underestimates, or both at the floor.
THEOREM OneSearchSuffices == ASSUME Healthy PROVE LoopSpec => SearchMeetsBudget
<1>1. LoopInv /\ HealthyInv /\ [LoopNext]_loopVars
      => [Search /\ pc' # pc /\ SameLoad
          => \/ Scale * Watts(UtilUnder(Decided)) + Misprediction <= Scale * target_power
             \/ Decided = [user |-> Floor, critical |-> Floor]]_loopVars
  <2> SUFFICES ASSUME LoopInv, HealthyInv, LoopNext, Search, pc' # pc, SameLoad
               PROVE  \/ Scale * Watts(UtilUnder(Decided)) + Misprediction <= Scale * target_power
                      \/ Decided = [user |-> Floor, critical |-> Floor]
    OBVIOUS
  <2>1. ~LoadChanges /\ ~BudgetChanges /\ ~BudgetWritten
    BY DEF LoadChanges, BudgetChanges, BudgetWritten, vars, TruncateBudget, WriteBudget
  <2>2. pc = "control" /\ NearBudget(actual_power) /\ ~BelowBudget(actual_power)
    BY BandsDisjoint DEF Search, Strict, Control, LoopInv
  <2>3. ~BabyStep
    BY DEF Search, BabyStep, Strict, LoopInv, TypeOK, NoBudget, NoReading, TOLERANCE
  <2>4. ~Measures /\ ~SearchEnds
    BY <2>2, SMTT(30) DEF Measures, SearchEnds, UserToFloor, ReadBudget, EnergySample, Sample
  <2>5. ~Unpredicted
    BY <2>2, <2>3 DEF Unpredicted, StrictBabyUser, StrictBabyCritical,
       StrictBabyNothing, IncreaseCritical, IncreaseUser, IncreaseNothing, Increase,
       DeadBand
  <2> QED
    BY <2>1, <2>4, <2>5, UserSearchMeets, CriticalSearchMeets DEF LoopNext,
       LoopController
<1> QED
  BY <1>1, LoopInvariant, LoopHealthy, PTL DEF LoopSpec, SearchMeetsBudget

\* The last throttle a search tries is 1% to 5%.
LEMMA LastUserTry ==
    ASSUME NEW c \in Limits, c > 5
    PROVE  \E t \in Down(c - 5) : t <= 5
<1>1. c \in 1..Full /\ c - 6 \in Nat
  BY DEF Limits
<1>2. ASSUME NEW n \in Nat
      PROVE  \E r \in 0..4, q \in Nat : n = 5 * q + r
  <2>1. n % 5 \in 0..4 /\ n % 5 = n - 5 * (n \div 5) /\ n \div 5 >= 0
        /\ n \div 5 \in Int
    OBVIOUS
  <2> QED
    BY <2>1
<1>3. PICK r \in 0..4, q \in Nat : c - 6 = 5 * q + r
  BY <1>1, <1>2, Zenon
<1>4. c - 5 - (1 + r) = 5 * q /\ 1 + r \in 1..(c - 5) /\ 1 + r <= 5
  BY <1>1, <1>3
<1>5. (5 * q) % 5 = 0
  BY <1>3
<1>6. 1 + r \in Down(c - 5)
  BY <1>4, <1>5 DEF Down
<1> QED
  BY <1>4, <1>6

LEMMA FailedSearch ==
    ASSUME Healthy, LoopInv, HealthyInv, SearchCritical, SameLoad, Misprediction <= 0
    PROVE  Watts(Lowered(utilisation, "user", 5)) > target_power
<1> DEFINE m == Lowered(utilisation, "user", 5)
<1>h. LimitFacts /\ load \in [user : 0..Full, critical : 0..Full] /\ ~write_errors
      /\ utilisation \in Cgroups
  BY HealthyLoop
<1>1. /\ pc = "control" /\ UserCandidates = {}
      /\ actual_power - target_power >= TOLERANCE
  BY DEF SearchCritical, critical_power_capping, Search, Strict, Control
<1>2. actual_power = Watts(utilisation) /\ target_power \in Int /\ actual_power \in Int
  BY <1>1 DEF LoopInv, SampleOK, TypeOK, NoBudget, NoReading
<1>3. /\ utilisation.user \in 0..Full /\ utilisation.critical \in 0..Full
      /\ m.user = MinOf(utilisation.user, 5) /\ m.critical = utilisation.critical
  BY <1>h DEF Lowered, Cgroups
<1>4. m \in Cgroups
  <2>1. MinOf(utilisation.user, 5) \in 0..Full
    BY <1>3 DEF MinOf
  <2> QED
    BY <1>h, <2>1 DEF Lowered, Cgroups
<1>5. Watts(m) \in Int
  BY <1>4, WattsRange, ClosedLoopAssumption DEF MaxWatts
<1>6. CASE current_bandwidth <= 5
  <2>1. cpu_max.user <= 5 /\ cpu_max.user \in 1..Full /\ load.user \in 0..Full
    BY <1>h, <1>6 DEF LimitFacts, Limits
  <2>2. utilisation.user = MinOf(cpu_max.user, load.user)
    BY DEF SameLoad, Util
  <2>3. utilisation.user <= m.user /\ utilisation.critical <= m.critical
    BY <1>3, <2>1, <2>2 DEF MinOf
  <2> HIDE DEF m
  <2>4. Watts(utilisation) <= Watts(m)
    BY <1>h, <1>4, <2>3, WattsMonotone
  <2> QED
    BY <1>1, <1>2, <1>5, <2>4 DEF TOLERANCE, m
<1>7. CASE current_bandwidth > 5
  <2>1. PICK t \in Down(current_bandwidth - 5) : t <= 5
    BY <1>h, <1>7, LastUserTry DEF LimitFacts
  <2>2. t \in Limits
    BY <1>h, <2>1 DEF Down, LimitFacts, Limits
  <2> DEFINE n == Lowered(utilisation, "user", t)
  <2>3. ~Meets(n)
    BY <1>1, <1>7, <1>h, <2>1 DEF UserCandidates, LimitFacts, Limits
  <2>4. n \in Cgroups
    BY <1>h, <2>2, LoweredRange
  <2>5. n.user = MinOf(utilisation.user, t) /\ n.critical = utilisation.critical
    BY <1>h DEF Lowered, Cgroups
  <2>6. n.user <= m.user /\ n.critical <= m.critical
    BY <1>3, <2>1, <2>2, <2>5 DEF MinOf, Limits
  <2> HIDE DEF m, n
  <2>7. Watts(n) > target_power
    BY <1>1, <2>3, <2>4, MeetsIsWatts
  <2>8. Watts(n) <= Watts(m) /\ Watts(n) \in Int
    BY <1>4, <2>4, <2>6, WattsMonotone, WattsRange, ClosedLoopAssumption DEF MaxWatts
  <2> QED
    BY <1>2, <1>5, <2>7, <2>8 DEF m
<1> QED
  BY <1>h, <1>6, <1>7 DEF LimitFacts, Limits

\* For every machine and load: with a calibrated prediction that does not
\* overestimate, the critical cgroup gives only what the user cgroup cannot,
\* to the 5% the search is coarse.
THEOREM CriticalGivesShortfall ==
    ASSUME Healthy PROVE LoopSpec => CriticalOnlyForShortfall
<1>1. LoopInv /\ HealthyInv /\ [LoopNext]_loopVars
      => [pc = "control" /\ SameLoad /\ Misprediction <= 0
              /\ cpu_max.critical' < cpu_max.critical
          => \/ Watts(Lowered(utilisation, "user", 5)) > target_power
             \/ cpu_max.user = Floor /\ NearBudget(actual_power)]_loopVars
  <2> SUFFICES ASSUME LoopInv, HealthyInv, LoopNext, pc = "control", SameLoad,
                      Misprediction <= 0, cpu_max.critical' < cpu_max.critical
               PROVE  \/ Watts(Lowered(utilisation, "user", 5)) > target_power
                      \/ cpu_max.user = Floor /\ NearBudget(actual_power)
    OBVIOUS
  <2>h. LimitFacts /\ ~write_errors
    BY HealthyLoop
  <2>0. cpu_max.critical' # cpu_max.critical
    BY <2>h DEF LimitFacts, Limits
  <2>1. CASE LoadChanges \/ BudgetChanges \/ BudgetWritten \/ Measures \/ SearchEnds
    BY <2>0, <2>1 DEF LoadChanges, BudgetChanges, BudgetWritten, Measures, vars,
       throttles, TruncateBudget, WriteBudget, ReadBudget, EnergySample, Sample,
       SearchEnds, UserToFloor
  <2>2. CASE SearchUser
    <3>1. PICK t : StrictUser(t)
      BY <2>2 DEF SearchUser
    <3>2. t \in Limits
      BY <2>h, <3>1 DEF StrictUser, Down, LimitFacts, Limits
    <3> QED
      BY <2>h, <2>0, <3>1, <3>2, WriteLimit DEF StrictUser, LimitFacts
  <2>3. CASE SearchCritical
    BY <2>3, FailedSearch
  <2>4. CASE Unpredicted
    <3>1. CASE StrictBabyUser
      <4>1. current_bandwidth' \in Limits
        BY <2>h, <3>1, BabyThrottleRange DEF StrictBabyUser, LimitFacts, Limits
      <4> QED
        BY <2>h, <2>0, <3>1, <4>1, WriteLimit DEF StrictBabyUser, LimitFacts
    <3>2. CASE StrictBabyCritical
      BY <2>h, <3>2 DEF StrictBabyCritical, BabyStep, Strict, LimitFacts, Limits
    <3>3. CASE StrictBabyNothing \/ IncreaseNothing \/ DeadBand
      BY <2>0, <3>3 DEF StrictBabyNothing, IncreaseNothing, DeadBand, throttles
    <3>4. ASSUME NEW found, IncreaseUser(found)
          PROVE  FALSE
      <4>1. current_bandwidth' \in Limits
        BY <2>h, <3>4, RaisedRange DEF IncreaseUser, LimitFacts, Limits
      <4> QED
        BY <2>h, <2>0, <3>4, <4>1, WriteLimit DEF IncreaseUser, LimitFacts
    <3>5. ASSUME NEW found, IncreaseCritical(found)
          PROVE  FALSE
      <4>1. current_bandwidth2' \in (current_bandwidth2 + 1)..Full
        BY <2>h, <3>5, RaisedRange DEF IncreaseCritical, LimitFacts
      <4>2. cpu_max' = [[cpu_max EXCEPT !["user"] = Floor]
                            EXCEPT !["critical"] = current_bandwidth2']
        BY <2>h, <3>5 DEF IncreaseCritical, set_cpu_limit
      <4>3. cpu_max.critical' = current_bandwidth2'
        BY <2>h, <4>2 DEF LimitFacts
      <4> QED
        BY <2>h, <4>1, <4>3 DEF LimitFacts, Limits
    <3> QED
      BY <2>4, <3>1, <3>2, <3>3, <3>4, <3>5 DEF Unpredicted
  <2> QED
    BY <2>1, <2>2, <2>3, <2>4 DEF LoopNext, LoopController
<1> QED
  BY <1>1, LoopInvariant, LoopHealthy, PTL DEF LoopSpec, CriticalOnlyForShortfall

\* What the smoothing makes of an error m of the calibrated prediction, if the
\* prediction it is compared with had the same error of the model.
LEMMA Smoothed ==
    ASSUME NEW m \in Int, NEW e \in Int
    PROVE  LET n == e + (4 * (m - e) - e) \div 5
           IN  /\ m >= 0 => 0 <= n /\ n <= m /\ (n = m => m = 0)
               /\ m <= 0 => m <= n /\ n <= 0 /\ (n = m => -5 < m)
<1> DEFINE k == 4 * (m - e) - e
           q == k \div 5
<1>1. k \in Int /\ k = 4 * m - 5 * e
  OBVIOUS
<1> HIDE DEF k
<1>2. q \in Int /\ 5 * q <= k /\ k < 5 * q + 5
  BY <1>1
<1> HIDE DEF q
<1>3. /\ m >= 0 => 0 <= e + q /\ e + q <= m /\ (e + q = m => m = 0)
      /\ m <= 0 => m <= e + q /\ e + q <= 0 /\ (e + q = m => -5 < m)
  BY <1>1, <1>2
<1> QED
  BY <1>3 DEF q, k

ErrorOf(off) == Scale * model_error + off

\* A decision that is taken on the power which the last search predicted, up
\* to the error of the model, brings the calibrated prediction closer to the
\* truth and never past it: an overestimate becomes smaller until it is gone,
\* an underestimate until it is less than 5/Scale of a watt, the rounding.
CalibrationCorrects ==
    [][pc = "control" /\ pc' # pc /\ used_map /\ prev_prediction = actual_power + model_error
           => LET m == ErrorOf(calibration_offset)
                  n == ErrorOf(calibration_offset')
              IN  /\ m >= 0 => 0 <= n /\ n <= m /\ (n = m => m = 0)
                  /\ m <= 0 => m <= n /\ n <= 0 /\ (n = m => -5 < m)]_loopVars

\* For every machine, load and error of the model: repeated searches under a
\* steady load correct the model.
THEOREM CalibrationConverges == LoopSpec => CalibrationCorrects
<1> DEFINE Closer ==
        LET m == ErrorOf(calibration_offset)
            n == ErrorOf(calibration_offset')
        IN  /\ m >= 0 => 0 <= n /\ n <= m /\ (n = m => m = 0)
            /\ m <= 0 => m <= n /\ n <= 0 /\ (n = m => -5 < m)
<1>1. LoopInv /\ [LoopNext]_loopVars
      => [pc = "control" /\ pc' # pc /\ used_map
              /\ prev_prediction = actual_power + model_error => Closer]_loopVars
  <2> SUFFICES ASSUME LoopInv, LoopNext, pc = "control", pc' # pc, used_map,
                      prev_prediction = actual_power + model_error
               PROVE  Closer
    OBVIOUS
  <2>1. ~LoadChanges /\ ~BudgetChanges /\ ~BudgetWritten
    BY Zenon DEF LoadChanges, BudgetChanges, BudgetWritten, vars, TruncateBudget, WriteBudget
  <2>2. ~Measures /\ ~SearchEnds
    BY DEF Measures, SearchEnds, UserToFloor, ReadBudget, EnergySample, Sample
  <2>3. calibration_offset' = Offset
    BY <2>1, <2>2 DEF LoopNext, LoopController, Unpredicted, SearchUser, SearchCritical
  <2>4. /\ actual_power \in Int /\ model_error \in Int /\ calibration_offset \in Int
        /\ Scale \in Nat
    BY ClosedLoopAssumption DEF LoopInv, TypeOK, NoReading, PlantOK, OffsetOK
  <2> DEFINE e == Scale * model_error
             m == e + calibration_offset
  <2>5. Scale * (actual_power - prev_prediction) = -e
    <3>1. actual_power - prev_prediction = -model_error
      BY <2>4
    <3>2. Scale * (-model_error) = -(Scale * model_error)
      BY <2>4
    <3> QED
      BY <3>1, <3>2
  <2>6. e \in Int /\ m \in Int /\ calibration_offset = m - e
    BY <2>4
  <2>7. calibration_offset' = (4 * calibration_offset + -e) \div 5
    BY <2>3, <2>5 DEF Offset, Calibrated
  <2> HIDE DEF e
  <2>8. 4 * (m - e) - e = 4 * calibration_offset + -e
    BY <2>4, <2>6
  <2>9. ErrorOf(calibration_offset) = m /\ ErrorOf(calibration_offset') = e + (4 * (m - e) - e) \div 5
    BY <2>7, <2>8 DEF ErrorOf, e
  <2> HIDE DEF m
  <2> QED
    BY <2>6, <2>9, Smoothed
<1> QED
  BY <1>1, LoopInvariant, PTL DEF LoopSpec, CalibrationCorrects

\* In particular, with working files the limits obey the priority policy
\* whatever the calibration does.
THEOREM LoopKeepsPriority == ASSUME Healthy PROVE LoopSpec => CappingSpec
BY LoopImplementsController, ImplementsPriority, PTL

-----------------------------------------------------------------------------
(* A light load recovers.                                                  *)

\* Energy-only sampling lasts until the power first nears a budget; till then
\* nothing is throttled.
SamplingInv ==
    /\ ~full_mode => Unthrottled /\ pc \in {"budget", "energy"}
    /\ pc = "energy" => ~full_mode

LEMMA SamplingStep ==
    ASSUME TypeOK, SamplingInv, [Next]_vars
    PROVE  SamplingInv' /\ (full_mode => full_mode')
<1> USE DEF SamplingInv, Unthrottled
<1>1. CASE Environment
  <2>1. UNCHANGED <<cpu_max, full_mode, pc>>
    BY <1>1 DEF Environment, TruncateBudget, WriteBudget, throttles
  <2> QED
    BY <2>1
<1>2. CASE ReadBudget
  BY <1>2 DEF ReadBudget, throttles
<1>3. ASSUME NEW p \in Powers \cup {NoReading}, EnergySample(p)
      PROVE  SamplingInv' /\ (full_mode => full_mode')
  BY <1>3 DEF EnergySample, throttles
<1>4. CASE pc \notin {"budget", "energy"} /\ full_mode' = full_mode /\ pc' # "energy"
  BY <1>4 DEF TypeOK
<1>5. CASE UNCHANGED vars
  BY <1>5 DEF vars, throttles
<1>6. CASE Controller /\ ~ReadBudget /\ (\A p \in Powers \cup {NoReading} : ~EnergySample(p))
  <2>1. pc \notin {"budget", "energy"} /\ full_mode' = full_mode /\ pc' # "energy"
    BY <1>6 DEF Controller, Measure, SampleNoPower, Sample, Decide, AdjustmentDies, Control,
       StrictBabyUser, StrictBabyCritical, StrictBabyNothing, StrictUser, UserToFloor,
       critical_power_capping, BabyStep, Search, Strict, Increase, StrictDies,
       IncreaseCritical, IncreaseUser, IncreaseNothing, IncreaseDies, DeadBand, Restart, Iterated
  <2> QED
    BY <1>4, <2>1
<1> QED
  BY <1>1, <1>2, <1>3, <1>5, <1>6 DEF Next

\* The decision at hand, if there is one, is taken on the budget in force and a
\* power below 94% of it.
Timely ==
    /\ target_power = budget
    /\ pc = "control" => 100 * actual_power < 94 * target_power

\* The limits only take from the power of the load.
LEMMA LimitsTake ==
    ASSUME TypeOK, load \in Loads
    PROVE  Watts(Util) \in Int /\ Watts(load) \in Int /\ Watts(Util) <= Watts(load)
<1>1. load \in Cgroups /\ Util \in Cgroups
  BY UtilRange, ClosedLoopAssumption DEF Cgroups
<1>2. load.user \in 0..Full /\ load.critical \in 0..Full
      /\ cpu_max.user \in 1..Full /\ cpu_max.critical \in 1..Full
  BY <1>1 DEF Cgroups, TypeOK, Limits
<1>3. Util.user <= load.user /\ Util.critical <= load.critical
  BY <1>2 DEF Util, MinOf
<1>4. Watts(Util) \in Idle..MaxWatts /\ Watts(load) \in Idle..MaxWatts
  BY <1>1, WattsRange
<1> QED
  BY <1>1, <1>3, <1>4, WattsMonotone, ClosedLoopAssumption DEF MaxWatts

\* Where a step of a healthy loop in full mode leads.
LEMMA LoopPlaces ==
    ASSUME HealthyInv, SamplingInv, TypeOK, [LoopNext]_loopVars
    PROVE  /\ full_mode => pc \in {"budget", "sample", "control", "user_write"}
           /\ full_mode /\ pc = "budget" => pc' \in {"budget", "sample"}
           /\ pc = "sample" => pc' \in {"sample", "control"}
           /\ pc = "control" => pc' \in {"control", "user_write", "budget"}
           /\ pc = "user_write" => pc' \in {"user_write", "budget"}
<1>1. full_mode => pc \in {"budget", "sample", "control", "user_write"}
  BY DEF HealthyInv, SamplingInv, TypeOK
<1>2. CASE UNCHANGED pc
  BY <1>1, <1>2
<1>3. CASE Measures
  BY <1>1, <1>3, SMTT(30) DEF Measures, ReadBudget, EnergySample, Sample
<1>4. CASE Unpredicted \/ SearchUser \/ SearchCritical \/ SearchEnds
  BY <1>1, <1>4, Zenon DEF Unpredicted, SearchUser, SearchCritical, SearchEnds, StrictBabyUser,
     StrictBabyCritical, StrictBabyNothing, StrictUser, UserToFloor, critical_power_capping,
     BabyStep, Search, Strict, Increase, Control, IncreaseCritical, IncreaseUser,
     IncreaseNothing, DeadBand, Iterated
<1>5. LoadChanges \/ BudgetChanges \/ BudgetWritten \/ UNCHANGED loopVars => UNCHANGED pc
  BY DEF LoadChanges, BudgetChanges, BudgetWritten, TruncateBudget, WriteBudget, loopVars, vars
<1> QED
  BY <1>2, <1>3, <1>4, <1>5 DEF LoopNext, LoopController

\* Under a light load the budget stays, the loop works with it once it has
\* read it, and then takes its decisions below 94% of it.
LEMMA LightStep ==
    ASSUME LoopInv, Light, Light', [LoopNext]_loopVars
    PROVE  /\ target_power = budget => target_power' = budget'
           /\ pc = "budget" /\ pc' # "budget" => target_power' = budget'
           /\ Timely => Timely'
<1>1. CASE UNCHANGED <<budget, target_power, actual_power>> /\ (pc' = pc \/ pc' # "control")
           /\ ~(pc = "budget" /\ pc' # "budget")
  BY <1>1 DEF Timely
<1>2. CASE ReadBudget
  BY <1>2 DEF ReadBudget, Timely
<1>3. ASSUME NEW p, EnergySample(p)
      PROVE  /\ target_power = budget => target_power' = budget'
             /\ pc = "budget" /\ pc' # "budget" => target_power' = budget'
             /\ Timely => Timely'
  BY <1>3 DEF EnergySample, Timely
<1>4. CASE Sample("ok", Watts(Util))
  <2>1. Watts(Util) <= Watts(load) /\ Watts(Util) \in Int /\ Watts(load) \in Int
    BY LimitsTake DEF LoopInv, PlantOK
  <2>2. budget \in Int /\ 100 * Watts(load) < 94 * budget
    BY DEF Light, LoopInv, TypeOK, NoBudget
  <2>3. 100 * Watts(Util) < 94 * budget
    BY <2>1, <2>2
  <2> QED
    BY <1>4, <2>3 DEF Sample, Timely
<1>5. CASE LoadChanges \/ UNCHANGED loopVars
  BY <1>1, <1>5 DEF LoadChanges, loopVars, vars
<1>6. ~BudgetChanges /\ ~BudgetWritten
  BY DEF BudgetChanges, BudgetWritten, TruncateBudget, WriteBudget, Light
<1>7. CASE Unpredicted \/ SearchUser \/ SearchCritical \/ SearchEnds
  <2>1. UNCHANGED <<budget, target_power, actual_power>> /\ pc' # "control"
        /\ ~(pc = "budget" /\ pc' # "budget")
    BY <1>7, Zenon DEF Unpredicted, SearchUser, SearchCritical, SearchEnds, StrictBabyUser,
       StrictBabyCritical, StrictBabyNothing, StrictUser, UserToFloor, critical_power_capping,
       BabyStep, Search, Strict, Increase, Control, IncreaseCritical, IncreaseUser,
       IncreaseNothing, DeadBand, Iterated
  <2> QED
    BY <1>1, <2>1, SMTT(30)
<1> QED
  BY <1>2, <1>3, <1>4, <1>5, <1>6, <1>7 DEF LoopNext, LoopController, Measures

LEMMA SamplingInvariant == LoopSpec => []SamplingInv
<1>1. LoopInit => SamplingInv
  BY DEF LoopInit, Init, SamplingInv, Unthrottled
<1>2. LoopInv /\ SamplingInv /\ [LoopNext]_loopVars => SamplingInv'
  BY LoopStepIsStep, SamplingStep DEF LoopInv
<1> QED
  BY <1>1, <1>2, LoopInvariant, PTL DEF LoopSpec

\* What the fairness of the controller amounts to: it does not stay in any
\* part of an iteration, except for want of a budget.
LoopMoves ==
    /\ []<>(pc # "budget" \/ budget = NoBudget)
    /\ []<>(pc # "sample")
    /\ []<>(pc # "control")
    /\ []<>(pc # "user_write")

\* A healthy controller that gets through its iterations gives a load that fits
\* the budget unthrottled its full bandwidth back: on every machine, for every
\* load and budget, every error of the model and every offset inherited from
\* before, for every percentage up to 128 (the code's is 100).
THEOREM LightLoadRecoversInTheEnd ==
    ASSUME Healthy, Full <= 128
    PROVE  LoopSpec /\ LoopMoves => LightLoadRecovers
<1> DEFINE Inv == LoopInv /\ HealthyInv /\ SamplingInv
           Current == target_power = budget
           Iterates == /\ []Inv /\ [][LoopNext]_loopVars /\ LoopMoves /\ <>[]Light
<1>1. Inv /\ [LoopNext]_loopVars /\ full_mode => full_mode'
  BY LoopStepIsStep, SamplingStep DEF LoopInv
<1>2. Inv /\ ~full_mode => Unthrottled
  BY DEF SamplingInv
<1>3. Inv /\ [LoopNext]_loopVars
      => /\ full_mode => \/ pc = "budget" \/ pc = "sample" \/ pc = "control" \/ pc = "user_write"
         /\ full_mode /\ pc = "budget" => (pc = "budget" \/ pc = "sample")'
         /\ pc = "sample" => (pc = "sample" \/ pc = "control")'
         /\ pc = "control" => (pc = "control" \/ pc = "user_write" \/ pc = "budget")'
         /\ pc = "user_write" => (pc = "user_write" \/ pc = "budget")'
  BY LoopPlaces DEF LoopInv
<1>4. Inv /\ Light /\ Light' /\ [LoopNext]_loopVars
      => /\ Current => Current'
         /\ pc = "budget" /\ ~(pc = "budget")' => Current'
         /\ Timely => Timely'
  BY LightStep
<1>5. /\ Current /\ ~(pc = "control") => Timely
      /\ Inv /\ Timely => LowDecisions
  BY DEF Timely, LowDecisions, HealthyInv
<1>6. /\ pc # "sample" <=> ~(pc = "sample")
      /\ pc # "control" <=> ~(pc = "control")
      /\ pc # "user_write" <=> ~(pc = "user_write")
      /\ Light /\ (pc # "budget" \/ budget = NoBudget) => ~(pc = "budget")
  BY DEF Light
<1>7. Inv /\ cpu_max.user = Full /\ cpu_max.critical = Full => Unthrottled
  BY DEF LoopInv, TypeOK, Limits, Unthrottled
<1> HIDE DEF Inv, Current
<1>8. Iterates => []~full_mode \/ <>[]full_mode
  BY <1>1, PTL
<1>9. Iterates /\ <>[]full_mode => []<>(pc = "control") /\ []<>(pc = "budget")
  BY <1>3, <1>6, PTL DEF LoopMoves
<1>10. Iterates /\ []<>(pc = "budget") => <>[]Current
  BY <1>4, <1>6, PTL DEF LoopMoves
<1>11. Iterates /\ <>[]Current => <>[]LowDecisions
  BY <1>4, <1>5, <1>6, PTL DEF LoopMoves
<1>12. Iterates /\ Spec => <>[]Unthrottled
  BY <1>2, <1>7, <1>8, <1>9, <1>10, <1>11, RecoversInTheEnd, PTL
     DEF LoopMoves, RecoversWhenLow
<1>13. LoopInv /\ HealthyInv /\ SamplingInv => Inv
  BY DEF Inv
<1> QED
  BY <1>12, <1>13, LoopInvariant, LoopHealthy, SamplingInvariant, LoopImplementsController,
     PTL DEF LoopSpec, LightLoadRecovers

=============================================================================

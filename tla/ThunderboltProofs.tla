------------------------- MODULE ThunderboltProofs -------------------------
(* What is proved of the Thunderbolt baseline, for every set of budgets    *)
(* and powers, every number of cores and every resolution of bandwidths.   *)
EXTENDS Thunderbolt, TLAPS

Files == [{"user", "critical"} -> Quotas]

-----------------------------------------------------------------------------
(* The operators of the model.                                             *)

\* The arithmetic of set_cpu_max: every quota it computes is in range.
LEMMA QuotaRange ==
    ASSUME NEW b \in Int
    PROVE  quota_us(b) \in Quotas
<1> DEFINE q == (1000 * Cores * b) \div Unit
<1>1. Cores \in Nat /\ Cores >= 1 /\ Unit \in Nat /\ Unit > 0
  BY ConstantsAssumption
<1>2. 1000 * Cores * b \in Int
  BY <1>1
<1>3. q \in Int
  BY <1>1, <1>2
<1> HIDE DEF q
<1>4. MinOf(MaxOf(1000, q), 100000 * Cores) \in Quotas
  BY <1>1, <1>3 DEF MinOf, MaxOf, Quotas
<1> QED
  BY <1>4 DEF quota_us, q

\* A write changes one file, to a quota in range, or none.
LEMMA WriteRange ==
    ASSUME NEW files \in Files, NEW g \in {"user", "critical"}, NEW b \in Int
    PROVE  set_cpu_max(files, g, b) \subseteq Files
<1>1. quota_us(b) \in Quotas
  BY QuotaRange
<1> HIDE DEF Quotas
<1> QED
  BY <1>1 DEF set_cpu_max, Files

LEMMA UnthrottledRange ==
    ASSUME TypeOK
    PROVE  Unthrottled \subseteq Files
<1>1. THROTTLE_MAX \in Int
  BY ConstantsAssumption DEF THROTTLE_MAX
<1>2. set_cpu_max(cpu_max, "user", THROTTLE_MAX) \subseteq Files
  BY <1>1, WriteRange DEF TypeOK, Files
<1> QED
  BY <1>1, <1>2, WriteRange DEF Unthrottled

\* Without write errors both files end up at the maximum.
LEMMA UnthrottledExact ==
    ASSUME TypeOK, ~WriteErrors, NEW files \in Unthrottled
    PROVE  \A g \in {"user", "critical"} : files[g] = quota_us(THROTTLE_MAX)
BY DEF Unthrottled, set_cpu_max, TypeOK

LEMMA LevelFacts ==
    /\ THROTTLE_MIN \in Int /\ THROTTLE_MAX \in Int
    /\ 0 < THROTTLE_MIN /\ THROTTLE_MIN < THROTTLE_MAX
    /\ UNTHROTTLE_STEP \in Int /\ 0 < UNTHROTTLE_STEP
BY ConstantsAssumption DEF THROTTLE_MIN, THROTTLE_MAX, UNTHROTTLE_STEP

\* The multiplicative decrease never raises and never passes the minimum.
LEMMA DecreasedRange ==
    ASSUME TypeOK, NEW b \in Level
    PROVE  Decreased(b) \in THROTTLE_MIN..b
<1>1. b \in Int /\ b >= THROTTLE_MIN /\ b > 0
  BY LevelFacts DEF Level
<1>2. b \div 100 \in Int /\ b \div 100 <= b
  BY <1>1
<1>3. (3 * b) \div 4 \in Int /\ (3 * b) \div 4 <= b
  BY <1>1
<1> QED
  BY <1>1, <1>2, <1>3, LevelFacts DEF Decreased, MaxOf

\* The additive increase never lowers and never passes the maximum.
LEMMA IncreasedRange ==
    ASSUME NEW b \in Level
    PROVE  Increased(b) \in b..THROTTLE_MAX
BY LevelFacts DEF Increased, MinOf, Level

-----------------------------------------------------------------------------
(* Type correctness.                                                       *)

LEMMA InitType == Init => TypeOK
<1> SUFFICES ASSUME Init PROVE TypeOK
  OBVIOUS
<1>1. quota_us(THROTTLE_MIN) \in Quotas /\ quota_us(THROTTLE_MAX) \in Quotas
  BY LevelFacts, QuotaRange
<1>2. cpu_max \in [{"user", "critical"} -> Quotas]
  <2> HIDE DEF Quotas
  <2> QED
    BY <1>1 DEF Init
<1>3. current_bandwidth_user \in Level /\ current_bandwidth_critical \in Level
  BY LevelFacts DEF Init, Level
<1> QED
  BY <1>2, <1>3, Zenon DEF Init, TypeOK

LEMMA DecideType ==
    ASSUME TypeOK, Decide
    PROVE  TypeOK'
<1> USE DEF Decided
<1>l. ASSUME NEW b \in Level
      PROVE  Decreased(b) \in Level /\ Increased(b) \in Level
  BY <1>l, DecreasedRange, IncreasedRange, LevelFacts DEF Level
<1>1. CASE ThrottleUser
  <2>1. current_bandwidth_user' \in Level
    BY <1>1, <1>l DEF ThrottleUser, TypeOK
  <2> QED
    BY <1>1, <2>1 DEF ThrottleUser, TypeOK
<1>2. CASE ThrottleCritical
  <2>1. current_bandwidth_critical' \in Level
    BY <1>2, <1>l DEF ThrottleCritical, TypeOK
  <2> QED
    BY <1>2, <2>1 DEF ThrottleCritical, TypeOK
<1>3. CASE RecoverCritical
  <2>1. current_bandwidth_critical' \in Level
    BY <1>3, <1>l DEF RecoverCritical, TypeOK
  <2> QED
    BY <1>3, <2>1 DEF RecoverCritical, TypeOK
<1>4. CASE RecoverUser
  <2>1. current_bandwidth_user' \in Level
    BY <1>4, <1>l DEF RecoverUser, TypeOK
  <2> QED
    BY <1>4, <2>1 DEF RecoverUser, TypeOK
<1>5. CASE DecideNothing
  BY <1>5 DEF DecideNothing, TypeOK, bandwidths
<1> QED
  BY <1>1, <1>2, <1>3, <1>4, <1>5 DEF Decide

LEMMA NextType ==
    ASSUME TypeOK, [Next]_vars
    PROVE  TypeOK'
<1> USE DEF bandwidths
<1>b. current_bandwidth_user \in Int /\ current_bandwidth_critical \in Int
  BY LevelFacts DEF TypeOK, Level
<1>f. Bandwidth(changed) \in Int
  BY <1>b DEF Bandwidth
<1>1. ASSUME NEW b \in Budgets, WriteBudget(b)
      PROVE  TypeOK'
  BY <1>1 DEF WriteBudget, TypeOK
<1>2. CASE WaitEnds
  BY <1>2 DEF WaitEnds, TypeOK
<1>3. CASE Start
  BY <1>3, UnthrottledRange DEF Start, TypeOK, Files
<1>4. CASE ReadBudget
  BY <1>4 DEF ReadBudget, TypeOK
<1>5. CASE MeasureFails
  BY <1>5 DEF MeasureFails, TypeOK
<1>6. ASSUME NEW p \in Powers, Measure(p)
      PROVE  TypeOK'
  <2>1. throttling_active_state' \in BOOLEAN
    BY <1>6, Zenon DEF Measure, TypeOK
  <2> QED
    BY <1>6, <2>1, Zenon DEF Measure, TypeOK
<1>7. CASE Decide
  BY <1>7, DecideType
<1>8. CASE WriteBuffer
  BY <1>8 DEF WriteBuffer, TypeOK
<1>9. CASE Flush
  <2>1. changed \in {"user", "critical"}
    BY <1>9 DEF Flush, TypeOK
  <2>2. cpu_max' \in Files
    BY <1>9, <1>f, <2>1, WriteRange DEF Flush, TypeOK, Files
  <2> QED
    BY <1>9, <2>2 DEF Flush, TypeOK, Files
<1>10. CASE Log
  BY <1>10 DEF Log, TypeOK
<1>11. CASE LogRaises
  BY <1>11, UnthrottledRange DEF LogRaises, TypeOK, Files
<1>12. CASE signal_handler
  <2>1. PICK files \in Unthrottled :
            cpu_max' \in IF pc = "flush"
                         THEN set_cpu_max(files, changed, Bandwidth(changed))
                         ELSE {files}
    BY <1>12 DEF signal_handler
  <2>2. files \in Files
    BY <2>1, UnthrottledRange
  <2>3. pc = "flush" => changed \in {"user", "critical"}
    BY DEF TypeOK
  <2>4. cpu_max' \in Files
    BY <2>1, <2>2, <2>3, <1>f, WriteRange
  <2> QED
    BY <1>12, <2>4 DEF signal_handler, TypeOK, Files
<1>13. CASE UNCHANGED vars
  BY <1>13 DEF vars, TypeOK
<1> QED
  BY <1>1, <1>2, <1>3, <1>4, <1>5, <1>6, <1>7, <1>8, <1>9, <1>10, <1>11,
     <1>12, <1>13 DEF Next, Loop

\* Bandwidths stay within 1% and 100%, and every quota written to cpu.max is
\* one the kernel accepts.
THEOREM TypeCorrect == Spec => []TypeOK
BY InitType, NextType, PTL DEF Spec

-----------------------------------------------------------------------------
(* Refinement of the priority specification by the bandwidths.             *)

LEMMA RefineStep ==
    ASSUME TypeOK, [Next]_vars
    PROVE  [Capping!Next]_Capping!vars
<1> USE DEF Capping!vars
<1>1. CASE ThrottleUser
  <2>1. current_bandwidth_user' \in THROTTLE_MIN..current_bandwidth_user
    BY <1>1, DecreasedRange DEF ThrottleUser, TypeOK
  <2>2. current_bandwidth_critical' \in THROTTLE_MIN..current_bandwidth_critical
        /\ ~(current_bandwidth_critical' < current_bandwidth_critical)
    BY <1>1, LevelFacts DEF ThrottleUser, TypeOK, Level
  <2> QED
    BY <2>1, <2>2 DEF Capping!Next, Capping!Throttle
<1>2. CASE ThrottleCritical
  <2>1. current_bandwidth_critical' \in THROTTLE_MIN..current_bandwidth_critical
    BY <1>2, DecreasedRange DEF ThrottleCritical, TypeOK
  <2>2. current_bandwidth_user' = THROTTLE_MIN /\ current_bandwidth_user = THROTTLE_MIN
    BY <1>2, LevelFacts DEF ThrottleCritical, TypeOK, Level
  <2> QED
    BY <2>1, <2>2, LevelFacts DEF Capping!Next, Capping!Throttle
<1>3. CASE RecoverCritical
  <2>1. current_bandwidth_critical' \in current_bandwidth_critical..THROTTLE_MAX
    BY <1>3, IncreasedRange DEF RecoverCritical, TypeOK
  <2>2. current_bandwidth_user' \in current_bandwidth_user..THROTTLE_MAX
        /\ ~(current_bandwidth_user' > current_bandwidth_user)
    BY <1>3, LevelFacts DEF RecoverCritical, TypeOK, Level
  <2> QED
    BY <2>1, <2>2 DEF Capping!Next, Capping!Recover
<1>4. CASE RecoverUser
  <2>1. current_bandwidth_user' \in current_bandwidth_user..THROTTLE_MAX
    BY <1>4, IncreasedRange DEF RecoverUser, TypeOK
  <2>2. current_bandwidth_critical' = THROTTLE_MAX
        /\ current_bandwidth_critical = THROTTLE_MAX
    BY <1>4, LevelFacts DEF RecoverUser, TypeOK, Level
  <2> QED
    BY <2>1, <2>2, LevelFacts DEF Capping!Next, Capping!Recover
<1>5. CASE ~(ThrottleUser \/ ThrottleCritical \/ RecoverCritical \/ RecoverUser)
  <2>1. UNCHANGED bandwidths
    BY <1>5, Zenon DEF Next, Loop, Decide, WriteBudget, WaitEnds, Start, ReadBudget,
       MeasureFails, Measure, DecideNothing, WriteBuffer, Flush, Log, LogRaises,
       signal_handler, vars
  <2> QED
    BY <2>1 DEF bandwidths
<1> QED
  BY <1>1, <1>2, <1>3, <1>4, <1>5

\* The bandwidths of the Thunderbolt loop implement the specification the PIP
\* controller implements: the user cgroup is throttled first and recovers last.
THEOREM ImplementsPriority == Spec => CappingSpec
<1>1. Init => Capping!Init
  BY DEF Init, Capping!Init
<1>2. TypeOK /\ [Next]_vars => [Capping!Next]_Capping!vars
  BY RefineStep
<1> QED
  BY <1>1, <1>2, TypeCorrect, PTL DEF Spec, CappingSpec, Capping!Spec

-----------------------------------------------------------------------------
(* The exits.                                                              *)

\* Whatever step the loop is at when it ends, only the cgroup whose write was
\* in progress can be left throttled.
THEOREM ExitLeavesOne ==
    ASSUME ~WriteErrors
    PROVE  Spec => []OneLeftOnExit
<1>1. Init => OneLeftOnExit
  BY DEF Init, OneLeftOnExit
<1>2. TypeOK /\ OneLeftOnExit /\ [Next]_vars => OneLeftOnExit'
  <2> SUFFICES ASSUME TypeOK, OneLeftOnExit, [Next]_vars, pc' = "exited",
                      NEW g \in {"user", "critical"}, g # changed'
               PROVE  cpu_max'[g] = quota_us(THROTTLE_MAX)
    BY DEF OneLeftOnExit, quota_us
  <2>1. CASE LogRaises
    BY <2>1, UnthrottledExact DEF LogRaises
  <2>2. CASE signal_handler
    <3>1. changed' = changed
      BY <2>2 DEF signal_handler
    <3>2. PICK files \in Unthrottled :
              cpu_max' \in IF pc = "flush"
                           THEN set_cpu_max(files, changed, Bandwidth(changed))
                           ELSE {files}
      BY <2>2 DEF signal_handler
    <3>3. files \in Files /\ files[g] = quota_us(THROTTLE_MAX)
      BY <3>2, UnthrottledExact, UnthrottledRange
    <3> QED
      BY <3>1, <3>2, <3>3 DEF set_cpu_max, Files
  <2>3. CASE ~LogRaises /\ ~signal_handler
    <3>1. pc = "exited" /\ UNCHANGED <<cpu_max, changed>>
      BY <2>3 DEF Next, Loop, Decide, WriteBudget, WaitEnds, Start, ReadBudget,
         MeasureFails, Measure, ThrottleUser, ThrottleCritical, RecoverUser,
         RecoverCritical, Decided, DecideNothing, WriteBuffer, Flush, Log, vars
    <3> QED
      BY <3>1 DEF OneLeftOnExit
  <2> QED
    BY <2>1, <2>2, <2>3
<1> QED
  BY <1>1, <1>2, TypeCorrect, PTL DEF Spec

-----------------------------------------------------------------------------
(* The files.                                                              *)

\* Integer division by the symbolic Unit.
LEMMA DivBounds ==
    ASSUME NEW x \in Int
    PROVE  /\ x \div Unit \in Int
           /\ Unit * (x \div Unit) <= x
           /\ x < Unit * (x \div Unit) + Unit
BY ConstantsAssumption

\* Two bandwidths that do not differ have quotas at most Slack apart.
LEMMA CloseQuotas ==
    ASSUME NEW a \in Int, NEW b \in Int, 100 * (a - b) <= Unit
    PROVE  quota_us(a) - quota_us(b) <= Slack
<1> DEFINE x == 1000 * Cores * a
           y == 1000 * Cores * b
           qx == x \div Unit
           qy == y \div Unit
<1>1. Cores \in Nat /\ Cores >= 1 /\ Unit \in Nat /\ Unit > 0
  BY ConstantsAssumption
<1>2. x \in Int /\ y \in Int
  BY <1>1
<1>3. /\ qx \in Int /\ Unit * qx <= x
      /\ qy \in Int /\ y < Unit * qy + Unit
  BY <1>2, DivBounds
<1>4. x - y <= 10 * Cores * Unit
  <2>1. (10 * Cores) * (100 * (a - b)) <= (10 * Cores) * Unit
    BY <1>1
  <2>2. x - y = (10 * Cores) * (100 * (a - b))
    BY <1>1
  <2> QED
    BY <2>1, <2>2
<1> HIDE DEF x, y, qx, qy
<1>5. Unit * (qx - qy) < Unit * (10 * Cores + 1)
  <2>1. Unit * (qx - qy) = Unit * qx - Unit * qy
    BY <1>1, <1>3
  <2>2. Unit * (10 * Cores + 1) = 10 * Cores * Unit + Unit
    BY <1>1
  <2> DEFINE u == Unit * qx
             v == Unit * qy
             w == 10 * Cores * Unit
  <2>3. u \in Int /\ v \in Int /\ w \in Int
    BY <1>1, <1>3
  <2>4. u <= x /\ y < v + Unit /\ x - y <= w
    BY <1>3, <1>4
  <2> HIDE DEF u, v, w
  <2>5. u - v < w + Unit
    BY <1>1, <1>2, <2>3, <2>4 DEF x, y
  <2> QED
    BY <2>1, <2>2, <2>5 DEF u, v, w
<1>6. qx - qy < 10 * Cores + 1
  <2> SUFFICES ASSUME qx - qy >= 10 * Cores + 1
               PROVE  FALSE
    BY <1>1, <1>3
  <2> DEFINE m == qx - qy
             n == 10 * Cores + 1
  <2>1. m \in Int /\ n \in Int /\ m >= n
    BY <1>1, <1>3
  <2>2. Unit * m < Unit * n
    BY <1>5
  <2> HIDE DEF m, n
  <2>3. Unit * m >= Unit * n
    BY <1>1, <2>1
  <2> QED
    BY <1>1, <2>1, <2>2, <2>3
<1>7. MinOf(MaxOf(1000, qx), 100000 * Cores) - MinOf(MaxOf(1000, qy), 100000 * Cores)
          <= 10 * Cores + 1
  BY <1>1, <1>3, <1>6 DEF MinOf, MaxOf
<1> QED
  BY <1>7 DEF quota_us, Slack, x, y, qx, qy

LEMMA FullQuota == quota_us(THROTTLE_MAX) = 100000 * Cores
<1>1. Cores \in Nat /\ Cores >= 1 /\ Unit \in Nat /\ Unit > 0
  BY ConstantsAssumption
<1> DEFINE n == 100000 * Cores
           q == (1000 * Cores * (100 * Unit)) \div Unit
<1>2. n \in Int /\ n >= 1000
  BY <1>1
<1>3. 1000 * Cores * (100 * Unit) = Unit * n
  BY <1>1
<1>4. q \in Int /\ Unit * q <= Unit * n /\ Unit * n < Unit * q + Unit
  BY <1>1, <1>2, <1>3, DivBounds
<1>5. q = n
  <2> HIDE DEF q, n
  <2>1. ~(q > n)
    <3> SUFFICES ASSUME q >= n + 1 PROVE FALSE
      BY <1>2, <1>4
    <3>1. Unit * q >= Unit * (n + 1)
      BY <1>1, <1>2, <1>4
    <3>2. Unit * (n + 1) = Unit * n + Unit
      BY <1>1, <1>2
    <3> QED
      BY <1>1, <1>2, <1>4, <3>1, <3>2
  <2>2. ~(q < n)
    <3> SUFFICES ASSUME n >= q + 1 PROVE FALSE
      BY <1>2, <1>4
    <3>1. Unit * n >= Unit * (q + 1)
      BY <1>1, <1>2, <1>4
    <3>2. Unit * (q + 1) = Unit * q + Unit
      BY <1>1, <1>4
    <3> QED
      BY <1>1, <1>2, <1>4, <3>1, <3>2
  <2> QED
    BY <1>2, <1>4, <2>1, <2>2
<1> QED
  BY <1>2, <1>5 DEF quota_us, THROTTLE_MAX, MinOf, MaxOf

\* A change that is not applied leaves the file settled: it stopped short at
\* the minimum or the maximum, and started from neither.
LEMMA NotApplied ==
    ASSUME NEW file \in Quotas, NEW old \in Level, NEW new \in Level,
           SettledAt(file, old), ~Differs(new, old),
           new = old \/ new \in {THROTTLE_MIN, THROTTLE_MAX}
    PROVE  SettledAt(file, new)
<1>1. CASE new = old
  BY <1>1
<1>2. CASE new # old
  <2>1. old \in Int /\ new \in Int /\ Unit \in Int /\ Unit > 0
    BY ConstantsAssumption, LevelFacts DEF Level
  <2>2. 100 * (new - old) <= Unit /\ 100 * (old - new) <= Unit
    BY <2>1 DEF Differs
  <2>3. old \notin {THROTTLE_MIN, THROTTLE_MAX}
    BY <1>2, <2>1, <2>2 DEF THROTTLE_MIN, THROTTLE_MAX
  <2>4. file = quota_us(old)
    BY <2>3 DEF SettledAt
  <2>5. quota_us(new) - quota_us(old) <= Slack /\ quota_us(old) - quota_us(new) <= Slack
    BY <2>1, <2>2, CloseQuotas
  <2> QED
    BY <1>2, <2>4, <2>5 DEF SettledAt
<1> QED
  BY <1>1, <1>2

\* A decrease that is not applied either is none or reaches the minimum.
LEMMA SmallDecrease ==
    ASSUME TypeOK, NEW b \in Level, ~Differs(Decreased(b), b)
    PROVE  Decreased(b) = b \/ Decreased(b) = THROTTLE_MIN
<1>1. b \in Int /\ Unit \in Int /\ Unit > 0 /\ b >= Unit
  BY ConstantsAssumption, LevelFacts DEF Level, THROTTLE_MIN
<1>2. 100 * (b - b \div 100) > Unit /\ b \div 100 \in Int
  BY <1>1
<1>3. 100 * (b - (3 * b) \div 4) > Unit /\ (3 * b) \div 4 \in Int
  BY <1>1
<1> QED
  BY <1>1, <1>2, <1>3 DEF Decreased, MaxOf, Differs, THROTTLE_MIN

\* An increase that is not applied reaches the maximum.
LEMMA SmallIncrease ==
    ASSUME NEW b \in Level, ~Differs(Increased(b), b)
    PROVE  Increased(b) = THROTTLE_MAX
BY ConstantsAssumption DEF Level, THROTTLE_MIN, THROTTLE_MAX, UNTHROTTLE_STEP,
   Increased, MinOf, Differs

LEMMA FilesDecide ==
    ASSUME TypeOK, TypeOK', FilesInv, Decide
    PROVE  FilesInv'
<1> USE DEF Decided, Writing, Settled, Bandwidth
<1>q. cpu_max["user"] \in Quotas /\ cpu_max["critical"] \in Quotas
  BY DEF TypeOK
<1>s. /\ SettledAt(cpu_max["user"], current_bandwidth_user)
      /\ SettledAt(cpu_max["critical"], current_bandwidth_critical)
      /\ current_bandwidth_critical < THROTTLE_MAX
             => current_bandwidth_user = THROTTLE_MIN
  BY DEF Decide, ThrottleUser, ThrottleCritical, RecoverCritical, RecoverUser,
     DecideNothing, FilesInv
<1>l. /\ current_bandwidth_user \in Level /\ current_bandwidth_critical \in Level
      /\ current_bandwidth_user' \in Level /\ current_bandwidth_critical' \in Level
  BY DEF TypeOK
<1>p. pc' \in {"apply", "log"}
  BY DEF Decide, ThrottleUser, ThrottleCritical, RecoverCritical, RecoverUser,
     DecideNothing
<1>f. SUFFICES /\ \/ Writing("user")'
                  \/ SettledAt(cpu_max["user"]', current_bandwidth_user')
               /\ \/ Writing("critical")'
                  \/ SettledAt(cpu_max["critical"]', current_bandwidth_critical')
               /\ Writing("user")' => current_bandwidth_critical' = THROTTLE_MAX
               /\ Writing("critical")' => current_bandwidth_user' = THROTTLE_MIN
               /\ current_bandwidth_critical' < THROTTLE_MAX
                      => current_bandwidth_user' = THROTTLE_MIN
  BY <1>p DEF FilesInv, SettledAt, quota_us, Slack
<1>1. CASE ThrottleUser
  <2>1. current_bandwidth_critical = THROTTLE_MAX
    BY <1>1, <1>s, <1>l, LevelFacts DEF ThrottleUser, Level
  <2>2. /\ current_bandwidth_critical' = current_bandwidth_critical
        /\ cpu_max' = cpu_max
        /\ ~Writing("critical")'
    BY <1>1 DEF ThrottleUser
  <2>3. CASE Differs(current_bandwidth_user', current_bandwidth_user)
    BY <1>1, <1>s, <2>1, <2>2, <2>3, LevelFacts DEF ThrottleUser
  <2>4. CASE ~Differs(current_bandwidth_user', current_bandwidth_user)
    <3>1. SettledAt(cpu_max["user"], current_bandwidth_user')
      BY <1>1, <1>l, <1>q, <1>s, <2>4, SmallDecrease, NotApplied DEF ThrottleUser
    <3> QED
      BY <1>1, <1>s, <2>1, <2>2, <2>4, <3>1, LevelFacts DEF ThrottleUser
  <2> QED
    BY <2>3, <2>4
<1>2. CASE ThrottleCritical
  <2>1. /\ current_bandwidth_user = THROTTLE_MIN
        /\ current_bandwidth_user' = current_bandwidth_user
        /\ cpu_max' = cpu_max
        /\ ~Writing("user")'
    BY <1>2, <1>l, LevelFacts DEF ThrottleCritical, Level
  <2>2. CASE Differs(current_bandwidth_critical', current_bandwidth_critical)
    BY <1>2, <1>s, <2>1, <2>2 DEF ThrottleCritical
  <2>3. CASE ~Differs(current_bandwidth_critical', current_bandwidth_critical)
    <3>1. SettledAt(cpu_max["critical"], current_bandwidth_critical')
      BY <1>2, <1>l, <1>q, <1>s, <2>3, SmallDecrease, NotApplied DEF ThrottleCritical
    <3> QED
      BY <1>2, <1>s, <2>1, <2>3, <3>1 DEF ThrottleCritical
  <2> QED
    BY <2>2, <2>3
<1>3. CASE RecoverCritical
  <2>1. /\ current_bandwidth_user = THROTTLE_MIN
        /\ current_bandwidth_user' = current_bandwidth_user
        /\ cpu_max' = cpu_max
        /\ ~Writing("user")'
    BY <1>3, <1>s DEF RecoverCritical
  <2>2. CASE Differs(current_bandwidth_critical', current_bandwidth_critical)
    BY <1>3, <1>s, <2>1, <2>2 DEF RecoverCritical
  <2>3. CASE ~Differs(current_bandwidth_critical', current_bandwidth_critical)
    <3>1. SettledAt(cpu_max["critical"], current_bandwidth_critical')
      BY <1>3, <1>l, <1>q, <1>s, <2>3, SmallIncrease, NotApplied DEF RecoverCritical
    <3> QED
      BY <1>3, <1>s, <2>1, <2>3, <3>1 DEF RecoverCritical
  <2> QED
    BY <2>2, <2>3
<1>4. CASE RecoverUser
  <2>1. /\ current_bandwidth_critical = THROTTLE_MAX
        /\ current_bandwidth_critical' = current_bandwidth_critical
        /\ cpu_max' = cpu_max
        /\ ~Writing("critical")'
    BY <1>4, <1>l, LevelFacts DEF RecoverUser, Level
  <2>2. CASE Differs(current_bandwidth_user', current_bandwidth_user)
    BY <1>4, <1>s, <2>1, <2>2, LevelFacts DEF RecoverUser
  <2>3. CASE ~Differs(current_bandwidth_user', current_bandwidth_user)
    <3>1. SettledAt(cpu_max["user"], current_bandwidth_user')
      BY <1>4, <1>l, <1>q, <1>s, <2>3, SmallIncrease, NotApplied DEF RecoverUser
    <3> QED
      BY <1>4, <1>s, <2>1, <2>3, <3>1, LevelFacts DEF RecoverUser
  <2> QED
    BY <2>2, <2>3
<1>5. CASE DecideNothing
  BY <1>5, <1>s DEF DecideNothing, bandwidths
<1> QED
  BY <1>1, <1>2, <1>3, <1>4, <1>5 DEF Decide

LEMMA FilesStep ==
    ASSUME TypeOK, TypeOK', FilesInv, [Next]_vars, ~WriteErrors
    PROVE  FilesInv'
<1>1. CASE Decide
  BY <1>1, FilesDecide
<1>2. CASE Start
  <2>1. cpu_max' \in Unthrottled /\ UNCHANGED bandwidths /\ pc' = "budget"
    BY <1>2 DEF Start
  <2> QED
    <3>1. \A g \in {"user", "critical"} : cpu_max'[g] = quota_us(THROTTLE_MAX)
      BY <2>1, UnthrottledExact
    <3>2. /\ current_bandwidth_user = THROTTLE_MAX
          /\ current_bandwidth_critical = THROTTLE_MAX
      BY <1>2 DEF Start, FilesInv
    <3> QED
      BY <2>1, <3>1, <3>2, LevelFacts DEF FilesInv, Writing, Settled, SettledAt,
         Bandwidth, bandwidths, quota_us
<1>3. CASE Flush
  <2>1. /\ pc = "flush" /\ changed \in {"user", "critical"}
        /\ cpu_max' = [cpu_max EXCEPT ![changed] = quota_us(Bandwidth(changed))]
        /\ cpu_max \in Files
        /\ UNCHANGED bandwidths /\ pc' = "log"
    BY <1>3 DEF Flush, TypeOK, set_cpu_max, Files
  <2>2. \A g \in {"user", "critical"} : Settled(g)'
    <3> SUFFICES ASSUME NEW g \in {"user", "critical"}
                 PROVE  SettledAt(cpu_max'[g], Bandwidth(g))
      BY <2>1 DEF Settled, SettledAt, Bandwidth, bandwidths, quota_us, Slack
    <3>1. CASE g = changed
      BY <2>1, <3>1 DEF SettledAt, Files
    <3>2. CASE g # changed
      BY <2>1, <3>2 DEF FilesInv, Writing, Settled, Files
    <3> QED
      BY <3>1, <3>2
  <2> QED
    BY <2>1, <2>2 DEF FilesInv, Writing, bandwidths
<1>4. CASE LogRaises \/ signal_handler
  BY <1>4 DEF LogRaises, signal_handler, FilesInv
<1>5. CASE ~(Decide \/ Start \/ Flush \/ LogRaises \/ signal_handler)
  <2>1. /\ UNCHANGED <<cpu_max, bandwidths, changed>>
        /\ \/ pc' = pc
           \/ pc \in {"budget", "measure", "log"} /\ pc' \in {"budget", "measure", "decide"}
           \/ pc = "apply" /\ pc' = "flush"
    BY <1>5, Zenon DEF Next, Loop, WriteBudget, WaitEnds, ReadBudget, MeasureFails,
       Measure, WriteBuffer, Log, vars
  <2> QED
    BY <2>1 DEF FilesInv, Writing, Settled, SettledAt, Bandwidth, bandwidths,
       quota_us, Slack
<1> QED
  BY <1>1, <1>2, <1>3, <1>4, <1>5

\* Both the bandwidths and the files follow the order of priorities.
LEMMA FilesHold ==
    ASSUME ~WriteErrors
    PROVE  Spec => []FilesInv
<1>1. Init => FilesInv
  BY DEF Init, FilesInv
<1>2. TypeOK /\ TypeOK' /\ FilesInv /\ [Next]_vars => FilesInv'
  BY FilesStep
<1> QED
  BY <1>1, <1>2, TypeCorrect, PTL DEF Spec

\* Between iterations every cpu.max file holds the limit the loop decided on,
\* up to one change that was too small to be applied.
THEOREM FilesFollowTheLoop ==
    ASSUME ~WriteErrors
    PROVE  Spec => []LimitsFollow
<1>1. TypeOK /\ FilesInv => LimitsFollow
  <2> SUFFICES ASSUME TypeOK, FilesInv, pc \in {"budget", "measure", "decide"},
                      NEW g \in {"user", "critical"}
               PROVE  /\ cpu_max[g] - quota_us(Bandwidth(g)) <= Slack
                      /\ quota_us(Bandwidth(g)) - cpu_max[g] <= Slack
    BY DEF LimitsFollow
  <2>1. SettledAt(cpu_max[g], Bandwidth(g))
    BY DEF FilesInv, Writing, Settled
  <2>2. cpu_max[g] \in Int /\ Slack \in Int /\ Slack >= 0
    BY ConstantsAssumption DEF TypeOK, Quotas, Slack
  <2> QED
    BY <2>1, <2>2 DEF SettledAt
<1> QED
  BY <1>1, TypeCorrect, FilesHold, PTL

\* At every moment of a run the kernel throttles the critical cgroup only
\* while it holds the user cgroup at the minimum.
THEOREM PriorityInForce ==
    ASSUME ~WriteErrors
    PROVE  Spec => []CriticalLastInForce
<1>1. TypeOK /\ FilesInv => CriticalLastInForce
  <2> SUFFICES ASSUME TypeOK, FilesInv, pc \notin {"start", "exited"},
                      cpu_max["critical"] + Slack < 100000 * Cores
               PROVE  cpu_max["user"] <= quota_us(THROTTLE_MIN) + Slack
    BY DEF CriticalLastInForce
  <2> DEFINE low == quota_us(THROTTLE_MIN)
             u == cpu_max["user"]
             c == cpu_max["critical"]
  <2>1. u \in Int /\ c \in Int /\ Slack \in Int /\ Slack >= 0
    BY ConstantsAssumption DEF TypeOK, Quotas, Slack
  <2>2. low \in Int
    BY LevelFacts, QuotaRange, ConstantsAssumption DEF Quotas
  <2>3. current_bandwidth_critical \in Int /\ current_bandwidth_critical <= THROTTLE_MAX
    BY LevelFacts DEF TypeOK, Level
  <2>4. ~Writing("user")
    <3> SUFFICES ASSUME Writing("user") PROVE FALSE
      OBVIOUS
    <3>1. SettledAt(c, THROTTLE_MAX)
      BY DEF FilesInv, Writing, Settled, Bandwidth
    <3> QED
      BY <2>1, <3>1, FullQuota, ConstantsAssumption DEF SettledAt
  <2>5. SettledAt(u, current_bandwidth_user)
    BY <2>4 DEF FilesInv, Settled, Bandwidth
  <2>6. current_bandwidth_user = THROTTLE_MIN
    <3>1. CASE Writing("critical")
      BY <3>1 DEF FilesInv
    <3>2. CASE ~Writing("critical")
      <4>1. SettledAt(c, current_bandwidth_critical)
        BY <3>2 DEF FilesInv, Settled, Bandwidth
      <4>2. current_bandwidth_critical # THROTTLE_MAX
        BY <2>1, <4>1, FullQuota, ConstantsAssumption DEF SettledAt
      <4> QED
        BY <2>3, <4>2, LevelFacts DEF FilesInv
    <3> QED
      BY <3>1, <3>2
  <2> HIDE DEF low, u, c
  <2>7. SettledAt(u, THROTTLE_MIN) => u <= low + Slack
    BY <2>1, <2>2 DEF SettledAt, low
  <2> QED
    BY <2>5, <2>6, <2>7 DEF low, u
<1> QED
  BY <1>1, TypeCorrect, FilesHold, PTL

-----------------------------------------------------------------------------
(* Progress.                                                               *)

\* The soft throttle is active whenever a decision is taken above 96% of the
\* budget.
ActiveAbove == pc = "decide" /\ AboveLow => throttling_active_state

LEMMA ActiveHolds == Spec => []ActiveAbove
<1>1. Init => ActiveAbove
  BY DEF Init, ActiveAbove
<1>2. ActiveAbove /\ [Next]_vars => ActiveAbove'
  <2> SUFFICES ASSUME ActiveAbove, [Next]_vars PROVE ActiveAbove'
    OBVIOUS
  <2>1. ASSUME NEW p \in Powers, Measure(p) PROVE ActiveAbove'
    BY <2>1 DEF Measure, ActiveAbove, AboveLow
  <2>2. CASE UNCHANGED <<pc, actual_power, target_power, throttling_active_state>>
    BY <2>2 DEF ActiveAbove, AboveLow
  <2>3. CASE pc' # "decide"
    BY <2>3 DEF ActiveAbove
  <2> QED
    BY <2>1, <2>2, <2>3
    DEF Next, vars, WriteBudget, WaitEnds, Loop, Start, ReadBudget, MeasureFails, Decide,
        ThrottleUser, ThrottleCritical, RecoverCritical, RecoverUser, DecideNothing,
        Decided, WriteBuffer, Flush, Log, LogRaises, signal_handler
<1> QED
  BY <1>1, <1>2, PTL DEF Spec

\* What the two cgroups are given together.
Total == current_bandwidth_user + current_bandwidth_critical

\* Every decision makes progress: above 96% of the budget the total falls
\* unless both cgroups are at the minimum, otherwise it rises unless both are
\* at the maximum or the wait is not over; and only decisions change it.  The
\* total is a natural number of units, so overload throttles both cgroups to
\* the minimum, and slack gives both their full bandwidth back, in finitely
\* many decisions.
DecisionsProgress ==
    [][IF pc = "decide" /\ pc' \in {"apply", "log"}
       THEN /\ AboveLow => Total' < Total \/ Total = 2 * THROTTLE_MIN
            /\ ~AboveLow /\ next_unthrottle_time # "ahead"
                   => Total' > Total \/ Total = 2 * THROTTLE_MAX
            /\ ~AboveLow /\ next_unthrottle_time = "ahead" => Total' = Total
       ELSE UNCHANGED bandwidths]_vars

LEMMA DecreasedStrictly ==
    ASSUME TypeOK, throttling_active_state, NEW b \in Level, b > THROTTLE_MIN
    PROVE  Decreased(b) < b
<1>1. b \in Int /\ b > 0
  BY LevelFacts DEF Level
<1>2. b \div 100 \in Int /\ b \div 100 < b
  BY <1>1
<1>3. (3 * b) \div 4 \in Int /\ (3 * b) \div 4 < b
  BY <1>1
<1> QED
  BY <1>1, <1>2, <1>3, LevelFacts DEF Decreased, MaxOf

LEMMA IncreasedStrictly ==
    ASSUME NEW b \in Level, b < THROTTLE_MAX
    PROVE  Increased(b) > b
BY LevelFacts DEF Increased, MinOf, Level

\* For every resolution of the bandwidths, every budget and every power.
THEOREM EveryDecisionProgresses == Spec => DecisionsProgress
<1> DEFINE Progress ==
        IF pc = "decide" /\ pc' \in {"apply", "log"}
        THEN /\ AboveLow => Total' < Total \/ Total = 2 * THROTTLE_MIN
             /\ ~AboveLow /\ next_unthrottle_time # "ahead"
                    => Total' > Total \/ Total = 2 * THROTTLE_MAX
             /\ ~AboveLow /\ next_unthrottle_time = "ahead" => Total' = Total
        ELSE UNCHANGED bandwidths
<1>1. TypeOK /\ ActiveAbove /\ [Next]_vars => [Progress]_vars
  <2> SUFFICES ASSUME TypeOK, ActiveAbove, Next PROVE Progress
    BY DEF vars
  <2>1. /\ current_bandwidth_user \in Int /\ current_bandwidth_critical \in Int
        /\ THROTTLE_MIN <= current_bandwidth_user
        /\ current_bandwidth_user <= THROTTLE_MAX
        /\ THROTTLE_MIN <= current_bandwidth_critical
        /\ current_bandwidth_critical <= THROTTLE_MAX
        /\ current_bandwidth_user \in Level /\ current_bandwidth_critical \in Level
    BY LevelFacts DEF TypeOK, Level
  <2>2. CASE ThrottleUser
    <3>1. Decreased(current_bandwidth_user) \in Int
      BY <2>1, LevelFacts, DecreasedRange
    <3>2. Decreased(current_bandwidth_user) < current_bandwidth_user
      BY <2>1, <2>2, DecreasedStrictly DEF ThrottleUser, ActiveAbove
    <3> QED
      BY <2>1, <2>2, <3>1, <3>2 DEF ThrottleUser, Decided, Total
  <2>3. CASE ThrottleCritical
    <3>1. Decreased(current_bandwidth_critical) \in Int
      BY <2>1, LevelFacts, DecreasedRange
    <3>2. Decreased(current_bandwidth_critical) < current_bandwidth_critical
      BY <2>1, <2>3, DecreasedStrictly DEF ThrottleCritical, ActiveAbove
    <3> QED
      BY <2>1, <2>3, <3>1, <3>2 DEF ThrottleCritical, Decided, Total
  <2>4. CASE RecoverCritical
    <3>1. Increased(current_bandwidth_critical) \in Int
      BY <2>1, LevelFacts, IncreasedRange
    <3>2. Increased(current_bandwidth_critical) > current_bandwidth_critical
      BY <2>1, <2>4, IncreasedStrictly DEF RecoverCritical
    <3> QED
      BY <2>1, <2>4, <3>1, <3>2 DEF RecoverCritical, Decided, Total
  <2>5. CASE RecoverUser
    <3>1. Increased(current_bandwidth_user) \in Int
      BY <2>1, LevelFacts, IncreasedRange
    <3>2. Increased(current_bandwidth_user) > current_bandwidth_user
      BY <2>1, <2>5, IncreasedStrictly DEF RecoverUser
    <3> QED
      BY <2>1, <2>5, <3>1, <3>2 DEF RecoverUser, Decided, Total
  <2>6. CASE DecideNothing
    <3>1. UNCHANGED bandwidths /\ Total' = Total
      BY <2>6 DEF DecideNothing, Total, bandwidths
    <3>2. AboveLow => Total = 2 * THROTTLE_MIN
      BY <2>1, <2>6, LevelFacts DEF DecideNothing, Total
    <3>3. ~AboveLow /\ next_unthrottle_time # "ahead" => Total = 2 * THROTTLE_MAX
      BY <2>1, <2>6, LevelFacts DEF DecideNothing, Total
    <3> QED
      BY <3>1, <3>2, <3>3
  <2>7. CASE UNCHANGED bandwidths /\ ~(pc = "decide" /\ pc' \in {"apply", "log"})
    BY <2>7
  <2> HIDE DEF Progress
  <2> QED
    BY <2>2, <2>3, <2>4, <2>5, <2>6, <2>7, Zenon
    DEF Next, WriteBudget, WaitEnds, Loop, Start, ReadBudget, MeasureFails, Measure, Decide,
        WriteBuffer, Flush, Log, LogRaises, signal_handler
<1> QED
  BY <1>1, ActiveHolds, TypeCorrect, PTL DEF Spec, DecisionsProgress

-----------------------------------------------------------------------------
(* Both ends are reached.                                                  *)

\* How far a bandwidth is from the minimum and from the maximum, coarsely
\* enough to be bounded for every Unit, finely enough for each decision to
\* count.
Over(b) == (3 * b) \div Unit + (IF b > THROTTLE_MIN THEN 1 ELSE 0)
Short(b) == (THROTTLE_MAX - b) \div Unit + (IF b < THROTTLE_MAX THEN 1 ELSE 0)

Excess == Over(current_bandwidth_user) + Over(current_bandwidth_critical)
Shortfall == Short(current_bandwidth_user) + Short(current_bandwidth_critical)

Overload == INSTANCE Settling WITH n <- Excess
Recovery == INSTANCE Settling WITH n <- Shortfall

LEMMA Quotients ==
    ASSUME NEW a \in Nat, NEW b \in Nat, NEW m \in Nat, a <= b
    PROVE  /\ a \div Unit \in Nat /\ b \div Unit \in Nat
           /\ a \div Unit <= b \div Unit
           /\ b <= m * Unit => b \div Unit <= m
           /\ a + Unit <= b => a \div Unit < b \div Unit
<1> DEFINE q == a \div Unit
           r == a % Unit
           s == b \div Unit
           t == b % Unit
<1>1. /\ q \in Nat /\ r \in 0..(Unit - 1) /\ a = Unit * q + r
      /\ s \in Nat /\ t \in 0..(Unit - 1) /\ b = Unit * s + t
  BY ConstantsAssumption
<1> HIDE DEF q, r, s, t
<1>2. q <= s
  <2> SUFFICES ASSUME s + 1 <= q PROVE FALSE
    BY <1>1
  <2>1. Unit * (s + 1) <= Unit * q
    BY <1>1, ConstantsAssumption
  <2> QED
    BY <1>1, <2>1, ConstantsAssumption
<1>3. ASSUME b <= m * Unit PROVE s <= m
  <2> SUFFICES ASSUME m + 1 <= s PROVE FALSE
    BY <1>1
  <2>1. Unit * (m + 1) <= Unit * s
    BY <1>1, ConstantsAssumption
  <2> QED
    BY <1>1, <1>3, <2>1, ConstantsAssumption
<1>4. ASSUME a + Unit <= b PROVE q < s
  <2> SUFFICES ASSUME s <= q PROVE FALSE
    BY <1>1
  <2>1. Unit * s <= Unit * q
    BY <1>1, ConstantsAssumption
  <2> QED
    BY <1>1, <1>4, <2>1, ConstantsAssumption
<1> QED
  BY <1>1, <1>2, <1>3, <1>4 DEF q, s

LEMMA OverRange ==
    ASSUME NEW b \in Level
    PROVE  Over(b) \in Nat /\ Over(b) <= 301
<1>1. b \in Nat /\ 3 * b \in Nat /\ 3 * b <= 300 * Unit
  BY LevelFacts, ConstantsAssumption DEF Level, THROTTLE_MIN, THROTTLE_MAX
<1>2. (3 * b) \div Unit \in Nat /\ (3 * b) \div Unit <= 300
  BY <1>1, Quotients
<1> QED
  BY <1>2 DEF Over

\* A decrease by a quarter or more, or to the minimum, counts.
LEMMA OverFalls ==
    ASSUME TypeOK, throttling_active_state, NEW b \in Level, b > THROTTLE_MIN
    PROVE  Over(Decreased(b)) < Over(b)
<1> DEFINE d == Decreased(b)
<1>0. b \in Int /\ b > 0 /\ b <= THROTTLE_MAX
  BY LevelFacts DEF Level
<1>1. b \in Nat /\ d \in Nat /\ d < b /\ d >= THROTTLE_MIN
  <2>1. d \in THROTTLE_MIN..b
    BY DecreasedRange
  <2>2. d < b
    BY DecreasedStrictly
  <2> HIDE DEF d
  <2> QED
    BY <1>0, <2>1, <2>2, LevelFacts
<1>2. d = THROTTLE_MIN \/ 4 * d <= 3 * b
  <2>1. b \div 100 \in Int /\ 4 * (b \div 100) <= 3 * b
    BY <1>0
  <2>2. (3 * b) \div 4 \in Int /\ 4 * ((3 * b) \div 4) <= 3 * b
    BY <1>0
  <2>3. d \in {THROTTLE_MIN, b \div 100, (3 * b) \div 4}
    BY DEF Decreased, MaxOf
  <2> HIDE DEF d
  <2> QED
    BY <2>1, <2>2, <2>3
<1> HIDE DEF d
<1> DEFINE p == (3 * d) \div Unit
           q == (3 * b) \div Unit
<1>3. 3 * d <= 3 * b /\ 3 * d \in Nat /\ 3 * b \in Nat
  BY <1>1
<1>4. p \in Nat /\ q \in Nat /\ p <= q
  BY <1>3, Quotients
<1>5. Over(b) = q + 1 /\ Over(d) = p + (IF d > THROTTLE_MIN THEN 1 ELSE 0)
  BY DEF Over
<1>6. 4 * d <= 3 * b /\ d > THROTTLE_MIN => p < q
  <2> SUFFICES ASSUME 4 * d <= 3 * b, d > THROTTLE_MIN PROVE p < q
    OBVIOUS
  <2>1. 3 * d + Unit <= 3 * b
    BY <1>1, ConstantsAssumption DEF THROTTLE_MIN
  <2> QED
    BY <1>3, <2>1, Quotients
<1> HIDE DEF p, q
<1>7. Over(d) < Over(b)
  BY <1>1, <1>2, <1>4, <1>5, <1>6, LevelFacts
<1> QED
  BY <1>7 DEF d

LEMMA ShortRange ==
    ASSUME NEW b \in Level
    PROVE  Short(b) \in Nat /\ Short(b) <= 101
<1>1. THROTTLE_MAX - b \in Nat /\ THROTTLE_MAX - b <= 100 * Unit
  BY LevelFacts, ConstantsAssumption DEF Level, THROTTLE_MIN, THROTTLE_MAX
<1>2. (THROTTLE_MAX - b) \div Unit \in Nat /\ (THROTTLE_MAX - b) \div Unit <= 100
  BY <1>1, Quotients
<1> QED
  BY <1>2 DEF Short

\* An increase by five percent, or to the maximum, counts.
LEMMA ShortFalls ==
    ASSUME NEW b \in Level, b < THROTTLE_MAX
    PROVE  Short(Increased(b)) < Short(b)
<1> DEFINE d == Increased(b)
<1>0. b \in Int /\ THROTTLE_MIN <= b
  BY LevelFacts DEF Level
<1>1. d \in Int /\ d > b /\ d <= THROTTLE_MAX
  <2>1. d \in b..THROTTLE_MAX
    BY IncreasedRange
  <2>2. d > b
    BY IncreasedStrictly
  <2> HIDE DEF d
  <2> QED
    BY <1>0, <2>1, <2>2, LevelFacts
<1>2. d = THROTTLE_MAX \/ d = b + 5 * Unit
  BY DEF Increased, MinOf, UNTHROTTLE_STEP
<1> HIDE DEF d
<1>3. /\ THROTTLE_MAX - d \in Nat /\ THROTTLE_MAX - b \in Nat
      /\ THROTTLE_MAX - d <= THROTTLE_MAX - b
      /\ d = THROTTLE_MAX \/ (d < THROTTLE_MAX /\ THROTTLE_MAX - d + Unit <= THROTTLE_MAX - b)
  BY <1>0, <1>1, <1>2, LevelFacts, ConstantsAssumption
<1>4. /\ (THROTTLE_MAX - d) \div Unit \in Nat /\ (THROTTLE_MAX - b) \div Unit \in Nat
      /\ (THROTTLE_MAX - d) \div Unit <= (THROTTLE_MAX - b) \div Unit
      /\ \/ d = THROTTLE_MAX
         \/ d < THROTTLE_MAX
            /\ (THROTTLE_MAX - d) \div Unit < (THROTTLE_MAX - b) \div Unit
  BY <1>3, Quotients
<1>5. Short(d) < Short(b)
  BY <1>4, LevelFacts DEF Short
<1> QED
  BY <1>5 DEF d

LEMMA ExcessRange == TypeOK => Excess \in Nat /\ Excess < 128 * 128
<1> SUFFICES ASSUME TypeOK PROVE Excess \in Nat /\ Excess < 128 * 128
  OBVIOUS
<1>1. /\ Over(current_bandwidth_user) \in Nat /\ Over(current_bandwidth_user) <= 301
      /\ Over(current_bandwidth_critical) \in Nat /\ Over(current_bandwidth_critical) <= 301
  BY OverRange DEF TypeOK
<1> QED
  BY <1>1 DEF Excess

LEMMA ShortfallRange == TypeOK => Shortfall \in Nat /\ Shortfall < 128 * 128
<1> SUFFICES ASSUME TypeOK PROVE Shortfall \in Nat /\ Shortfall < 128 * 128
  OBVIOUS
<1>1. /\ Short(current_bandwidth_user) \in Nat /\ Short(current_bandwidth_user) <= 101
      /\ Short(current_bandwidth_critical) \in Nat /\ Short(current_bandwidth_critical) <= 101
  BY ShortRange DEF TypeOK
<1> QED
  BY <1>1 DEF Shortfall

\* Only decisions change a bandwidth or start a wait.
LEMMA OnlyDecisions ==
    ASSUME [Next]_vars
    PROVE  \/ Decide
           \/ /\ UNCHANGED bandwidths
              /\ pc = "decide" => pc' \in {"decide", "exited"}
              /\ next_unthrottle_time' = "ahead" => next_unthrottle_time = "ahead"
              /\ pc = "exited" => pc' = "exited"
BY Zenon DEF Next, vars, WriteBudget, WaitEnds, Loop, Start, ReadBudget, MeasureFails, Measure,
       WriteBuffer, Flush, Log, LogRaises, signal_handler

AtMinimum ==
    /\ current_bandwidth_user = THROTTLE_MIN
    /\ current_bandwidth_critical = THROTTLE_MIN
AtMaximum ==
    /\ current_bandwidth_user = THROTTLE_MAX
    /\ current_bandwidth_critical = THROTTLE_MAX

\* A decision above 96% of the budget reduces the excess unless there is none.
LEMMA OverloadStep ==
    ASSUME TypeOK, ActiveAbove, AboveWhenDeciding, [Next]_vars
    PROVE  /\ [Excess' <= Excess]_Excess
           /\ AtMinimum => AtMinimum'
           /\ pc = "decide" /\ [FALSE]_Excess => AtMinimum' \/ pc' \in {"decide", "exited"}
<1>1. /\ current_bandwidth_user \in Level /\ current_bandwidth_critical \in Level
      /\ current_bandwidth_user \in Int /\ current_bandwidth_critical \in Int
      /\ current_bandwidth_user >= THROTTLE_MIN /\ current_bandwidth_critical >= THROTTLE_MIN
  BY LevelFacts DEF TypeOK, Level
<1>2. CASE ThrottleUser
  <2>1. current_bandwidth_user' \in Level
    <3>1. current_bandwidth_user' \in THROTTLE_MIN..current_bandwidth_user
      BY <1>1, <1>2, DecreasedRange DEF ThrottleUser
    <3> QED
      BY <1>1, <3>1, LevelFacts DEF Level
  <2>2. Over(current_bandwidth_user') < Over(current_bandwidth_user)
    BY <1>1, <1>2, OverFalls DEF ThrottleUser, ActiveAbove
  <2>3. /\ Over(current_bandwidth_user) \in Nat /\ Over(current_bandwidth_user') \in Nat
        /\ Over(current_bandwidth_critical) \in Nat
    BY <1>1, <2>1, OverRange
  <2>4. Excess' < Excess /\ Excess \in Nat /\ Excess' \in Nat
    BY <1>2, <2>2, <2>3 DEF ThrottleUser, Excess
  <2>5. ~AtMinimum
    BY <1>1, <1>2, LevelFacts DEF ThrottleUser, AtMinimum
  <2> QED
    BY <2>4, <2>5
<1>3. CASE ThrottleCritical
  <2>1. current_bandwidth_critical' \in Level
    <3>1. current_bandwidth_critical' \in THROTTLE_MIN..current_bandwidth_critical
      BY <1>1, <1>3, DecreasedRange DEF ThrottleCritical
    <3> QED
      BY <1>1, <3>1, LevelFacts DEF Level
  <2>2. Over(current_bandwidth_critical') < Over(current_bandwidth_critical)
    BY <1>1, <1>3, OverFalls DEF ThrottleCritical, ActiveAbove
  <2>3. /\ Over(current_bandwidth_critical) \in Nat /\ Over(current_bandwidth_critical') \in Nat
        /\ Over(current_bandwidth_user) \in Nat
    BY <1>1, <2>1, OverRange
  <2>4. Excess' < Excess /\ Excess \in Nat /\ Excess' \in Nat
    BY <1>3, <2>2, <2>3 DEF ThrottleCritical, Excess
  <2>5. ~AtMinimum
    BY <1>1, <1>3, LevelFacts DEF ThrottleCritical, AtMinimum
  <2> QED
    BY <2>4, <2>5
<1>4. CASE DecideNothing
  BY <1>1, <1>4, LevelFacts DEF DecideNothing, AboveWhenDeciding, AboveLow, AtMinimum,
     bandwidths, Excess
<1>5. ~RecoverCritical /\ ~RecoverUser
  BY DEF RecoverCritical, RecoverUser, AboveWhenDeciding, AboveLow
<1>6. CASE ~Decide
  BY <1>6, OnlyDecisions DEF bandwidths, Excess, AtMinimum
<1> QED
  BY <1>2, <1>3, <1>4, <1>5, <1>6 DEF Decide

\* A loop that gets through its decisions, all of them from some point on above
\* 96% of the budget, ends up with both cgroups at the minimum: for every
\* resolution of the bandwidths, every budget and every power.
THEOREM OverloadThrottlesInTheEnd ==
    Spec /\ []<>(pc # "decide") => OverloadReachesMinimum
<1> DEFINE Above == TypeOK /\ ActiveAbove /\ AboveWhenDeciding /\ [Next]_vars
<1>1. /\ Above => [Excess' <= Excess]_Excess
      /\ Above /\ AtMinimum => AtMinimum'
      /\ Above /\ pc = "decide" /\ [FALSE]_Excess /\ ~(pc = "decide")'
             => AtMinimum' \/ (pc = "exited")'
  BY OverloadStep
<1>2. [Next]_vars /\ pc = "exited" => (pc = "exited")'
  BY OnlyDecisions DEF Decide, ThrottleUser, ThrottleCritical, RecoverCritical, RecoverUser,
     DecideNothing
<1>3. /\ pc # "decide" <=> ~(pc = "decide")
      /\ ~(pc = "exited" /\ pc = "decide")
      /\ AtMinimum <=> /\ current_bandwidth_user = THROTTLE_MIN
                       /\ current_bandwidth_critical = THROTTLE_MIN
  BY DEF AtMinimum
<1>4. []TypeOK /\ []ActiveAbove /\ [][Next]_vars /\ <>[]AboveWhenDeciding => <>[][FALSE]_Excess
  BY <1>1, ExcessRange, Overload!Settles, PTL
<1>5. []TypeOK /\ []ActiveAbove /\ [][Next]_vars /\ []<>(pc # "decide") /\ Decides
          /\ <>[]AboveWhenDeciding => <>[]AtMinimum
  BY <1>1, <1>2, <1>3, <1>4, PTL DEF Decides
<1> QED
  BY <1>3, <1>5, TypeCorrect, ActiveHolds, PTL DEF Spec, OverloadReachesMinimum

\* A decision at 96% of the budget or below reduces the shortfall, unless there
\* is none or the wait after the last such decision is not over; and nothing
\* but such a decision starts a wait.
LEMMA RecoveryStep ==
    ASSUME TypeOK, BelowWhenDeciding, [Next]_vars
    PROVE  /\ [Shortfall' <= Shortfall]_Shortfall
           /\ AtMaximum => AtMaximum'
           /\ [FALSE]_Shortfall /\ next_unthrottle_time' = "ahead"
                  => next_unthrottle_time = "ahead"
           /\ pc = "decide" /\ [FALSE]_Shortfall
                  => AtMaximum' \/ pc' \in {"decide", "exited"} \/ next_unthrottle_time = "ahead"
<1>0. ~AboveLow \/ pc # "decide"
  <2>1. actual_power \in Int /\ target_power \in Int
    BY ConstantsAssumption DEF TypeOK, NoReading
  <2> QED
    BY <2>1 DEF BelowWhenDeciding, AboveLow
<1>1. /\ current_bandwidth_user \in Level /\ current_bandwidth_critical \in Level
      /\ current_bandwidth_user \in Int /\ current_bandwidth_critical \in Int
      /\ current_bandwidth_user <= THROTTLE_MAX /\ current_bandwidth_critical <= THROTTLE_MAX
      /\ THROTTLE_MIN <= current_bandwidth_user /\ THROTTLE_MIN <= current_bandwidth_critical
  BY LevelFacts DEF TypeOK, Level
<1>2. CASE RecoverUser
  <2>1. current_bandwidth_user' \in Level
    <3>1. current_bandwidth_user' \in current_bandwidth_user..THROTTLE_MAX
      BY <1>1, <1>2, IncreasedRange DEF RecoverUser
    <3> QED
      BY <1>1, <3>1, LevelFacts DEF Level
  <2>2. Short(current_bandwidth_user') < Short(current_bandwidth_user)
    BY <1>1, <1>2, ShortFalls DEF RecoverUser
  <2>3. /\ Short(current_bandwidth_user) \in Nat /\ Short(current_bandwidth_user') \in Nat
        /\ Short(current_bandwidth_critical) \in Nat
    BY <1>1, <2>1, ShortRange
  <2>4. Shortfall' < Shortfall /\ Shortfall \in Nat /\ Shortfall' \in Nat
    BY <1>2, <2>2, <2>3 DEF RecoverUser, Shortfall
  <2>5. ~AtMaximum
    BY <1>1, <1>2, LevelFacts DEF RecoverUser, AtMaximum
  <2> QED
    BY <2>4, <2>5
<1>3. CASE RecoverCritical
  <2>1. current_bandwidth_critical' \in Level
    <3>1. current_bandwidth_critical' \in current_bandwidth_critical..THROTTLE_MAX
      BY <1>1, <1>3, IncreasedRange DEF RecoverCritical
    <3> QED
      BY <1>1, <3>1, LevelFacts DEF Level
  <2>2. Short(current_bandwidth_critical') < Short(current_bandwidth_critical)
    BY <1>1, <1>3, ShortFalls DEF RecoverCritical
  <2>3. /\ Short(current_bandwidth_critical) \in Nat /\ Short(current_bandwidth_critical') \in Nat
        /\ Short(current_bandwidth_user) \in Nat
    BY <1>1, <2>1, ShortRange
  <2>4. Shortfall' < Shortfall /\ Shortfall \in Nat /\ Shortfall' \in Nat
    BY <1>3, <2>2, <2>3 DEF RecoverCritical, Shortfall
  <2>5. ~AtMaximum
    BY <1>1, <1>3, LevelFacts DEF RecoverCritical, AtMaximum
  <2> QED
    BY <2>4, <2>5
<1>4. CASE DecideNothing
  BY <1>0, <1>1, <1>4, LevelFacts DEF DecideNothing, AtMaximum, bandwidths, Shortfall
<1>5. ~ThrottleCritical /\ ~ThrottleUser
  BY <1>0 DEF ThrottleCritical, ThrottleUser
<1>6. CASE ~Decide
  BY <1>6, OnlyDecisions DEF bandwidths, Shortfall, AtMaximum
<1> QED
  BY <1>2, <1>3, <1>4, <1>5, <1>6 DEF Decide

\* A loop that gets through its decisions, all of them from some point on at 96%
\* of the budget or below, and whose waits end, gives both cgroups their full
\* bandwidth back.
THEOREM LowPowerRecoversInTheEnd ==
    Spec /\ []<>(pc # "decide") /\ []<>(next_unthrottle_time # "ahead") => RecoversWhenLow
<1> DEFINE Below == TypeOK /\ BelowWhenDeciding /\ [Next]_vars
           Waiting == next_unthrottle_time = "ahead"
<1>1. /\ Below => [Shortfall' <= Shortfall]_Shortfall
      /\ Below /\ AtMaximum => AtMaximum'
      /\ Below /\ [FALSE]_Shortfall /\ ~Waiting => ~Waiting'
      /\ Below /\ pc = "decide" /\ [FALSE]_Shortfall /\ ~(pc = "decide")' /\ ~Waiting
             => AtMaximum' \/ (pc = "exited")'
  BY RecoveryStep
<1>2. [Next]_vars /\ pc = "exited" => (pc = "exited")'
  BY OnlyDecisions DEF Decide, ThrottleUser, ThrottleCritical, RecoverCritical, RecoverUser,
     DecideNothing
<1>3. /\ pc # "decide" <=> ~(pc = "decide")
      /\ ~(pc = "exited" /\ pc = "decide")
      /\ next_unthrottle_time # "ahead" <=> ~Waiting
      /\ AtMaximum <=> /\ current_bandwidth_user = THROTTLE_MAX
                       /\ current_bandwidth_critical = THROTTLE_MAX
  BY DEF AtMaximum
<1> HIDE DEF Waiting
<1>4. []TypeOK /\ [][Next]_vars /\ <>[]BelowWhenDeciding => <>[][FALSE]_Shortfall
  BY <1>1, ShortfallRange, Recovery!Settles, PTL
<1>5. []TypeOK /\ [][Next]_vars /\ []<>(next_unthrottle_time # "ahead") /\ <>[]BelowWhenDeciding
          => <>[]~Waiting
  BY <1>1, <1>3, <1>4, PTL
<1>6. []TypeOK /\ [][Next]_vars /\ []<>(pc # "decide") /\ []<>(next_unthrottle_time # "ahead")
          /\ Decides /\ <>[]BelowWhenDeciding => <>[]AtMaximum
  BY <1>1, <1>2, <1>3, <1>4, <1>5, PTL DEF Decides
<1> QED
  BY <1>3, <1>6, TypeCorrect, PTL DEF Spec, RecoversWhenLow

=============================================================================

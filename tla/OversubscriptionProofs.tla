---------------------- MODULE OversubscriptionProofs ----------------------
(***************************************************************************)
(* Proofs about the oversubscription sweep for every sequence of levels    *)
(* and every number of benchmarks.                                         *)
(***************************************************************************)
EXTENDS Oversubscription, TLAPS

LEMMA SweepShape ==
    /\ JobsPerLevel \in Nat \ {0}
    /\ Jobs \in Nat
    /\ Jobs >= 1
<1>1. JobsPerLevel \in Nat \ {0}
  BY SweepAssumption DEF JobsPerLevel
<1>2. Len(Levels) \in Nat /\ Len(Levels) >= 1
  BY SweepAssumption
<1> DEFINE a == Len(Levels)  b == JobsPerLevel
<1>3. a \in Nat /\ b \in Nat /\ a >= 1 /\ b >= 1
  BY <1>1, <1>2
<1> HIDE DEF a, b
<1>4. a * b \in Nat /\ a * b >= 1
  <2>1. (a - 1) * b >= 0 /\ (a - 1) * b = a * b - b
    BY <1>3
  <2> QED
    BY <1>3, <2>1
<1> QED
  BY <1>1, <1>4 DEF Jobs, a, b

\* Within a level the job after j has the level of j.
LEMMA SameLevel ==
    ASSUME NEW j \in Nat \ {0}, j % JobsPerLevel # 0
    PROVE  Level(j + 1) = Level(j)
<1> DEFINE d == JobsPerLevel  q == (j - 1) \div d  r == j \div d
<1>1. d \in Nat \ {0}
  BY SweepShape
<1> HIDE DEF d
<1>2. q \in Int /\ q * d <= j - 1 /\ j - 1 < q * d + d
  BY <1>1
<1>3. r \in Int /\ r * d <= j /\ j < r * d + d /\ j % d = j - r * d
  BY <1>1
<1>4. j # r * d
  BY <1>3, <1>1 DEF d
<1> HIDE DEF q, r
<1>5. q = r
  <2>1. ~(r < q)
    <3> SUFFICES ASSUME r + 1 <= q PROVE FALSE
      BY <1>2, <1>3
    <3>1. (q - r - 1) * d >= 0 /\ (q - r - 1) * d = q * d - r * d - d
      BY <1>1, <1>2, <1>3
    <3> QED
      BY <1>1, <1>2, <1>3, <3>1
  <2>2. ~(q < r)
    <3> SUFFICES ASSUME q + 1 <= r PROVE FALSE
      BY <1>2, <1>3
    <3>1. (r - q - 1) * d >= 0 /\ (r - q - 1) * d = r * d - q * d - d
      BY <1>1, <1>2, <1>3
    <3> QED
      BY <1>1, <1>2, <1>3, <1>4, <3>1
  <2> QED
    BY <1>2, <1>3, <2>1, <2>2
<1>6. (j + 1) - 1 = j
  OBVIOUS
<1> QED
  BY <1>5, <1>6 DEF Level, d, q, r

\* The two tables of the model.
LEMMA TeePlaces ==
    /\ DOMAIN TeeAfter = {"level_tee", "base_tee", "stop_tee", "trap_tee"}
    /\ TeeAfter["level_tee"] = "setup" /\ TeeAfter["base_tee"] = "fork"
    /\ TeeAfter["stop_tee"] = "sleep" /\ TeeAfter["trap_tee"] = "trap_kill"
BY DEF TeeAfter

LEMMA WriterPlaces ==
    /\ DOMAIN WriterAfter = {"high", "low_sudo", "low_tee", "low", "base_sudo", "base_tee"}
    /\ \A a \in DOMAIN WriterAfter : WriterAfter[a] \in DOMAIN WriterAfter
    /\ "none" \notin DOMAIN WriterAfter
BY DEF WriterAfter

-----------------------------------------------------------------------------
(* The inductive invariant.                                                *)

Fluctuating == {"pid", "bench", "stop"}
Stopping == {"stop_base", "stop_tee", "sleep"}
Starting == {"start", "baseline", "level"}

\* The shell variable holds the base of the level; the writer is this job's
\* and runs only around the benchmark; a tee it leaves behind has ended before
\* the next job.
ShellInv ==
    ~InTrap =>
        /\ pc \notin Starting => CURRENT_BUDGET = Base(job)
        /\ pc \notin Fluctuating => writer = NoWriter
        /\ pc \in Fluctuating => writer \in [at : DOMAIN WriterAfter, job : {job}] \cup {NoWriter}
        /\ pc \notin Stopping => orphan = NoTee

BudgetInv ==
    /\ pc = "fork" => budget = Base(job)
    /\ pc \in {"pid", "bench"} => budget \in {NoBudget, Base(job), Low(job)}

ProcsInv ==
    /\ LeftoversBounded
    /\ pc \in Starting \cup {"level_tee", "setup"} => job \notin sleeping \cup live
    /\ pc = "kill" => sleeping \subseteq {job}
    /\ StartsUnthrottled

SweepInv == TypeOK /\ ShellInv /\ BudgetInv /\ ProcsInv

LEMMA SweepInitInv == Init => SweepInv
<1> SUFFICES ASSUME Init PROVE SweepInv
  OBVIOUS
<1>1. aborted \in BOOLEAN /\ FLUCT_PID \in BOOLEAN /\ throttled \in BOOLEAN
      /\ estimator \in BOOLEAN
  BY Zenon DEF Init
<1>2. TypeOK
  BY <1>1, SweepShape DEF Init, TypeOK, Places
<1> QED
  BY <1>2 DEF Init, SweepInv, ShellInv, BudgetInv, ProcsInv, LeftoversBounded,
       StartsUnthrottled, Starting, Fluctuating, Stopping, InTrap

LEMMA TypeStep == TypeOK /\ [Next]_vars => TypeOK'
<1> SUFFICES ASSUME TypeOK, [Next]_vars PROVE TypeOK'
  OBVIOUS
<1> USE SweepShape DEF TypeOK, Places, procs, fluct
<1>1. CASE StartEstimator
  BY <1>1 DEF StartEstimator
<1>2. CASE Baselines
  BY <1>2, Zenon DEF Baselines
<1>3. CASE StartLevel
  BY <1>3 DEF StartLevel
<1>4. CASE Setup
  BY <1>4, Zenon DEF Setup
<1>5. CASE TruncateBase
  BY <1>5 DEF TruncateBase
<1>6. CASE WriteBase
  <2>1. FLUCT_PID' \in BOOLEAN
    BY <1>6, Zenon DEF WriteBase
  <2> QED
    BY <1>6, <2>1, TeePlaces DEF WriteBase
<1>7. CASE Fork \/ SetPid \/ BenchmarkEnds \/ KillWriter \/ SleepEnds
  BY <1>7, Zenon DEF Fork, SetPid, BenchmarkEnds, KillWriter, SleepEnds
<1>8. CASE EndJob
  <2>1. throttled' \in BOOLEAN
    BY <1>8, Zenon DEF EndJob, kill_controllers
  <2>2. job' \in 1..Jobs
    BY <1>8 DEF EndJob
  <2>3. pc' \in Places
    BY <1>8 DEF EndJob
  <2> QED
    BY <1>8, <2>1, <2>2, <2>3, Zenon DEF EndJob, kill_controllers
<1>9. CASE TrapNoWriter \/ TrapKills \/ Interrupt \/ CommandFails \/ TrapFails
  BY <1>9, Zenon DEF TrapNoWriter, TrapKills, Interrupt, CommandFails, TrapFails, kill_controllers
<1>10. CASE Fluctuate \/ WriterBreaks \/ OrphanTee
  BY <1>10 DEF Fluctuate, WriterBreaks, NoWriter, OrphanTee
<1>11. ASSUME NEW j \in 1..Jobs, ControllerStarts(j)
       PROVE  TypeOK'
  BY <1>11 DEF ControllerStarts
<1>12. CASE ControllerActs
  BY <1>12 DEF ControllerActs
<1>13. CASE UNCHANGED vars
  BY <1>13 DEF vars
<1> QED
  BY <1>1, <1>2, <1>3, <1>4, <1>5, <1>6, <1>7, <1>8, <1>9, <1>10, <1>11, <1>12,
     <1>13 DEF Next, Driver, Background

LEMMA ShellStep == SweepInv /\ [Next]_vars => ShellInv'
<1> SUFFICES ASSUME SweepInv, [Next]_vars PROVE ShellInv'
  OBVIOUS
<1> USE DEF SweepInv, ShellInv, InTrap, Fluctuating, Stopping, Starting, procs, fluct
<1>1. CASE StartEstimator \/ Baselines
  BY <1>1 DEF StartEstimator, Baselines
<1>3. CASE StartLevel
  BY <1>3 DEF StartLevel
<1>4. CASE Setup
  BY <1>4 DEF Setup
<1>5. CASE TruncateBase
  BY <1>5 DEF TruncateBase
<1>6. CASE WriteBase
  BY <1>6, TeePlaces DEF WriteBase
<1>7. CASE Fork
  BY <1>7, WriterPlaces DEF Fork
<1>8. CASE SetPid \/ BenchmarkEnds \/ KillWriter \/ SleepEnds
  BY <1>8 DEF SetPid, BenchmarkEnds, KillWriter, SleepEnds
<1>9. CASE EndJob
  <2>1. CASE pc' = "setup"
    <3>1. job \in Nat \ {0} /\ job' = job + 1 /\ job % JobsPerLevel # 0
      BY <1>9, <2>1 DEF EndJob, TypeOK
    <3>2. Base(job') = Base(job)
      BY <3>1, SameLevel DEF Base
    <3> QED
      BY <1>9, <2>1, <3>2 DEF EndJob
  <2>2. CASE pc' \in {"level", "trap"}
    BY <1>9, <2>2 DEF EndJob
  <2> QED
    BY <1>9, <2>1, <2>2 DEF EndJob
<1>10. CASE TrapNoWriter \/ TrapKills \/ Interrupt \/ CommandFails \/ TrapFails
  BY <1>10 DEF TrapNoWriter, TrapKills, Interrupt, CommandFails, TrapFails
<1>11. CASE Fluctuate
  <2>1. ASSUME ~InTrap PROVE pc \in Fluctuating
    BY <1>11, <2>1, WriterPlaces DEF Fluctuate, NoWriter
  <2> QED
    BY <1>11, <2>1, WriterPlaces DEF Fluctuate, NoWriter
<1>12. CASE OrphanTee \/ WriterBreaks
  BY <1>12 DEF OrphanTee, WriterBreaks
<1>13. ASSUME NEW j \in 1..Jobs, ControllerStarts(j)
       PROVE  ShellInv'
  BY <1>13 DEF ControllerStarts
<1>14. CASE ControllerActs
  BY <1>14 DEF ControllerActs
<1>15. CASE UNCHANGED vars
  BY <1>15 DEF vars
<1> QED
  BY <1>1, <1>3, <1>4, <1>5, <1>6, <1>7, <1>8, <1>9, <1>10, <1>11, <1>12, <1>13,
     <1>14, <1>15 DEF Next, Driver, Background

LEMMA BudgetStep == SweepInv /\ [Next]_vars => BudgetInv'
<1> SUFFICES ASSUME SweepInv, [Next]_vars PROVE BudgetInv'
  OBVIOUS
<1> USE DEF SweepInv, ShellInv, BudgetInv, InTrap, Fluctuating, Stopping, Starting,
        procs, fluct
<1>1. CASE StartEstimator \/ Baselines \/ StartLevel \/ Setup
  BY <1>1 DEF StartEstimator, Baselines, StartLevel, Setup
<1>2. CASE TruncateBase
  BY <1>2 DEF TruncateBase
<1>3. CASE WriteBase
  BY <1>3, TeePlaces DEF WriteBase
<1>4. CASE Fork \/ SetPid
  BY <1>4 DEF Fork, SetPid
<1>5. CASE BenchmarkEnds \/ KillWriter \/ SleepEnds \/ EndJob
  BY <1>5 DEF BenchmarkEnds, KillWriter, SleepEnds, EndJob
<1>6. CASE TrapNoWriter \/ TrapKills \/ Interrupt \/ CommandFails \/ TrapFails
  BY <1>6 DEF TrapNoWriter, TrapKills, Interrupt, CommandFails, TrapFails
<1>7. CASE Fluctuate
  <2>1. pc' = pc /\ job' = job
        /\ budget' \in {budget, NoBudget, Base(writer.job), Low(writer.job)}
    BY <1>7 DEF Fluctuate
  <2>2. pc # "fork"
    BY <1>7, WriterPlaces DEF Fluctuate, NoWriter
  <2>3. ASSUME pc \in {"pid", "bench"} PROVE writer.job = job
    BY <1>7, <2>3, WriterPlaces DEF Fluctuate, NoWriter
  <2> QED
    BY <2>1, <2>2, <2>3
<1>8. CASE OrphanTee \/ WriterBreaks
  BY <1>8 DEF OrphanTee, WriterBreaks
<1>9. ASSUME NEW j \in 1..Jobs, ControllerStarts(j)
      PROVE  BudgetInv'
  BY <1>9 DEF ControllerStarts
<1>10. CASE ControllerActs
  BY <1>10 DEF ControllerActs
<1>11. CASE UNCHANGED vars
  BY <1>11 DEF vars
<1> QED
  BY <1>1, <1>2, <1>3, <1>4, <1>5, <1>6, <1>7, <1>8, <1>9, <1>10, <1>11
     DEF Next, Driver, Background

LEMMA ProcsStep == SweepInv /\ [Next]_vars => ProcsInv'
<1> SUFFICES ASSUME SweepInv, [Next]_vars PROVE ProcsInv'
  OBVIOUS
<1> USE DEF SweepInv, ProcsInv, LeftoversBounded, StartsUnthrottled, InTrap, Starting,
        procs, fluct
<1>0. job \in Nat \ {0}
  BY SweepShape DEF TypeOK
<1>1. CASE StartEstimator
  BY <1>1 DEF StartEstimator
<1>2. CASE Baselines
  BY <1>2 DEF Baselines
<1>3. CASE StartLevel
  BY <1>3 DEF StartLevel
<1>4. CASE Setup
  BY <1>4 DEF Setup
<1>5. CASE TruncateBase
  BY <1>5 DEF TruncateBase
<1>6. CASE WriteBase
  BY <1>6, TeePlaces DEF WriteBase
<1>7. CASE Fork \/ SetPid \/ BenchmarkEnds \/ KillWriter \/ SleepEnds
  BY <1>7 DEF Fork, SetPid, BenchmarkEnds, KillWriter, SleepEnds
<1>8. CASE EndJob
  BY <1>0, <1>8 DEF EndJob, kill_controllers
<1>9. CASE TrapNoWriter \/ TrapKills \/ Interrupt \/ CommandFails \/ TrapFails
  BY <1>9 DEF TrapNoWriter, TrapKills, Interrupt, CommandFails, TrapFails, kill_controllers
<1>10. CASE Fluctuate \/ WriterBreaks \/ OrphanTee
  BY <1>10 DEF Fluctuate, WriterBreaks, NoWriter, OrphanTee
<1>11. ASSUME NEW j \in 1..Jobs, ControllerStarts(j)
       PROVE  ProcsInv'
  BY <1>11 DEF ControllerStarts
<1>12. CASE ControllerActs
  BY <1>12 DEF ControllerActs
<1>13. CASE UNCHANGED vars
  BY <1>13 DEF vars
<1> QED
  BY <1>1, <1>2, <1>3, <1>4, <1>5, <1>6, <1>7, <1>8, <1>9, <1>10, <1>11, <1>12,
     <1>13 DEF Next, Driver, Background

LEMMA SweepInvariant == Spec => []SweepInv
<1>1. SweepInv /\ [Next]_vars => SweepInv'
  BY TypeStep, ShellStep, BudgetStep, ProcsStep DEF SweepInv
<1> QED
  BY <1>1, SweepInitInv, PTL DEF Spec

-----------------------------------------------------------------------------
\* For every sweep, wherever it is interrupted or a command fails: every variable stays in
\* its range, and the driver never runs past its last job.
THEOREM SweepTypeCorrect == Spec => []TypeOK
<1>1. SweepInv => TypeOK
  BY DEF SweepInv
<1> QED
  BY <1>1, SweepInvariant, PTL

\* The budget fluctuates from the base of the job's level, with no tee of an
\* earlier writer in flight.
THEOREM FluctuationStartsAtBase == Spec => []StartsAtBase
<1>1. SweepInv => StartsAtBase
  BY DEF SweepInv, ShellInv, BudgetInv, StartsAtBase, InTrap, Stopping
<1> QED
  BY <1>1, SweepInvariant, PTL

\* Every benchmark runs under the budgets of its own level.
THEOREM BenchmarksKeepTheirLevel == Spec => []BudgetOfThisJob
<1>1. SweepInv => BudgetOfThisJob
  BY DEF SweepInv, BudgetInv, BudgetOfThisJob
<1> QED
  BY <1>1, SweepInvariant, PTL

\* A controller that misses its kill is gone one job later.
THEOREM LeftoversEnd == Spec => []LeftoversBounded
<1>1. SweepInv => LeftoversBounded
  BY DEF SweepInv, ProcsInv
<1> QED
  BY <1>1, SweepInvariant, PTL

\* Controllers start with unthrottled cgroups, as their modules assume.
THEOREM ControllersStartUnthrottled == Spec => []StartsUnthrottled
<1>1. SweepInv => StartsUnthrottled
  BY DEF SweepInv, ProcsInv
<1> QED
  BY <1>1, SweepInvariant, PTL

-----------------------------------------------------------------------------
(* The end of the sweep.                                                   *)

\* The script is on its way out only after the last job, a command that failed
\* under set -e, or an interrupt.
EndsForAReason == InTrap => aborted \/ job = Jobs

\* A benchmark that fails does not end the sweep: a script that exits has run
\* all its jobs, or was interrupted, or another of its commands failed.
THEOREM SweepEndsForAReason == Spec /\ <>(pc = "exited") => SweepCompletes
<1>1. Init => EndsForAReason
  BY DEF Init, EndsForAReason, InTrap
<1>2. EndsForAReason /\ [Next]_vars => EndsForAReason'
  <2> SUFFICES ASSUME EndsForAReason, [Next]_vars PROVE EndsForAReason'
    OBVIOUS
  <2> USE DEF EndsForAReason, InTrap
  <2>1. CASE Baselines \/ EndJob \/ CommandFails \/ Interrupt
    BY <2>1 DEF Baselines, EndJob, CommandFails, Interrupt
  <2>2. CASE StartEstimator \/ StartLevel \/ Setup \/ Fork \/ SetPid \/ BenchmarkEnds \/ SleepEnds
    BY <2>2 DEF StartEstimator, StartLevel, Setup, Fork, SetPid, BenchmarkEnds, SleepEnds
  <2>3. CASE TruncateBase \/ KillWriter \/ TrapNoWriter \/ TrapKills \/ TrapFails
    BY <2>3 DEF TruncateBase, KillWriter, TrapNoWriter, TrapKills, TrapFails
  <2>4. CASE WriteBase
    BY <2>4 DEF WriteBase, TeeAfter
  <2>5. CASE UNCHANGED <<pc, job, aborted>>
    BY <2>5
  <2> QED
    BY <2>1, <2>2, <2>3, <2>4, <2>5
    DEF Next, Driver, Background, Fluctuate, WriterBreaks, OrphanTee, ControllerStarts,
        ControllerActs, vars
<1>3. pc = "exited" /\ EndsForAReason => pc = "exited" /\ (aborted \/ job = Jobs)
  BY DEF EndsForAReason, InTrap
<1> QED
  BY <1>1, <1>2, <1>3, PTL DEF Spec, SweepCompletes

\* The places of the script in the order in which it comes to them.
Order ==
    [start |-> 0, baseline |-> 1, level |-> 2, level_tee |-> 3, setup |-> 4, base |-> 5,
     base_tee |-> 6, fork |-> 7, pid |-> 8, bench |-> 9, stop |-> 10, stop_base |-> 11,
     stop_tee |-> 12, sleep |-> 13, kill |-> 14, trap |-> 15, trap_base |-> 16,
     trap_tee |-> 17, trap_kill |-> 18, exited |-> 19]

Rank == 20 * job + Order[pc]

\* Whatever the background processes do and however benchmarks end, a step of
\* the script takes it forward, and there are at most 20 for each job: it
\* cannot go round in circles.
MovesForward == [][UNCHANGED <<pc, job>> \/ (Rank < Rank' /\ Rank' < 20 * (Jobs + 1))]_vars

\* For every list of levels and every number of benchmarks.
THEOREM SweepMovesForward == Spec => MovesForward
<1> DEFINE Forward == UNCHANGED <<pc, job>> \/ (Rank < Rank' /\ Rank' < 20 * (Jobs + 1))
<1>1. TypeOK /\ TypeOK' /\ [Next]_vars => [Forward]_vars
  <2> SUFFICES ASSUME TypeOK, TypeOK', Next PROVE Forward
    BY DEF vars
  <2>1. /\ job \in Int /\ job' \in Int /\ Jobs \in Int /\ job <= Jobs /\ job' <= Jobs
        /\ pc \in Places /\ pc' \in Places
    BY SweepShape DEF TypeOK
  <2>2. Order[pc] \in 0..19 /\ Order[pc'] \in 0..19
    BY <2>1 DEF Order, Places
  <2>3. CASE EndJob
    <3>1. CASE job' = job + 1
      BY <2>1, <2>2, <3>1 DEF Rank
    <3>2. CASE job' = job /\ pc = "kill" /\ pc' = "trap"
      BY <2>1, <3>2 DEF Rank, Order
    <3> QED
      BY <2>3, <3>1, <3>2 DEF EndJob
  <2>4. ASSUME job' = job, Order[pc] < Order[pc'] PROVE Forward
    BY <2>1, <2>2, <2>4 DEF Rank
  <2> HIDE DEF Forward
  <2>5. CASE StartEstimator \/ Baselines \/ StartLevel \/ Setup \/ Fork \/ SetPid
    BY <2>4, <2>5 DEF StartEstimator, Baselines, StartLevel, Setup, Fork, SetPid, Order
  <2>6. CASE BenchmarkEnds \/ SleepEnds \/ TrapNoWriter \/ TrapKills \/ KillWriter
    BY <2>4, <2>6 DEF BenchmarkEnds, SleepEnds, TrapNoWriter, TrapKills, KillWriter, Order
  <2>7. CASE TruncateBase
    BY <2>4, <2>7 DEF TruncateBase, Order
  <2>8. CASE WriteBase
    BY <2>4, <2>8 DEF WriteBase, TeeAfter, Order
  <2>9. CASE Interrupt \/ CommandFails \/ TrapFails
    BY <2>1, <2>4, <2>9 DEF Interrupt, CommandFails, TrapFails, InTrap, Order, Places
  <2>10. CASE UNCHANGED <<pc, job>>
    BY <2>10 DEF Forward
  <2> QED
    BY <2>3, <2>5, <2>6, <2>7, <2>8, <2>9, <2>10
    DEF Next, Driver, Background, Fluctuate, WriterBreaks, OrphanTee, ControllerStarts,
        ControllerActs
<1> QED
  BY <1>1, SweepTypeCorrect, PTL DEF Spec, MovesForward

-----------------------------------------------------------------------------
(* The budgets of a level.                                                 *)

LEMMA Quotient ==
    ASSUME NEW n \in Nat, NEW d \in Nat \ {0}
    PROVE  n \div d \in Nat /\ d * (n \div d) <= n /\ n < d * (n \div d) + d
OBVIOUS

\* calc_budget rounds MAX_POWER / (1 + os / 100) to the nearest watt.
LEMMA BudgetRounded ==
    ASSUME NEW os \in Nat
    PROVE  /\ calc_budget(os) \in Nat
           /\ (100 + os) * (2 * calc_budget(os) - 1) <= 200 * MAX_POWER
           /\ 200 * MAX_POWER < (100 + os) * (2 * calc_budget(os) + 1)
<1> DEFINE n == 200 * MAX_POWER + 100 + os
           d == 2 * (100 + os)
           b == n \div d
<1>1. n \in Nat /\ d \in Nat \ {0} /\ MAX_POWER \in Nat
  BY SweepAssumption
<1>2. b \in Nat /\ d * b <= n /\ n < d * b + d
  <2> HIDE DEF n, d
  <2> QED
    BY <1>1, Quotient
<1> HIDE DEF b
<1>3. d * b = (100 + os) * (2 * b)
  BY <1>2
<1>4. /\ (100 + os) * (2 * b - 1) = (100 + os) * (2 * b) - (100 + os)
      /\ (100 + os) * (2 * b + 1) = (100 + os) * (2 * b) + (100 + os)
  BY <1>2
<1>5. calc_budget(os) = b
  BY DEF calc_budget, b
<1> DEFINE x == (100 + os) * (2 * b)
<1>6. x \in Int /\ x <= 200 * MAX_POWER + 100 + os /\ 200 * MAX_POWER + 100 + os < x + 2 * (100 + os)
  BY <1>1, <1>2, <1>3
<1> HIDE DEF x
<1>7. x - (100 + os) <= 200 * MAX_POWER /\ 200 * MAX_POWER < x + (100 + os)
  BY <1>1, <1>6
<1> QED
  BY <1>2, <1>4, <1>5, <1>7 DEF x

LEMMA SeqElement ==
    ASSUME NEW S, NEW s \in Seq(S), NEW i \in 1..Len(s)
    PROVE  s[i] \in S
OBVIOUS

LEMMA ProductsOrdered ==
    ASSUME NEW a \in Nat, NEW b \in Nat, NEW c \in Nat, NEW d \in Nat, a <= b, c <= d
    PROVE  a * c <= b * d
<1>1. \E x \in Nat, y \in Nat : b = a + x /\ d = c + y
  <2>1. b - a \in Nat /\ b = a + (b - a) /\ d - c \in Nat /\ d = c + (d - c)
    OBVIOUS
  <2> QED
    BY <2>1
<1>2. PICK x \in Nat, y \in Nat : b = a + x /\ d = c + y
  BY <1>1
<1>3. b * d = a * c + a * y + x * c + x * y
  BY <1>2
<1>4. a * y \in Nat /\ x * c \in Nat /\ x * y \in Nat /\ a * c \in Nat
  OBVIOUS
<1> QED
  BY <1>3, <1>4

\* The budgets the sweep writes make sense at every level: the base is at most
\* MAX_POWER, and it is MAX_POWER without oversubscription; more
\* oversubscription never raises it; and the budget of the other phase of the
\* fluctuation is not below it.
BudgetsOrdered ==
    /\ calc_budget(0) = MAX_POWER
    /\ \A os1, os2 \in Nat : os1 <= os2 => calc_budget(os2) <= calc_budget(os1)
    /\ \A j \in 1..Jobs : Base(j) <= MAX_POWER /\ Base(j) <= Low(j)

\* For every MAX_POWER and every list of levels.
THEOREM SweepBudgetsOrdered == BudgetsOrdered
<1>1. calc_budget(0) = MAX_POWER
  <2>1. /\ calc_budget(0) \in Nat /\ MAX_POWER \in Nat
        /\ 100 * (2 * calc_budget(0) - 1) <= 200 * MAX_POWER
        /\ 200 * MAX_POWER < 100 * (2 * calc_budget(0) + 1)
    BY BudgetRounded, SweepAssumption
  <2> QED
    BY <2>1
<1>2. ASSUME NEW os1 \in Nat, NEW os2 \in Nat, os1 <= os2
      PROVE  calc_budget(os2) <= calc_budget(os1)
  <2> DEFINE b1 == calc_budget(os1)
             b2 == calc_budget(os2)
  <2>1. b1 \in Nat /\ b2 \in Nat /\ MAX_POWER \in Nat
    BY BudgetRounded, SweepAssumption, Zenon
  <2>2. (100 + os2) * (2 * b2 - 1) <= 200 * MAX_POWER
    BY BudgetRounded
  <2>3. 200 * MAX_POWER < (100 + os1) * (2 * b1 + 1)
    BY BudgetRounded
  <2> HIDE DEF b1, b2
  <2>4. SUFFICES ASSUME b1 + 1 <= b2 PROVE FALSE
    BY <2>1 DEF b1, b2
  <2>5. 2 * b1 + 1 \in Nat /\ 2 * b2 - 1 \in Nat /\ 2 * b1 + 1 <= 2 * b2 - 1
    BY <2>1, <2>4
  <2>6. (100 + os1) * (2 * b1 + 1) <= (100 + os2) * (2 * b2 - 1)
    BY <1>2, <2>5, ProductsOrdered
  <2>7. (100 + os1) * (2 * b1 + 1) \in Int /\ (100 + os2) * (2 * b2 - 1) \in Int
    BY <2>5
  <2> QED
    BY <2>1, <2>2, <2>3, <2>6, <2>7
<1>3. ASSUME NEW j \in 1..Jobs
      PROVE  Base(j) <= MAX_POWER /\ Base(j) <= Low(j)
  <2>1. Level(j) \in [os : Nat, fluc : Nat]
    <3> DEFINE d == JobsPerLevel
               q == (j - 1) \div d
    <3>1. d \in Nat \ {0} /\ Len(Levels) \in Nat /\ j - 1 \in Nat /\ j - 1 < Len(Levels) * d
      BY SweepShape, SweepAssumption DEF Jobs
    <3> HIDE DEF d
    <3>2. q \in Nat /\ d * q <= j - 1
      BY <3>1, Quotient
    <3> HIDE DEF q
    <3>3. q < Len(Levels)
      <4> DEFINE l == Len(Levels)
      <4>1. l \in Nat /\ j - 1 < l * d
        BY <3>1
      <4> HIDE DEF l
      <4>2. SUFFICES ASSUME l <= q PROVE FALSE
        BY <3>2, <4>1 DEF l
      <4>3. l * d <= q * d
        BY <3>1, <3>2, <4>1, <4>2, ProductsOrdered
      <4>4. q * d = d * q /\ l * d \in Int /\ d * q \in Int
        BY <3>1, <3>2, <4>1
      <4> QED
        BY <3>1, <3>2, <4>1, <4>3, <4>4
    <3>4. 1 + q \in 1..Len(Levels)
      BY <3>1, <3>2, <3>3
    <3>5. Level(j) = Levels[1 + q]
      BY DEF Level, q, d
    <3>6. Levels \in Seq([os : Nat, fluc : Nat])
      BY SweepAssumption
    <3>7. \A i \in 1..Len(Levels) : Levels[i] \in [os : Nat, fluc : Nat]
      BY <3>6, SeqElement, Zenon
    <3>8. Levels[1 + q] \in [os : Nat, fluc : Nat]
      BY <3>4, <3>7, Zenon
    <3> QED
      BY <3>5, <3>8, Zenon
  <2>2. Base(j) \in Nat /\ Base(j) <= MAX_POWER
    BY <1>1, <1>2, <2>1, BudgetRounded DEF Base
  <2>3. Base(j) <= Low(j)
    <3> DEFINE b == Base(j)
               f == Level(j).fluc
               n == b * (100 + f)
    <3>1. b \in Nat /\ f \in Nat
      BY <2>1, <2>2
    <3> HIDE DEF b, f
    <3>2. n \in Nat /\ n >= 100 * b
      <4>1. b * f \in Nat /\ b * (100 + f) = 100 * b + b * f
        BY <3>1
      <4> QED
        BY <3>1, <4>1
    <3> HIDE DEF n
    <3>3. n \div 100 \in Nat /\ 100 * (n \div 100) <= n /\ n < 100 * (n \div 100) + 100
      BY <3>2, Quotient
    <3>4. b <= n \div 100
      BY <3>1, <3>2, <3>3
    <3> QED
      BY <3>4 DEF Low, b, f, n
  <2> QED
    BY <2>2, <2>3
<1> QED
  BY <1>1, <1>2, <1>3 DEF BudgetsOrdered

=============================================================================

------------------------- MODULE Oversubscription -------------------------
(***************************************************************************)
(* The sweep of run-bench-oversubscription.sh: the driver shell, the       *)
(* subshell that fluctuates the budget, the subshells that start a         *)
(* controller ten seconds later, and the controllers themselves, which     *)
(* share the budget file and the cpu.max files.                            *)
(*                                                                         *)
(* A job is one benchmark under one controller: odd jobs run Thunderbolt   *)
(* (UIMD in the script), even ones PIP.  Time is abstracted to two orders  *)
(* that ten seconds guarantee: the driver's sleep outlasts a tee begun     *)
(* before it, and the sleep of any starter of an earlier job.              *)
(***************************************************************************)
EXTENDS Integers, Sequences

CONSTANTS
    MAX_POWER,   \* 300 in the script
    Levels,      \* the sequence of levels [os, fluc] of the sweep
    Benchmarks   \* the number of benchmarks run at each level

ASSUME SweepAssumption ==
    /\ MAX_POWER \in Nat \ {0}
    /\ Levels \in Seq([os : Nat, fluc : Nat]) /\ Levels # <<>>
    /\ Benchmarks \in Nat \ {0}

VARIABLES
    pc,              \* where the driver is
    job,             \* the job it is at
    aborted,         \* TRUE iff set -e or an interrupt ended the sweep
    CURRENT_BUDGET,  \* the shell variable
    FLUCT_PID,       \* TRUE iff the shell variable is set
    budget,          \* the budget file
    writer,          \* the fluctuating subshell: its position and its job
    orphan,          \* a tee that outlives the killed writer
    sleeping,        \* the jobs whose starter still sleeps
    live,            \* the jobs whose controller runs
    throttled,       \* TRUE iff a controller has left a cgroup throttled
    estimator        \* TRUE iff estimate_CPU_power-compare-all.py runs

procs == <<sleeping, live, throttled>>
fluct == <<FLUCT_PID, writer, orphan>>
vars == <<pc, job, aborted, CURRENT_BUDGET, budget, fluct, procs, estimator>>

NoBudget == -1   \* truncated: tee has opened the file and not written it
NoTee == [val |-> NoBudget, opened |-> FALSE]
NoWriter == [at |-> "none", job |-> 0]

JobsPerLevel == 2 * Benchmarks
Jobs == Len(Levels) * JobsPerLevel
Level(j) == Levels[1 + ((j - 1) \div JobsPerLevel)]
UIMD(j) == j % 2 = 1

\* printf "%.0f" of m / (1 + os / 100)
calc_budget(os) == (200 * MAX_POWER + 100 + os) \div (2 * (100 + os))

Base(j) == calc_budget(Level(j).os)
Low(j) == (Base(j) * (100 + Level(j).fluc)) \div 100

Init ==
    /\ pc = "start"
    /\ job = 1
    /\ aborted = FALSE
    /\ CURRENT_BUDGET = NoBudget
    /\ FLUCT_PID = FALSE
    /\ budget = MAX_POWER
    /\ writer = NoWriter
    /\ orphan = NoTee
    /\ sleeping = {}
    /\ live = {}
    /\ throttled = FALSE
    /\ estimator = FALSE

-----------------------------------------------------------------------------
(* The driver.                                                             *)

StartEstimator ==
    /\ pc = "start"
    /\ estimator' = TRUE
    /\ pc' = "baseline"
    /\ UNCHANGED <<job, aborted, CURRENT_BUDGET, budget, fluct, procs>>

\* All baselines run and the estimator is killed, or set -e ends the script at
\* a command that fails.
Baselines ==
    /\ pc = "baseline"
    /\ \/ pc' = "level" /\ estimator' = FALSE /\ UNCHANGED aborted
       \/ pc' = "trap" /\ aborted' = TRUE /\ UNCHANGED estimator
    /\ throttled' = FALSE
    /\ UNCHANGED <<job, CURRENT_BUDGET, budget, fluct, sleeping, live>>

\* The next level of the sweep: the first half of set_budget.
StartLevel ==
    /\ pc = "level"
    /\ CURRENT_BUDGET' = Base(job)
    /\ budget' = NoBudget
    /\ pc' = "level_tee"
    /\ UNCHANGED <<job, aborted, fluct, procs, estimator>>

\* Mutant: cgroup_init.sh is not run.
SetupKeepsLimits ==
    /\ pc = "setup"
    /\ sleeping' = sleeping \cup {job}
    /\ pc' = "base"
    /\ UNCHANGED <<job, aborted, CURRENT_BUDGET, budget, fluct, live, throttled,
                   estimator>>

\* cgroup_init.sh lifts all limits; the controller is to start in 10 s.
Setup ==
    /\ pc = "setup"
    /\ throttled' = FALSE
    /\ sleeping' = sleeping \cup {job}
    /\ pc' = "base"
    /\ UNCHANGED <<job, aborted, CURRENT_BUDGET, budget, fluct, live, estimator>>

\* A foreground tee of the driver, and where it goes on afterwards.
TeeAfter ==
    [level_tee |-> "setup", base_tee |-> "fork", stop_tee |-> "sleep",
     trap_tee |-> "trap_kill"]

\* Mutant: start_budget_fluctuation does not write the base.
TruncateBaseNotAtStart ==
    /\ pc \in {"base", "stop_base", "trap_base"}
    /\ budget' = IF pc = "base" THEN budget ELSE NoBudget
    /\ pc' = CASE pc = "base" -> "fork"
               [] pc = "stop_base" -> "stop_tee"
               [] OTHER -> "trap_tee"
    /\ UNCHANGED <<job, aborted, CURRENT_BUDGET, fluct, procs, estimator>>

TruncateBase ==
    /\ pc \in {"base", "stop_base", "trap_base"}
    /\ budget' = NoBudget
    /\ pc' = CASE pc = "base" -> "base_tee"
               [] pc = "stop_base" -> "stop_tee"
               [] OTHER -> "trap_tee"
    /\ UNCHANGED <<job, aborted, CURRENT_BUDGET, fluct, procs, estimator>>

WriteBase ==
    /\ pc \in DOMAIN TeeAfter
    /\ budget' = CURRENT_BUDGET
    /\ FLUCT_PID' = (FLUCT_PID /\ pc \notin {"stop_tee", "trap_tee"})
    /\ pc' = TeeAfter[pc]
    /\ UNCHANGED <<job, aborted, CURRENT_BUDGET, writer, orphan, procs, estimator>>

Fork ==
    /\ pc = "fork"
    /\ writer' = [at |-> "high", job |-> job]
    /\ pc' = "pid"
    /\ UNCHANGED <<job, aborted, CURRENT_BUDGET, FLUCT_PID, budget, orphan, procs,
                   estimator>>

SetPid ==
    /\ pc = "pid"
    /\ FLUCT_PID' = TRUE
    /\ pc' = "bench"
    /\ UNCHANGED <<job, aborted, CURRENT_BUDGET, budget, writer, orphan, procs,
                   estimator>>

\* Mutant: a failing benchmark ends the script.
BenchmarkMayAbort ==
    /\ pc = "bench"
    /\ pc' \in {"stop", "trap"}
    /\ UNCHANGED <<job, aborted, CURRENT_BUDGET, budget, fluct, procs, estimator>>

\* The benchmark ends, with or without success.
BenchmarkEnds ==
    /\ pc = "bench"
    /\ pc' = "stop"
    /\ UNCHANGED <<job, aborted, CURRENT_BUDGET, budget, fluct, procs, estimator>>

\* What the killed writer leaves behind: a tee it has started goes on.
InFlight ==
    CASE writer.at = "low_sudo" -> [val |-> Low(writer.job), opened |-> FALSE]
      [] writer.at = "low_tee" -> [val |-> Low(writer.job), opened |-> TRUE]
      [] writer.at = "base_sudo" -> [val |-> Base(writer.job), opened |-> FALSE]
      [] writer.at = "base_tee" -> [val |-> Base(writer.job), opened |-> TRUE]
      [] OTHER -> orphan

\* Mutant: stop_budget_fluctuation does not kill the writer.
KillWriterForgets ==
    /\ pc \in {"stop", "trap"} /\ FLUCT_PID
    /\ pc' = IF pc = "stop" THEN "stop_base" ELSE "trap_base"
    /\ UNCHANGED <<job, aborted, CURRENT_BUDGET, fluct, budget, procs, estimator>>

\* stop_budget_fluctuation; the wait for a disowned job returns at once.
KillWriter ==
    /\ pc \in {"stop", "trap"} /\ FLUCT_PID
    /\ writer' = NoWriter
    /\ orphan' = InFlight
    /\ pc' = IF pc = "stop" THEN "stop_base" ELSE "trap_base"
    /\ UNCHANGED <<job, aborted, CURRENT_BUDGET, FLUCT_PID, budget, procs, estimator>>

\* sleep 10
SleepEnds ==
    /\ pc = "sleep"
    /\ orphan = NoTee
    /\ sleeping \subseteq {job}
    /\ pc' = "kill"
    /\ UNCHANGED <<job, aborted, CURRENT_BUDGET, budget, fluct, procs, estimator>>

\* Mutant: the pkill of one of the two controllers is missing.
KillOnlyPIP ==
    /\ live' = {j \in live : UIMD(j)}
    /\ UNCHANGED <<sleeping, throttled>>

\* Thunderbolt lifts its limits when it is told to end, unless a write was in
\* progress; PIP leaves them as they are.
kill_controllers ==
    /\ live' = {}
    /\ \/ UNCHANGED throttled
       \/ (\E j \in live : UIMD(j)) /\ throttled' = FALSE
    /\ UNCHANGED sleeping

\* The write to cgroup.kill that ends a job may fail, and so end the script.
EndJob ==
    /\ pc = "kill"
    /\ kill_controllers
    /\ \/ /\ job < Jobs
          /\ job' = job + 1
          /\ pc' = IF job % JobsPerLevel = 0 THEN "level" ELSE "setup"
          /\ UNCHANGED aborted
       \/ job = Jobs /\ pc' = "trap" /\ UNCHANGED <<job, aborted>>
       \/ pc' = "trap" /\ aborted' = TRUE /\ UNCHANGED job
    /\ UNCHANGED <<CURRENT_BUDGET, budget, fluct, estimator>>

\* The commands of a job that neither "|| true" nor a warning guards: awk and
\* the tees, before or after they have truncated the file, the kernel setting
\* in front of a benchmark, pushd and popd.
CommandFails ==
    /\ \/ pc \in {"level", "level_tee", "base", "base_tee", "bench", "stop_base",
                  "stop_tee"}
       \/ pc = "setup" /\ UIMD(job)
    /\ aborted' = TRUE
    /\ pc' = "trap"
    /\ UNCHANGED <<job, CURRENT_BUDGET, budget, fluct, procs, estimator>>

-----------------------------------------------------------------------------
(* The EXIT trap.                                                          *)

TrapNoWriter ==
    /\ pc = "trap"
    /\ ~FLUCT_PID
    /\ pc' = "trap_kill"
    /\ UNCHANGED <<job, aborted, CURRENT_BUDGET, budget, fluct, procs, estimator>>

TrapKills ==
    /\ pc = "trap_kill"
    /\ kill_controllers
    /\ pc' = "exited"
    /\ UNCHANGED <<job, aborted, CURRENT_BUDGET, budget, fluct, estimator>>

\* A tee that fails here ends the trap: the controllers are not killed.
TrapFails ==
    /\ pc \in {"trap_base", "trap_tee"}
    /\ pc' = "exited"
    /\ UNCHANGED <<job, aborted, CURRENT_BUDGET, budget, fluct, procs, estimator>>

InTrap == pc \in {"trap", "trap_base", "trap_tee", "trap_kill", "exited"}

\* Ctrl-C: the shell runs the trap; background subshells ignore SIGINT.
Interrupt ==
    /\ ~InTrap
    /\ aborted' = TRUE
    /\ pc' = "trap"
    /\ UNCHANGED <<job, CURRENT_BUDGET, budget, fluct, procs, estimator>>

-----------------------------------------------------------------------------
(* The writer, the orphaned tee, the starters and the controllers.         *)

\* One turn of the loop: sleep, tee low, sleep, tee base.
WriterAfter ==
    [high |-> "low_sudo", low_sudo |-> "low_tee", low_tee |-> "low",
     low |-> "base_sudo", base_sudo |-> "base_tee", base_tee |-> "high"]

Fluctuate ==
    /\ writer.at \in DOMAIN WriterAfter
    /\ writer' = [writer EXCEPT !.at = WriterAfter[@]]
    /\ budget' = CASE writer.at \in {"low_sudo", "base_sudo"} -> NoBudget
                   [] writer.at = "low_tee" -> Low(writer.job)
                   [] writer.at = "base_tee" -> Base(writer.job)
                   [] OTHER -> budget
    /\ UNCHANGED <<pc, job, aborted, CURRENT_BUDGET, FLUCT_PID, orphan, procs,
                   estimator>>

\* "|| break": a sleep or a tee of the writer fails and ends its loop.
WriterBreaks ==
    /\ writer.at \in DOMAIN WriterAfter
    /\ writer' = NoWriter
    /\ UNCHANGED <<pc, job, aborted, CURRENT_BUDGET, FLUCT_PID, budget, orphan, procs,
                   estimator>>

OrphanTee ==
    /\ orphan # NoTee
    /\ \/ /\ ~orphan.opened
          /\ orphan' = [orphan EXCEPT !.opened = TRUE]
          /\ budget' = NoBudget
       \/ /\ orphan.opened
          /\ orphan' = NoTee
          /\ budget' = orphan.val
       \/ orphan' = NoTee /\ UNCHANGED budget
    /\ UNCHANGED <<pc, job, aborted, CURRENT_BUDGET, FLUCT_PID, writer, procs,
                   estimator>>

ControllerStarts(j) ==
    /\ j \in sleeping
    /\ sleeping' = sleeping \ {j}
    /\ live' = live \cup {j}
    /\ UNCHANGED <<pc, job, aborted, CURRENT_BUDGET, budget, fluct, throttled,
                   estimator>>

ControllerActs ==
    /\ live # {}
    /\ throttled' = ~throttled
    /\ UNCHANGED <<pc, job, aborted, CURRENT_BUDGET, budget, fluct, sleeping, live,
                   estimator>>

-----------------------------------------------------------------------------
Driver ==
    \/ StartEstimator \/ Baselines \/ StartLevel \/ Setup \/ TruncateBase
    \/ WriteBase \/ Fork \/ SetPid \/ BenchmarkEnds \/ KillWriter \/ SleepEnds
    \/ EndJob \/ TrapNoWriter \/ TrapKills

Background == OrphanTee \/ \E j \in 1..Jobs : ControllerStarts(j)

Next ==
    \/ Driver \/ CommandFails \/ TrapFails \/ Interrupt
    \/ Fluctuate \/ WriterBreaks \/ Background \/ ControllerActs

Spec == Init /\ [][Next]_vars

\* Commands and benchmarks end, and so do the tees and sleeps in background.
FairSpec == Spec /\ WF_vars(Driver) /\ WF_vars(Background)

-----------------------------------------------------------------------------
(* Properties                                                              *)

Places ==
    {"start", "baseline", "level", "level_tee", "setup", "base", "base_tee",
     "fork", "pid", "bench", "stop", "stop_base", "stop_tee", "sleep", "kill",
     "trap", "trap_base", "trap_tee", "trap_kill", "exited"}

\* Every variable stays in its range.
TypeOK ==
    /\ pc \in Places
    /\ job \in 1..Jobs
    /\ aborted \in BOOLEAN
    /\ FLUCT_PID \in BOOLEAN
    /\ sleeping \subseteq 1..Jobs
    /\ live \subseteq 1..Jobs
    /\ throttled \in BOOLEAN
    /\ estimator \in BOOLEAN

\* The budget fluctuates from the base of this job's level: no tee that
\* outlived an earlier writer has replaced it, or still can.
StartsAtBase == pc = "fork" => budget = Base(job) /\ orphan = NoTee

\* A benchmark runs under the two budgets of its own level only.
BudgetOfThisJob == pc = "bench" => budget \in {NoBudget, Base(job), Low(job)}

\* However early a benchmark fails, a controller that missed its kill meets
\* the controller of the next job at most: the kill after that ends it.
LeftoversBounded == sleeping \cup live \subseteq {job - 1, job}

\* The state PIPController and Thunderbolt start from: when the controller of
\* a job starts, no cgroup is throttled, unless a controller of the job
\* before has started late.
StartsUnthrottled == job \in sleeping /\ live = {} /\ ~InTrap => ~throttled

\* "a single benchmark failure doesn't kill the whole sweep": unless another
\* command fails or the user interrupts it, the driver ends after the last job.
SweepCompletes == <>(pc = "exited" /\ (aborted \/ job = Jobs))

=============================================================================

--------------------------- MODULE PIPClosedLoop ---------------------------
(***************************************************************************)
(* PIPController closed over what it controls: the load of the two         *)
(* cgroups, the package power they cause, the ML model's predictions of it *)
(* and the calibration offset that corrects them.  Where PIPController     *)
(* lets a search accept any throttle, here the prediction decides.         *)
(*                                                                         *)
(* The power is linear in the utilisation of the cgroups.  The model knows *)
(* that function up to a constant error.  The offset is a fixed-point      *)
(* number, 1/Scale of a watt.  Samples are complete: the faults of the     *)
(* sampling tools are PIPController's subject.                             *)
(***************************************************************************)
EXTENDS PIPController

CONSTANTS
    Loads,        \* the loads: % of its cores each cgroup would use
    Idle,         \* package power (W) of the idle machine
    Span,         \* what 100% of a cgroup's cores add (W)
    ModelErrors,  \* the errors (W) of the ML model
    ErrorBound,   \* ... none of which is larger than this
    Scale,        \* fixed-point resolution of calibration_offset
    MaxChanges    \* bound: changes of the load or the budget

ASSUME ClosedLoopAssumption ==
    /\ Loads \subseteq [user : 0..Full, critical : 0..Full]
    /\ Idle \in Nat
    /\ Span \in [user : Nat, critical : Nat]
    /\ ErrorBound \in Nat
    /\ ModelErrors \subseteq -ErrorBound..ErrorBound
    /\ Scale \in Nat \ {0}
    /\ MaxChanges \in Nat
    /\ "ok" \in Samples
    /\ Idle..(Idle + Span.user + Span.critical) \subseteq Powers

VARIABLES
    load,                \* the load of each cgroup
    utilisation,         \* what the feature map of this iteration shows of it
    model_error,         \* the error of the ML model
    prev_prediction,     \* the power the last search predicted
    calibration_offset,  \* the correction of the predictions
    changes              \* how often load or budget have changed

plant == <<load, model_error, changes, write_errors>>
loopVars == <<vars, plant, utilisation, prev_prediction, calibration_offset>>

Util == [g \in {"user", "critical"} |-> MinOf(cpu_max[g], load[g])]

Watts(u) == Idle + (Span.user * u.user + Span.critical * u.critical) \div Full

\* model.predict on a feature map
predict(u) == Watts(u) + model_error

\* Mutants: the old offset is kept whole; the offset is never updated.
CalibratedUnsmoothed(off) ==
    off + (Scale * (actual_power - prev_prediction)) \div 5
NotCalibrated(off) == off

\* smoothing_cal = 0.8
Calibrated(off) == (4 * off + Scale * (actual_power - prev_prediction)) \div 5

\* The offset this iteration works with.
Offset == IF used_map THEN Calibrated(calibration_offset) ELSE calibration_offset

\* Mutant: raising the throttle of a cgroup that fills it costs no power.
RaisedMapIdle(g, t, current) == utilisation

\* The feature map rewritten for a lower or a higher throttle of g.  A cgroup
\* that fills its limit is taken to fill the higher one as well.
Lowered(u, g, t) == [u EXCEPT ![g] = MinOf(@, t)]
RaisedMap(g, t, current) ==
    [utilisation EXCEPT ![g] = IF @ >= current THEN MaxOf(@, t) ELSE @]

\* Mutant: the calibration is left out of the comparison.
MeetsUncalibrated(u) == predict(u) <= target_power

\* prediction + calibration_offset <= target_power
Meets(u) == Scale * predict(u) + Offset <= Scale * target_power

Highest(S) == CHOOSE t \in S : \A s \in S : s <= t

\* The user throttles strict_power_capping would accept.
UserCandidates ==
    IF current_bandwidth <= 5 THEN {}
    ELSE {t \in Down(current_bandwidth - 5) : Meets(Lowered(utilisation, "user", t))}

\* The critical throttles critical_power_capping would accept, with the user
\* cgroup at the floor.
UserAtFloor == [utilisation EXCEPT !["user"] = Floor]
CriticalCandidates ==
    {t \in Down(current_bandwidth2) : Meets(Lowered(UserAtFloor, "critical", t))}

\* The last element of range(current_bandwidth2, 0, -5).
LastTried == 1 + ((current_bandwidth2 - 1) % 5)

\* recover_bandwidth: both sides of the comparison carry the offset.
recover_bandwidth(g, current) ==
    LET fits == {t \in Up(current) :
                    Scale * predict(RaisedMap(g, t, current)) + Offset
                        <= Scale * target_power + Offset}
    IN  IF fits = {} THEN current ELSE Highest(fits)

LoopInit ==
    /\ Init
    /\ load \in Loads
    /\ utilisation = [user |-> 0, critical |-> 0]
    /\ model_error \in ModelErrors
    /\ prev_prediction = 0
    /\ calibration_offset = 0
    /\ changes = 0

-----------------------------------------------------------------------------
(* The environment.                                                        *)

LoadChanges ==
    /\ changes < MaxChanges
    /\ changes' = changes + 1
    /\ load' \in Loads \ {load}
    /\ UNCHANGED <<vars, model_error, utilisation, prev_prediction,
                   calibration_offset>>

BudgetChanges ==
    /\ changes < MaxChanges
    /\ changes' = changes + 1
    /\ TruncateBudget
    /\ UNCHANGED <<load, model_error, write_errors, utilisation, prev_prediction,
                   calibration_offset>>

BudgetWritten ==
    /\ \E b \in Budgets : WriteBudget(b)
    /\ UNCHANGED <<plant, utilisation, prev_prediction, calibration_offset>>

-----------------------------------------------------------------------------
(* The controller.                                                         *)

Measures ==
    /\ \/ ReadBudget /\ UNCHANGED utilisation
       \/ EnergySample(Watts(Util)) /\ UNCHANGED utilisation
       \/ Sample("ok", Watts(Util)) /\ utilisation' = Util
    /\ UNCHANGED <<plant, prev_prediction, calibration_offset>>

\* A decision that leaves prev_prediction alone: the baby steps, the dead
\* band and recovery, whose two assignments to it are to local variables.
Unpredicted ==
    /\ \/ StrictBabyUser \/ StrictBabyCritical \/ StrictBabyNothing
       \/ IncreaseCritical(recover_bandwidth("critical", current_bandwidth2))
       \/ IncreaseUser(recover_bandwidth("user", current_bandwidth))
       \/ IncreaseNothing
       \/ DeadBand
    /\ calibration_offset' = Offset
    /\ UNCHANGED <<plant, utilisation, prev_prediction>>

SearchUser ==
    /\ UserCandidates # {}
    /\ LET t == Highest(UserCandidates)
       IN  /\ StrictUser(t)
           /\ prev_prediction' = predict(Lowered(utilisation, "user", t))
    /\ calibration_offset' = Offset
    /\ UNCHANGED <<plant, utilisation>>

\* If no critical throttle is accepted either, the prediction kept is that of
\* the last one tried and the limit written is the floor.
SearchCritical ==
    /\ UserCandidates = {}
    /\ LET tried == IF CriticalCandidates # {} THEN Highest(CriticalCandidates)
                    ELSE LastTried
       IN  /\ critical_power_capping(IF CriticalCandidates # {} THEN tried
                                     ELSE Floor)
           /\ prev_prediction' = predict(Lowered(UserAtFloor, "critical", tried))
    /\ calibration_offset' = Offset
    /\ UNCHANGED <<plant, utilisation>>

SearchEnds ==
    /\ UserToFloor
    /\ UNCHANGED <<plant, utilisation, prev_prediction, calibration_offset>>

LoopController ==
    Measures \/ Unpredicted \/ SearchUser \/ SearchCritical \/ SearchEnds

LoopNext == LoadChanges \/ BudgetChanges \/ BudgetWritten \/ LoopController

LoopSpec == LoopInit /\ [][LoopNext]_loopVars

\* Besides the controller's, the fairness of a writer that has truncated the
\* budget file: it writes it.
FairLoopSpec ==
    LoopSpec /\ WF_loopVars(LoopController) /\ WF_loopVars(BudgetWritten)

-----------------------------------------------------------------------------
(* Properties                                                              *)

MaxWatts == Idle + Span.user + Span.critical

\* However stale the prediction it is compared with, and even though the
\* first one is compared with 0, the calibration offset stays within the
\* range of the package power and the error of the model.
OffsetBounded ==
    /\ -Scale * (MaxWatts - Idle + ErrorBound) <= calibration_offset
    /\ calibration_offset <= Scale * (MaxWatts + ErrorBound)

SameLoad == utilisation = Util

\* With a model that does not underestimate, a decision to raise a limit
\* exceeds the budget by no more than the forced step of 5% can: the search
\* for the higher limit never does, although it ignores the offset.
OvershootBounded ==
    [][cpu_max' # cpu_max /\ BelowBudget(actual_power) /\ SameLoad /\ model_error >= 0
           => Watts(Util') <= MaxOf(target_power,
                  actual_power + 1 + (5 * MaxOf(Span.user, Span.critical)) \div Full)]_loopVars

AtFloors == cpu_max = [user |-> Floor, critical |-> Floor]
Overloaded == budget = NoBudget \/ 100 * Watts(Util) >= 97 * budget
Overcome == ~Overloaded \/ AtFloors

\* The load and the budget change finitely often here.  Whatever the error of
\* the model and the offset inherited from before, the controller brings the
\* power below 97% of the budget, or both cgroups to the floor, again and
\* again.
OverloadEnds == []<>Overcome

Light == budget # NoBudget /\ 100 * Watts(load) < 94 * budget
Unthrottled == cpu_max = [user |-> Full, critical |-> Full]

\* A load that fits the budget unthrottled is in the end not throttled.
LightLoadRecovers == <>[]Light => <>[]Unthrottled

UserSuffices ==
    /\ budget # NoBudget
    /\ 100 * Watts([load EXCEPT !["user"] = MinOf(@, Floor)]) < 94 * budget

CriticalFull == cpu_max.critical = Full

\* If throttling the user cgroup alone meets the budget, the critical cgroup
\* in the end keeps its full bandwidth, whatever earlier predictions made the
\* controller take from it.
CriticalStaysFull == <>[]UserSuffices => <>[]CriticalFull

\* The docstring of critical_power_capping: the critical cgroup is throttled
\* "if user throttling alone cannot meet the budget", for a sample that still
\* describes the machine.
CriticalOnlyIfNeeded ==
    [][pc = "control" /\ SameLoad /\ cpu_max.critical' < cpu_max.critical
           => Watts(UserAtFloor) > target_power]_loopVars

\* What the calibrated prediction is off by, in 1/Scale of a watt.
Misprediction == Scale * model_error + Offset

\* The utilisation under the limits f.
UtilUnder(f) == [g \in {"user", "critical"} |-> MinOf(f[g], load[g])]

\* The limits a search decides on: after a failed one the user limit is still
\* to be written.
Decided == IF pc' = "user_write" THEN [cpu_max' EXCEPT !["user"] = Floor] ELSE cpu_max'

\* One search is enough: under the limits it decides on the load exceeds the
\* budget by no more than the calibrated prediction underestimates, unless both
\* limits are at the floor.
SearchMeetsBudget ==
    [][Search /\ pc' # pc /\ SameLoad
           => \/ Scale * Watts(UtilUnder(Decided)) + Misprediction <= Scale * target_power
              \/ Decided = [user |-> Floor, critical |-> Floor]]_loopVars

\* If the calibrated prediction does not overestimate, a decision takes from the critical cgroup only
\* what the user cgroup cannot give: either the budget is exceeded with the
\* user cgroup at 5%, the coarseness of the search, or the user cgroup is at
\* the floor already and the power near the budget.
CriticalOnlyForShortfall ==
    [][pc = "control" /\ SameLoad /\ Misprediction <= 0
           /\ cpu_max.critical' < cpu_max.critical
           => \/ Watts(Lowered(utilisation, "user", 5)) > target_power
              \/ cpu_max.user = Floor /\ NearBudget(actual_power)]_loopVars

=============================================================================

-------------------------- MODULE PriorityCapping --------------------------
(***************************************************************************)
(* What a two-priority capping controller promises about the limits it     *)
(* puts on the "user" (low priority) and "critical" (high priority)        *)
(* cgroups: the user cgroup is throttled to the floor before the critical  *)
(* one loses anything, and the critical cgroup is back at full bandwidth   *)
(* before the user one gains anything.  Both the PIP controller and the    *)
(* Thunderbolt baseline are shown to implement this specification.         *)
(***************************************************************************)
EXTENDS Integers

CONSTANTS Floor, Full     \* the least and the greatest limit, integers

VARIABLES user, critical  \* the limits in force
vars == <<user, critical>>

Level == Floor..Full

Init == user = Full /\ critical = Full

\* A capping decision: nothing is raised, and the critical cgroup loses
\* bandwidth only in a decision that leaves the user cgroup at the floor.
Throttle ==
    /\ user' \in Floor..user
    /\ critical' \in Floor..critical
    /\ critical' < critical => user' = Floor

\* A recovery decision: nothing is lowered, and the user cgroup gains
\* bandwidth only if the critical one is unthrottled already.
Recover ==
    /\ critical' \in critical..Full
    /\ user' \in user..Full
    /\ user' > user => critical = Full

Next == Throttle \/ Recover

Spec == Init /\ [][Next]_vars

TypeOK == user \in Level /\ critical \in Level

\* The critical cgroup is below full bandwidth only while the user cgroup is
\* at the floor.
CriticalLast == critical < Full => user = Floor
=============================================================================

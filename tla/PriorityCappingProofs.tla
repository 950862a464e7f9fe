----------------------- MODULE PriorityCappingProofs -----------------------
(* The consequence of the priority specification every controller that     *)
(* implements it inherits.                                                 *)
EXTENDS PriorityCapping, TLAPS

\* Whatever the range of limits, the critical cgroup is throttled only while
\* the user cgroup is at the floor.
THEOREM CappingIsByPriority ==
    ASSUME Floor \in Int, Full \in Int, Floor < Full
    PROVE  Spec => [](TypeOK /\ CriticalLast)
<1>1. Init => TypeOK /\ CriticalLast
  BY DEF Init, TypeOK, CriticalLast, Level
<1>2. TypeOK /\ CriticalLast /\ [Next]_vars => (TypeOK /\ CriticalLast)'
  <2> SUFFICES ASSUME TypeOK, CriticalLast, [Next]_vars
               PROVE  (TypeOK /\ CriticalLast)'
    OBVIOUS
  <2> USE DEF TypeOK, CriticalLast, Level
  <2>1. CASE Throttle
    BY <2>1 DEF Throttle
  <2>2. CASE Recover
    BY <2>2 DEF Recover
  <2>3. CASE UNCHANGED vars
    BY <2>3 DEF vars
  <2> QED
    BY <2>1, <2>2, <2>3 DEF Next
<1> QED
  BY <1>1, <1>2, PTL DEF Spec
=============================================================================

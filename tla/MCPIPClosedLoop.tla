-------------------------- MODULE MCPIPClosedLoop --------------------------
(***************************************************************************)
(* A machine of 60 to 300 W under budgets on both sides of what its loads  *)
(* need.                                                                   *)
(***************************************************************************)
EXTENDS PIPClosedLoop

LoadsDef == {[user |-> 20, critical |-> 30], [user |-> 100, critical |-> 40],
             [user |-> 90, critical |-> 100]}
SpanDef == [user |-> 120, critical |-> 120]
PowersDef == 0..400
ErrorsDef == {-20, 0, 20}

=============================================================================

-------------------------- MODULE MCPIPController --------------------------
(* Small instances of PIPController for TLC.                               *)
EXTENDS PIPController

\* One power in every band the code tells apart, for each budget: far below
\* (gap >= 10), below (gap < 10), dead band, at 97%, over by less than the
\* tolerance, over by more.
MCPowers == {80, 92, 95, 98, 102, 110, 190, 196, 202, 230}
\* The same bands for the budget 100 alone.
MCFewPowers == {80, 92, 95, 98, 102, 110}
=============================================================================

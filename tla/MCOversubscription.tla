------------------------ MODULE MCOversubscription ------------------------
(***************************************************************************)
(* Two levels of the sweep, of different base and fluctuation.             *)
(***************************************************************************)
EXTENDS Oversubscription

LevelsDef == <<[os |-> 0, fluc |-> 50], [os |-> 60, fluc |-> 25]>>

=============================================================================

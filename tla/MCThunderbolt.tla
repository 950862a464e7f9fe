--------------------------- MODULE MCThunderbolt ---------------------------
(* Thunderbolt for TLC: powers on each side of 96% and 98% of the budget,  *)
(* and one below 90%.                                                      *)
EXTENDS Thunderbolt

MCFewPowers == {85, 97, 99}
=============================================================================

---------------------------- MODULE MCBaselines ----------------------------
(* A small instance of Baselines: one limit file per socket.               *)
EXTENDS Baselines

MCFiles == <<"intel-rapl:0", "intel-rapl:1">>

=============================================================================

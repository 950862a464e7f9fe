----------------------------- MODULE Estimates -----------------------------
(***************************************************************************)
(* What the prediction across nodes promises the node that asks: an answer *)
(* is the one to the sample asked about, computed once, from a local map   *)
(* of its own; and the asking node goes on to the next sample only when it *)
(* has the answer or no answer can come any more.                          *)
(***************************************************************************)
EXTENDS Naturals, Sequences

CONSTANT Labels   \* samples are told apart by their number modulo Labels

VARIABLES
    status,    \* of the last sample: idle, asked, answered or lost
    sample,    \* its label
    answers,   \* the answers that can be read
    fresh      \* TRUE iff a local map was measured after the last answer
vars == <<status, sample, answers, fresh>>

Init == status = "idle" /\ sample = 0 /\ answers = <<>> /\ fresh = FALSE

\* A sample is sent, perhaps into a connection that is already closed or cut.
Ask ==
    /\ status = "idle"
    /\ status' \in {"asked", "lost"}
    /\ sample' = (sample + 1) % Labels
    /\ UNCHANGED <<answers, fresh>>

Measure == fresh' = TRUE /\ UNCHANGED <<status, sample, answers>>

Answer ==
    /\ status = "asked" /\ fresh
    /\ status' = "answered" /\ answers' = <<sample>> /\ fresh' = FALSE
    /\ UNCHANGED sample

\* A sample whose sender is gone is merged and predicted all the same.
AnswerNobody == fresh /\ fresh' = FALSE /\ UNCHANGED <<status, sample, answers>>

\* The connection is closed or cut before the answer, or with it.
Lose ==
    /\ status \in {"asked", "answered"}
    /\ status' = "lost" /\ answers' = <<>>
    /\ UNCHANGED <<sample, fresh>>

\* The answer is read; or there will be none and the sender goes on.
Take ==
    /\ status = "answered"
    /\ status' = "idle" /\ answers' = <<>>
    /\ UNCHANGED <<sample, fresh>>

GoOn ==
    /\ status = "lost" /\ status' = "idle"
    /\ UNCHANGED <<sample, answers, fresh>>

Next == Ask \/ Measure \/ Answer \/ AnswerNobody \/ Lose \/ Take \/ GoOn

Spec == Init /\ [][Next]_vars
=============================================================================

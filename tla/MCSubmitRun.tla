---------------------------- MODULE MCSubmitRun ----------------------------
(* Two submits: one command and its retry, or two commands.                *)
EXTENDS SubmitRun, TLC

CONSTANTS c1, c2, A, B

Retried == (c1 :> A) @@ (c2 :> A)
Distinct == (c1 :> A) @@ (c2 :> B)
Both == {Retried, Distinct}
=============================================================================

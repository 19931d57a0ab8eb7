----------------------------- MODULE MCExecutor -----------------------------
(* A small instance of Executor for TLC: one approval, two deliveries. *)
EXTENDS Executor, TLC

CONSTANTS s1, e1, e2, a1, b1

MCSymmetry == Permutations({e1, e2})
=============================================================================

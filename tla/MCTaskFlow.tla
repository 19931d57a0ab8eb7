----------------------------- MODULE MCTaskFlow -----------------------------
(* A small instance of TaskFlow for TLC. *)
EXTENDS TaskFlow, TLC

CONSTANTS h1, h2

MCSymmetry == Permutations({h1, h2})
=============================================================================

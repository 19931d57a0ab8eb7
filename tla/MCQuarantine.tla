---------------------------- MODULE MCQuarantine ----------------------------
(* A small instance of Quarantine for TLC. *)
EXTENDS Quarantine, TLC

CONSTANTS q1, q2

MCSymmetry == Permutations({q1, q2})
=============================================================================

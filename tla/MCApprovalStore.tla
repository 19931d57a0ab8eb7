--------------------------- MODULE MCApprovalStore ---------------------------
(* A small instance of ApprovalStore for TLC. *)
EXTENDS ApprovalStore, TLC

CONSTANTS s1, s2, e1, e2, a1, b1, b2

MCSymmetry == Permutations({s1, s2}) \cup Permutations({e1, e2})
=============================================================================

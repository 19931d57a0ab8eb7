---------------------------- MODULE MCWorkflows ----------------------------
(* Small instances of Workflows: process ids are interchangeable. *)
EXTENDS Workflows, TLC

CONSTANTS p1, p2

MCPids == {p1, p2}
Symmetry == Permutations(MCPids)
=============================================================================

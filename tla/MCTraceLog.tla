----------------------------- MODULE MCTraceLog -----------------------------
(* A small instance of TraceLog for TLC. *)
EXTENDS TraceLog

CONSTANTS p1, p2
=============================================================================

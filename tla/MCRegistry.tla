----------------------------- MODULE MCRegistry -----------------------------
(* A small instance of Registry: a server that lists one tool or two. *)
EXTENDS Registry

MCToolSets == {{"read"}, {"read", "probe"}}
=============================================================================

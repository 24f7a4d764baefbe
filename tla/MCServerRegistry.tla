-------------------------- MODULE MCServerRegistry --------------------------
(* Two connections of two executors, two commands.                         *)
EXTENDS ServerRegistry

MCExecutors == {"e1", "e2"}
MCRequests  == {"r1", "r2"}
=============================================================================

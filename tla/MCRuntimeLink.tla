---------------------------- MODULE MCRuntimeLink ----------------------------
(* Two calls, one of a tool on a blocking thread.                          *)
EXTENDS RuntimeLink

MCCalls    == {"c1", "c2"}
MCBlocking == {"c2"}
AllFaults  == {"link", "runtime"}
=============================================================================

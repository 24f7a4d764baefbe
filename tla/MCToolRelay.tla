----------------------------- MODULE MCToolRelay -----------------------------
(* Two calls, one of a tool on a blocking thread, and a lifecycle request. *)
EXTENDS ToolRelay

MCCalls    == {"c1", "c2"}
OneCall    == {"c1"}
MCBlocking == {"c2"}
MCCommands == {"k"}
None       == {}
RuntimeOnly == {"runtime"}
AllFaults  == {"link", "runtime"}
=============================================================================

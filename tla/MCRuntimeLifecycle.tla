------------------------- MODULE MCRuntimeLifecycle -------------------------
(* The server's commands; one restart by the health check is enough for it *)
(* to both try and give up.                                                *)
EXTENDS RuntimeLifecycle

AllCommands == {"create", "destroy", "restart"}
=============================================================================

--------------------------- MODULE MCActorRuntime ---------------------------
(* Two persistence ids, so that one can be forked from the other; one and  *)
(* two event batches, and the empty one.                                   *)
EXTENDS ActorRuntime

CONSTANTS p1, p2, a, b

MCPid   == {p1, p2}
MCEvent == {a, b}
MCBatch == {<<>>, <<a>>, <<b, a>>}
=============================================================================

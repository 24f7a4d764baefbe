----------------------------- MODULE MCAgentLoop -----------------------------
(* Sessions of each kind; the model answers with text, one tool, two       *)
(* tools, and hand-overs that are fine, malformed or not alone.            *)
EXTENDS AgentLoop

MCParams  == {[output |-> TRUE, ask |-> TRUE], [output |-> TRUE, ask |-> FALSE],
              [output |-> FALSE, ask |-> FALSE]}
MCTurns   == {<<>>, <<"read">>, <<"read", "write">>, <<"ask">>, <<"read", "ask">>}
=============================================================================

-------------------------- MODULE MCProviderStream --------------------------
(* Messages of up to three blocks of up to two pieces.                     *)
EXTENDS ProviderStream

MCBlocks == {<<>>} \cup {<<[kind |-> k, size |-> n]>> : k \in Kinds, n \in 0 .. 2}
  \cup {<<[kind |-> "thinking", size |-> n], [kind |-> "text", size |-> m],
          [kind |-> "tool", size |-> 1]>> : n \in 0 .. 1, m \in 0 .. 1}
  \cup {<<[kind |-> "tool", size |-> 2], [kind |-> "tool", size |-> 0]>>}

MCMessages ==
  {[blocks |-> b, stop |-> s, input |-> u] :
     b \in MCBlocks, s \in {"tool_use", "end_turn"}, u \in {7, NoCount}}
=============================================================================

---------------------------- MODULE MCWorkflowRun ----------------------------
(* Two agents: the first hands over to the second on "go", and has a rule  *)
(* naming an agent nobody declared; "done" matches no rule of either.      *)
EXTENDS WorkflowRun

MCAgent  == {"planner", "coder"}
MCOutput == {"go", "done", "astray"}
MCTransitions ==
  [planner |-> <<[to |-> "coder", when |-> {"go"}],
                 [to |-> "tester", when |-> {"go", "astray"}]>>,
   coder   |-> <<>>]
Served    == {MCAgent}
Unserved  == {MCAgent, {"planner"}, {}}
AllOps    == {"Cancel", "Resume", "Fork"}
Pausing   == {"Cancel", "Resume"}
Resuming  == {"Resume"}

(* Over the in-memory journal, which never fails, unless said otherwise.   *)
Plan(operations, maxOps, maxCrashes) ==
  [configs |-> Served, operations |-> operations, snapshots |-> TRUE,
   journalFails |-> FALSE, maxOps |-> maxOps, maxCrashes |-> maxCrashes]
OnFile(plan_) == [plan_ EXCEPT !.snapshots = FALSE]

Running  == {OnFile(Plan(AllOps, 1, 1))}
Steering == {OnFile(Plan(AllOps, 2, 0)),
             [Plan(Resuming, 1, 1) EXCEPT !.configs = Unserved,
                                          !.journalFails = TRUE]}
Paused       == {Plan(Pausing, 3, 0)}
PausedOnce   == {Plan(Pausing, 1, 1)}
Uncommanded  == {Plan({}, 1, 0)}
Crashed      == {Plan({}, 1, 1)}
Resumed      == {Plan(Resuming, 1, 0)}
ResumedTwice == {Plan(Resuming, 2, 0)}
ResumedLater == {Plan(Resuming, 1, 1)}
Commanded    == {Plan(AllOps, 1, 0)}
=============================================================================

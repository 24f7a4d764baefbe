-------------------------- MODULE MCJobSupervision --------------------------
(* One job for the behaviours of a single job over restarts, two for what  *)
(* the supervisor does to several at once.                                 *)
EXTENDS JobSupervision

OneJob  == {"job1"}
TwoJobs == {"job1", "job2"}
AllOps  == {"Stop", "Resume", "Remove", "Shutdown", "Drain"}
Steering == {"Stop", "Resume", "Remove"}
Closing  == {"Stop", "Shutdown"}
Draining == {"Resume", "Drain"}
JustShutdown == {"Shutdown"}
NoOps    == {}
=============================================================================

---------------------------- MODULE MCAttachedRun ----------------------------
(* One job, submitted by an attached client or by one that goes away.      *)
EXTENDS AttachedRun

OneJob  == {"job1"}
AllOps  == {"Stop", "Resume", "Remove", "Shutdown", "Drain"}
=============================================================================

---------------------------- MODULE MCFileJournal ----------------------------
(* Batches of nought, one and two events, enough for a half-written batch. *)
EXTENDS FileJournal

MCSizes == {0, 1, 2}
AllFaults == {"crash", "open", "write", "sync", "read"}
=============================================================================

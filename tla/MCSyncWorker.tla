---------------------------- MODULE MCSyncWorker ----------------------------
(* Small instances: up to three records behind pages of two or of one, and *)
(* of two runs a filtered collection before a full one.                    *)
EXTENDS SyncWorker

MCRuns2 == 1..2
MCRuns1 == 1..1
MCFull2 == {2}
MCRecords2 == 1..2
MCRecords3 == 1..3
=============================================================================

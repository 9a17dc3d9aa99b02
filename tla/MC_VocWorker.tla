---------------------------- MODULE MC_VocWorker ----------------------------
(* VocWorker with two distinct temperature/humidity readings. *)
EXTENDS VocWorker

CONSTANTS v1, v2

MCValues == {v1, v2}
=============================================================================

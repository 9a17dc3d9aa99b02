---------------------------- MODULE MC_Co2Worker ----------------------------
(* Co2Worker with its sensor readings as model values. *)
EXTENDS Co2Worker

CONSTANTS v1, v2, v3

MCValues == {v1, v2}

\* Three readings for the larger instance of the co2_worker run: a snapshot
\* torn across two publishes would then mix three values.
MCValues3 == {v1, v2, v3}
=============================================================================

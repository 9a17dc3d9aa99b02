--------------------------- MODULE AcquisitionWorker ---------------------------
(***************************************************************************)
(* What an acquisition worker promises (spec section 4.2), for both the    *)
(* single-sensor (CO2) and the dual-sensor (VOC) variant:                  *)
(*                                                                         *)
(*   Uninitialized -> Initializing -> Sampling -> Faulted -> Initializing  *)
(*                                                                         *)
(* with a stop, observed at the head of the outer and the inner loop,      *)
(* leading to ShuttingDown -> Stopped.  A Faulted worker publishes one     *)
(* failure snapshot before it sleeps and re-initialises; Sampling          *)
(* publishes success snapshots.  Nothing is published in any other state.  *)
(***************************************************************************)
VARIABLES state,      \* the lifecycle state of section 4.2
          running,    \* the stop flag, negated: cleared by the app
          reported,   \* the current fault has been published
          published   \* the slot holds a success snapshot

avars == <<state, running, reported, published>>

States == {"Uninitialized", "Initializing", "Sampling", "Faulted",
           "ShuttingDown", "Stopped"}

AbsInit ==
    /\ state = "Uninitialized"
    /\ running = FALSE
    /\ reported = FALSE
    /\ published = FALSE

StartWorker ==
    /\ state = "Uninitialized"
    /\ state' = "Initializing"
    /\ running' = TRUE
    /\ UNCHANGED <<reported, published>>

RequestStop ==
    /\ running
    /\ running' = FALSE
    /\ UNCHANGED <<state, reported, published>>

\* Initializing ends in Sampling when every sub-step succeeds, else Faulted.
InitSucceeds ==
    /\ state = "Initializing"
    /\ state' = "Sampling"
    /\ UNCHANGED <<running, reported, published>>

InitFails ==
    /\ state = "Initializing"
    /\ state' = "Faulted"
    /\ UNCHANGED <<running, reported, published>>

PublishSample ==
    /\ state = "Sampling"
    /\ published' = TRUE
    /\ UNCHANGED <<state, running, reported>>

SampleFails ==
    /\ state = "Sampling"
    /\ state' = "Faulted"
    /\ UNCHANGED <<running, reported, published>>

\* Faulted: one failure snapshot before the delay ...
ReportFault ==
    /\ state = "Faulted"
    /\ ~reported
    /\ reported' = TRUE
    /\ published' = FALSE
    /\ UNCHANGED <<state, running>>

\* ... then, after the delay, back to Initializing.
Reinitialize ==
    /\ state = "Faulted"
    /\ reported
    /\ state' = "Initializing"
    /\ reported' = FALSE
    /\ UNCHANGED <<running, published>>

\* A cleared flag is seen at a loop head: the top of the outer loop (in
\* Initializing, or Faulted before its report) or of the sampling loop.
ObserveStop ==
    /\ ~running
    /\ \/ state \in {"Initializing", "Sampling"}
       \/ state = "Faulted" /\ ~reported
    /\ state' = "ShuttingDown"
    /\ UNCHANGED <<running, reported, published>>

\* Best-effort deinitialisation, then the worker has exited.
ShutDown ==
    /\ state = "ShuttingDown"
    /\ state' = "Stopped"
    /\ UNCHANGED <<running, reported, published>>

\* The steps the worker takes on its own whenever it is not sampling.
Progress ==
    \/ InitSucceeds \/ InitFails \/ ReportFault \/ Reinitialize
    \/ ObserveStop \/ ShutDown

AbsNext ==
    \/ StartWorker \/ RequestStop \/ PublishSample \/ SampleFails
    \/ Progress

AbsSpec == AbsInit /\ [][AbsNext]_avars /\ WF_avars(StartWorker)
                   /\ WF_avars(Progress)
================================================================================

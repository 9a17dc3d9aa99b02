---------------------------- MODULE MC_EventLoop ----------------------------
(* EventLoop as co2_monitor_app builds it. *)
EXTENDS EventLoop
=============================================================================

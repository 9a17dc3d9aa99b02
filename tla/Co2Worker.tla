------------------------------ MODULE Co2Worker ------------------------------
(***************************************************************************)
(* The CO2 monitor: the acquisition worker thread of                       *)
(* co2_monitor/sensor_worker.c driving the SCD30 driver, its lifecycle     *)
(* calls sensor_worker_start / sensor_worker_stop made by co2_monitor_app, *)
(* and the Measurement Slot the worker's callback writes and the GUI       *)
(* thread reads.                                                           *)
(*                                                                         *)
(* Three threads interleave: the worker (pc), the app's main thread        *)
(* (appPc), and the GUI thread (Draw).  Every bus transaction runs with    *)
(* furi_hal_i2c_handle_external held and no sleep inside, so it is one     *)
(* step; every furi_hal_delay_ms is a step of its own, so a stop request   *)
(* can land while the worker sleeps.                                       *)
(***************************************************************************)
EXTENDS Naturals, Scd30

CONSTANTS Values,      \* the readings the sensor can return (model values)
          NoReading,   \* the 0.0 values the worker and the cell start with
          MaxFaults    \* how many bus transactions may fail in a behaviour

ASSUME NoReading \notin Values /\ MaxFaults \in Nat

VARIABLES isStarted,   \* SensorWorker.is_started
          pc,          \* where the worker thread is
          success,     \* worker_thread's local `success`
          ready,       \* worker_thread's local `ready`
          reading,     \* worker_thread's locals temp_c, rh_pct, co2_ppm
          appPc,       \* where co2_monitor_app's main thread is
          light,       \* the RGB LED: "off", or lit by a draw_callback
          faults,      \* failed bus transactions so far (environment)
          stopAt,      \* history: the worker's pc when stop was requested
          gas, gasMutex, shown, stored

Snapshot(s, r, v) == [success |-> s, ready |-> r, reading |-> v]

Slot == INSTANCE MeasurementSlot
            WITH Default <- Snapshot(FALSE, FALSE, NoReading),
                 FlagFields <- {"success", "ready"}

slotVars == <<gas, gasMutex, shown, stored>>
workerVars == <<isStarted, pc, success, ready, reading, stopAt>>
appVars == <<appPc, light>>
vars == <<isStarted, pc, success, ready, reading, appVars, faults, stopAt,
          gas, gasMutex, shown, stored>>

WorkerPcs == {"idle", "top", "fail_pub", "fail_pub_end", "retry_delay",
              "init", "inner", "measure", "pub", "pub_end", "interval",
              "deinit", "exited"}
AppPcs == {"alloc", "running", "joining", "stopped", "dark", "freed"}

\* What one bus call may return: once MaxFaults transactions have failed
\* the bus is healthy for good.
BusResults == IF faults < MaxFaults THEN BOOLEAN ELSE {TRUE}
CountFault(ok) == faults' = IF ok THEN faults ELSE faults + 1

\* The snapshot the worker hands the callback: its current locals.
Current == Snapshot(success, ready, reading)

Init ==
    /\ isStarted = FALSE
    /\ pc = "idle"
    /\ success = TRUE
    /\ ready = FALSE
    /\ reading = NoReading
    /\ appPc = "alloc"
    /\ light = "off"
    /\ faults = 0
    /\ stopAt = "none"
    /\ Slot!SlotInit

-----------------------------------------------------------------------------
(* The app's main thread and the GUI thread.                               *)

\* sensor_worker_start: is_started must be false; set it and start the thread.
Start ==
    /\ appPc = "alloc"
    /\ ~isStarted
    /\ isStarted' = TRUE
    /\ pc' = "top"
    /\ appPc' = "running"
    /\ UNCHANGED <<success, ready, reading, light, faults, stopAt, slotVars>>

\* The Back key ends the event loop; sensor_worker_stop clears is_started
\* and then blocks in furi_thread_join.
Stop ==
    /\ appPc = "running"
    /\ isStarted' = FALSE
    /\ appPc' = "joining"
    /\ stopAt' = pc
    /\ UNCHANGED <<pc, success, ready, reading, light, faults, slotVars>>

\* Mutant: sensor_worker_stop returns without joining the thread.
JoinNoWait ==
    /\ appPc = "joining"
    /\ appPc' = "stopped"
    /\ UNCHANGED <<workerVars, light, faults, slotVars>>

\* furi_thread_join returns once worker_thread has returned.
Join ==
    /\ appPc = "joining"
    /\ pc = "exited"
    /\ appPc' = "stopped"
    /\ UNCHANGED <<workerVars, light, faults, slotVars>>

\* After sensor_worker_stop: furi_hal_light_set(Red | Green | Blue, 0x00).
LightOff ==
    /\ appPc = "stopped"
    /\ appPc' = "dark"
    /\ light' = "off"
    /\ UNCHANGED <<workerVars, faults, slotVars>>

\* co2_monitor_free: view_port_enabled_set(false) and gui_remove_view_port
\* end the redraws; gas_mutex is deleted and gas freed.
Free ==
    /\ appPc = "dark"
    /\ appPc' = "freed"
    /\ UNCHANGED <<workerVars, light, faults, slotVars>>

\* The GUI thread runs draw_callback while the view port is registered.
\* With gas->success it sets the LED in every branch (white while not
\* ready, else the CO2 band's colour); the "No connection!" branch leaves
\* the LED as it was.
GuiDraw ==
    /\ appPc # "freed"
    /\ Slot!Draw
    /\ light' = IF gas.success THEN "on" ELSE light
    /\ UNCHANGED <<workerVars, appPc, faults>>

-----------------------------------------------------------------------------
(* worker_thread.                                                          *)

\* Mutant: the failure callback before the retry delay is dropped.
TopNoFailurePublish ==
    /\ pc = "top"
    /\ pc' = CASE ~isStarted -> "deinit"
               [] ~success   -> "retry_delay"
               [] OTHER      -> "init"
    /\ UNCHANGED <<isStarted, success, ready, reading, appVars, faults, stopAt,
                   slotVars>>

\* Mutant: a failed transaction ends the worker (break for continue).
TopGiveUp ==
    /\ pc = "top"
    /\ pc' = IF ~isStarted \/ ~success THEN "deinit" ELSE "init"
    /\ UNCHANGED <<isStarted, success, ready, reading, appVars, faults, stopAt,
                   slotVars>>

\* Top of the outer loop: `while(is_started)`, then `if(!success)`.
Top ==
    /\ pc = "top"
    /\ pc' = CASE ~isStarted -> "deinit"
               [] ~success   -> "fail_pub"
               [] OTHER      -> "init"
    /\ UNCHANGED <<isStarted, success, ready, reading, appVars, faults, stopAt,
                   slotVars>>

\* The failure callback: instance->callback(success=false, ...).
FailPublish ==
    /\ pc = "fail_pub"
    /\ Slot!PublishBegin(Current)
    /\ pc' = "fail_pub_end"
    /\ UNCHANGED <<isStarted, success, ready, reading, appVars, faults, stopAt>>

FailPublishEnd ==
    /\ pc = "fail_pub_end"
    /\ Slot!PublishEnd(Current)
    /\ pc' = "retry_delay"
    /\ UNCHANGED <<isStarted, success, ready, reading, appVars, faults, stopAt>>

\* Mutant: after the retry delay the worker resumes sampling without
\* re-initialising the sensor.
RetryDelaySkipsInit ==
    /\ pc = "retry_delay"
    /\ pc' = "inner"
    /\ UNCHANGED <<isStarted, success, ready, reading, appVars, faults, stopAt,
                   slotVars>>

\* furi_hal_delay_ms(RETRY_TIMEOUT_MS), after which the code goes straight
\* on to the init transaction.
RetryDelay ==
    /\ pc = "retry_delay"
    /\ pc' = "init"
    /\ UNCHANGED <<isStarted, success, ready, reading, appVars, faults, stopAt,
                   slotVars>>

\* Acquire the bus, scd30_init, release; `continue` back to the top on
\* failure, otherwise enter the sampling loop.
InitTx ==
    /\ pc = "init"
    /\ \E trigger, interval \in BusResults :
          /\ success' = Scd30Init(trigger, interval)
          /\ CountFault(success')
    /\ pc' = IF success' THEN "inner" ELSE "top"
    /\ UNCHANGED <<isStarted, ready, reading, appVars, stopAt, slotVars>>

\* Mutant: the sampling loop is `while(1)`, never looking at is_started.
InnerIgnoresStop ==
    /\ pc = "inner"
    /\ pc' = "measure"
    /\ UNCHANGED <<isStarted, success, ready, reading, appVars, faults, stopAt,
                   slotVars>>

\* Top of the sampling loop: `while(is_started)`.
Inner ==
    /\ pc = "inner"
    /\ pc' = IF isStarted THEN "measure" ELSE "top"
    /\ UNCHANGED <<isStarted, success, ready, reading, appVars, faults, stopAt,
                   slotVars>>

\* Acquire the bus, scd30_get_measurement, release; `break` on failure.
MeasureTx ==
    /\ pc = "measure"
    /\ \E tx, rx, trx \in BusResults, word \in 0..1, crc \in CrcValues,
          v \in Values :
          LET r == Scd30GetMeasurement(tx, rx, word, crc, trx, ready)
          IN  /\ success' = r.success
              /\ ready' = r.ready
              /\ reading' = IF r.read THEN v ELSE reading
              /\ CountFault(r.success)
              /\ pc' = IF r.success THEN "pub" ELSE "top"
    /\ UNCHANGED <<isStarted, appVars, stopAt, slotVars>>

\* The sample callback: instance->callback(success=true, ready, ...).
Publish ==
    /\ pc = "pub"
    /\ Slot!PublishBegin(Current)
    /\ pc' = "pub_end"
    /\ UNCHANGED <<isStarted, success, ready, reading, appVars, faults, stopAt>>

PublishEnd ==
    /\ pc = "pub_end"
    /\ Slot!PublishEnd(Current)
    /\ pc' = "interval"
    /\ UNCHANGED <<isStarted, success, ready, reading, appVars, faults, stopAt>>

\* furi_hal_delay_ms(MEASUREMENT_INTERVAL_MS).
Interval ==
    /\ pc = "interval"
    /\ pc' = "inner"
    /\ UNCHANGED <<isStarted, success, ready, reading, appVars, faults, stopAt,
                   slotVars>>

\* After the outer loop: acquire, scd30_deinit, release; a failure is only
\* logged; the thread returns.
DeinitTx ==
    /\ pc = "deinit"
    /\ \E reset, stop \in BusResults : CountFault(Scd30Deinit(reset, stop))
    /\ pc' = "exited"
    /\ UNCHANGED <<isStarted, success, ready, reading, appVars, stopAt,
                   slotVars>>

-----------------------------------------------------------------------------
WorkerStep ==
    \/ Top \/ FailPublish \/ FailPublishEnd \/ RetryDelay \/ InitTx
    \/ Inner \/ MeasureTx \/ Publish \/ PublishEnd \/ Interval \/ DeinitTx

\* The app has returned: nothing is left to run.
Finished ==
    /\ appPc = "freed"
    /\ UNCHANGED vars

Next ==
    \/ Start \/ Stop \/ Join \/ LightOff \/ Free \/ GuiDraw
    \/ WorkerStep
    \/ Finished

\* The worker thread and the joining main thread are scheduled by the RTOS
\* whenever they are runnable; the Back key press (Stop) and redraws are
\* not promised.
Spec == Init /\ [][Next]_vars /\ WF_vars(WorkerStep) /\ WF_vars(Start)
                /\ WF_vars(Join) /\ WF_vars(LightOff) /\ WF_vars(Free)

-----------------------------------------------------------------------------
TypeOK ==
    /\ isStarted \in BOOLEAN
    /\ pc \in WorkerPcs
    /\ success \in BOOLEAN
    /\ ready \in BOOLEAN
    /\ reading \in Values \cup {NoReading}
    /\ appPc \in AppPcs
    /\ light \in {"off", "on"}
    /\ faults \in 0..MaxFaults
    /\ stopAt \in WorkerPcs \cup {"none"}
    /\ gas \in [success : BOOLEAN, ready : BOOLEAN,
                reading : Values \cup {NoReading}]
    /\ gasMutex \in BOOLEAN

(* No publish after stop returns: once sensor_worker_stop has returned     *)
(* (furi_thread_join), the worker never writes the cell again, so          *)
(* co2_monitor_free can free it.                                           *)
NoPublishAfterStop ==
    [][(appPc \in {"stopped", "dark", "freed"}) => gas' = gas]_vars

(* The draw callback never paints a torn snapshot (MeasurementSlot).       *)
SlotNeverTorn == Slot!NoTornSnapshot

(* Every failure is reported: after a bus transaction fails while the      *)
(* worker is started, the cell eventually holds a failure snapshot or the  *)
(* worker has been stopped.                                                *)
FailureReported ==
    (isStarted /\ ~success) ~> (~gas.success \/ ~isStarted)

(* Recovery: whenever the slot holds no success while the worker runs (a *)
(* failure was published, or nothing yet), the worker's retry loop        *)
(* eventually publishes a successful snapshot, unless it is stopped.  The *)
(* bus fails at most MaxFaults times, so the loop must outlast them all.  *)
RecoversAfterFaults ==
    (isStarted /\ ~gas.success) ~> (gas.success \/ ~isStarted)

(* Stop terminates: sensor_worker_stop's join returns.                     *)
StopTerminates == appPc = "joining" ~> appPc = "stopped"

(* Spec section 8: a stop requested while the worker sleeps in the retry   *)
(* delay makes it exit without another bus transaction (the init that     *)
(* follows the delay) first.                                               *)
NoBusAfterStopInRetry == [][stopAt = "retry_delay" => ~InitTx]_vars

(* Spec section 2 (CO2 sensor driver): when the data-ready flag is false,  *)
(* get-measurement returns success with ready=false and does not read the  *)
(* measurement, so the worker's readings change only on a ready sample.    *)
NoReadWhenNotReady == [][MeasureTx /\ ~ready' => reading' = reading]_vars

(* The LED is off when the app has returned: co2_monitor_app turns it off  *)
(* after stopping the worker, and no draw_callback may light it again.     *)
LedOffAfterExit == appPc = "freed" => light = "off"

-----------------------------------------------------------------------------
(* Refinement: the worker implements AcquisitionWorker.  The head of the    *)
(* outer loop is Faulted after a failure; after a success it is            *)
(* Initializing when the thread has just started (and may have been        *)
(* stopped there), and the end of Sampling when the sampling loop has      *)
(* just seen the stop.                                                     *)
InitializingPcs == {"init"}
SamplingPcs     == {"inner", "measure", "pub", "pub_end", "interval"}
FaultedPcs      == {"fail_pub", "fail_pub_end", "retry_delay"}

AbsState ==
    CASE pc = "idle"                -> "Uninitialized"
      [] pc = "top" /\ ~success     -> "Faulted"
      [] pc = "top"                 -> IF isStarted \/ stopAt = "top"
                                       THEN "Initializing" ELSE "Sampling"
      [] pc \in InitializingPcs     -> "Initializing"
      [] pc \in SamplingPcs         -> "Sampling"
      [] pc \in FaultedPcs          -> "Faulted"
      [] pc = "deinit"              -> "ShuttingDown"
      [] pc = "exited"              -> "Stopped"

Abs == INSTANCE AcquisitionWorker
           WITH state <- AbsState, running <- isStarted,
                reported <- (pc = "retry_delay"), published <- stored.success

(* The CO2 worker thread, with its start and stop, is an acquisition       *)
(* worker of spec section 4.2: its lifecycle, its publishes and its        *)
(* progress.                                                               *)
ImplementsAcquisitionWorker == Abs!AbsSpec
=============================================================================

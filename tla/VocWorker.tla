------------------------------ MODULE VocWorker ------------------------------
(***************************************************************************)
(* The VOC monitor: the acquisition worker thread of                       *)
(* voc_monitor/sensor_worker.c driving the general-call reset, the AHT10   *)
(* and the SGP30 on one bus, its start/stop calls from voc_monitor_app,    *)
(* the Measurement Slot, the RTOS tick counter and the two devices' state. *)
(*                                                                         *)
(* A bus transaction without a loop is one step.  The AHT10 status-polling *)
(* loops are a step per round, because the device decides how many rounds *)
(* there are.  Every furi_hal_delay_ms between transactions is a step.     *)
(*                                                                         *)
(* Readings are abstract: th stands for temp_c and rh_pct, and a VOC       *)
(* reading (tvoc_ppb, eco2_ppm) is identified by the humidity              *)
(* compensation the SGP30 was using when it measured it, i.e. by the       *)
(* temperature/humidity reading whose absolute humidity was last sent.     *)
(***************************************************************************)
EXTENDS Naturals, Aht10, Sgp30

CONSTANTS Values,       \* temperature/humidity readings (model values)
          NoReading,    \* the zero values the worker and the cell start with
          Garbage,      \* temp/rh decoded from the all-zero buffer of a failed read
          NoComp,       \* the SGP30 without humidity compensation (after reset)
          MaxFaults,    \* how many bus transactions may fail in a behaviour
          MaxBusy,      \* how many status polls in a row may answer busy
          StuckBusy,    \* TRUE: the AHT10 may answer busy forever
          TickBits,     \* width of the tick counter (32 in the firmware)
          WarmUpTicks   \* furi_hal_ms_to_ticks(SGP30_INITIALIZATION_DURATION_MS)

ASSUME /\ {NoReading, Garbage, NoComp} \cap Values = {}
       /\ MaxFaults \in Nat /\ MaxBusy \in Nat /\ StuckBusy \in BOOLEAN
       /\ TickBits \in Nat \ {0} /\ WarmUpTicks \in 1..(2^TickBits - 1)

VARIABLES isStarted,    \* SensorWorker.is_started
          pc,           \* where the worker thread is
          success,      \* worker_thread's local `success`
          th,           \* worker_thread's locals temp_c, rh_pct
          initializing, \* worker_thread's local `initializing`
          deadline,     \* worker_thread's local `initializedAfterTicks`
          voc,          \* worker_thread's locals tvoc_ppb, eco2_ppm
          appPc,        \* where voc_monitor_app's main thread is
          light,        \* the RGB LED: "off", or lit by a draw_callback
          stopAtTop,    \* history: stop was requested at the outer loop's head
          faults,       \* failed bus transactions so far (environment)
          busyPolls,    \* busy answers in a row from the AHT10 (environment)
          devComp,      \* the humidity compensation the SGP30 holds
          tick,         \* furi_hal_get_tick()
          sinceInit,    \* ticks since sgp30_init recorded the deadline, capped
          gas, gasMutex, shown, stored

TickMod == 2^TickBits

Snapshot(s, t, i, v) == [success |-> s, th |-> t, initializing |-> i, voc |-> v]

Slot == INSTANCE MeasurementSlot
            WITH Default <- Snapshot(FALSE, NoReading, TRUE, NoReading),
                 FlagFields <- {"success", "th", "initializing"}

slotVars == <<gas, gasMutex, shown, stored>>
workerVars == <<isStarted, pc, success, th, initializing, deadline, voc>>
envVars == <<faults, busyPolls, devComp, tick, sinceInit>>
appVars == <<appPc, light, stopAtTop>>
vars == <<workerVars, appVars, envVars, slotVars>>

WorkerPcs == {"idle", "top", "fail_pub", "fail_pub_end", "retry_delay",
              "init", "init_poll", "init_busy", "inner", "meas_trigger",
              "meas_poll", "meas_busy",
              "meas_read", "pub", "pub_end", "interval", "deinit", "exited"}
AppPcs == {"alloc", "running", "joining", "stopped", "dark", "freed"}

BusResults == IF faults < MaxFaults THEN BOOLEAN ELSE {TRUE}
CountFault(ok) == faults' = IF ok THEN faults ELSE faults + 1

\* The status bytes the AHT10 may answer now: busy only within the bound
\* (or always, for a stuck device); uncalibrated only while faults remain.
DeviceStatus ==
    {s \in StatusBytes :
        /\ IsBusy(s) => (StuckBusy \/ busyPolls < MaxBusy)
        /\ ~IsCalibrated(s) => faults < MaxFaults}

\* The counter of busy answers after the device answered `status`.
CountBusy(status) ==
    busyPolls' = IF ~IsBusy(status) \/ StuckBusy THEN 0 ELSE busyPolls + 1

Current == Snapshot(success, th, initializing, voc)

Init ==
    /\ isStarted = FALSE
    /\ pc = "idle"
    /\ success = TRUE
    /\ th = NoReading
    /\ initializing = TRUE
    /\ deadline = 0
    /\ voc = NoReading
    /\ appPc = "alloc"
    /\ light = "off"
    /\ stopAtTop = FALSE
    /\ faults = 0
    /\ busyPolls = 0
    /\ devComp = NoComp
    /\ tick \in 0..(TickMod - 1)
    /\ sinceInit = WarmUpTicks
    /\ Slot!SlotInit

-----------------------------------------------------------------------------
(* The app's main thread, the GUI thread and the tick counter.             *)

\* sensor_worker_start.
Start ==
    /\ appPc = "alloc"
    /\ ~isStarted
    /\ isStarted' = TRUE
    /\ pc' = "top"
    /\ appPc' = "running"
    /\ UNCHANGED <<success, th, initializing, deadline, voc, light, stopAtTop,
                   envVars, slotVars>>

\* Back key: sensor_worker_stop clears is_started and joins the thread.
Stop ==
    /\ appPc = "running"
    /\ isStarted' = FALSE
    /\ appPc' = "joining"
    /\ stopAtTop' = (pc = "top")
    /\ UNCHANGED <<pc, success, th, initializing, deadline, voc, light, envVars,
                   slotVars>>

\* Mutant: sensor_worker_stop returns without joining the thread.
JoinNoWait ==
    /\ appPc = "joining"
    /\ appPc' = "stopped"
    /\ UNCHANGED <<workerVars, light, stopAtTop, envVars, slotVars>>

\* furi_thread_join returns once worker_thread has returned.
Join ==
    /\ appPc = "joining"
    /\ pc = "exited"
    /\ appPc' = "stopped"
    /\ UNCHANGED <<workerVars, light, stopAtTop, envVars, slotVars>>

\* After sensor_worker_stop: furi_hal_light_set(Red | Green | Blue, 0x00).
LightOff ==
    /\ appPc = "stopped"
    /\ appPc' = "dark"
    /\ light' = "off"
    /\ UNCHANGED <<workerVars, stopAtTop, envVars, slotVars>>

\* voc_monitor_free: the view port is disabled and removed, which ends the
\* redraws; gas_mutex is deleted and gas freed.
Free ==
    /\ appPc = "dark"
    /\ appPc' = "freed"
    /\ UNCHANGED <<workerVars, light, stopAtTop, envVars, slotVars>>

\* draw_callback: with gas->success every branch sets the LED (white while
\* initializing, else the eCO2 band's colour); "No connection!" leaves it.
GuiDraw ==
    /\ appPc # "freed"
    /\ Slot!Draw
    /\ light' = IF gas.success THEN "on" ELSE light
    /\ UNCHANGED <<workerVars, appPc, stopAtTop, envVars>>

\* The RTOS tick advances (modulo 2^TickBits) whatever the threads do.
Tick ==
    /\ appPc # "freed"
    /\ tick' = (tick + 1) % TickMod
    /\ sinceInit' = IF sinceInit < WarmUpTicks THEN sinceInit + 1 ELSE sinceInit
    /\ UNCHANGED <<workerVars, appVars, faults, busyPolls, devComp, slotVars>>

-----------------------------------------------------------------------------
(* worker_thread: the outer loop.                                          *)

\* Mutant: a failed transaction ends the worker (break for continue).
TopGiveUp ==
    /\ pc = "top"
    /\ pc' = IF ~isStarted \/ ~success THEN "deinit" ELSE "init"
    /\ UNCHANGED <<isStarted, success, th, initializing, deadline, voc, appVars,
                   envVars, slotVars>>

\* `while(is_started)`, then `if(!success)`.
Top ==
    /\ pc = "top"
    /\ pc' = CASE ~isStarted -> "deinit"
               [] ~success   -> "fail_pub"
               [] OTHER      -> "init"
    /\ UNCHANGED <<isStarted, success, th, initializing, deadline, voc, appVars,
                   envVars, slotVars>>

\* The failure callback, in the callback's two halves.
FailPublish ==
    /\ pc = "fail_pub"
    /\ Slot!PublishBegin(Current)
    /\ pc' = "fail_pub_end"
    /\ UNCHANGED <<isStarted, success, th, initializing, deadline, voc, appVars,
                   envVars>>

FailPublishEnd ==
    /\ pc = "fail_pub_end"
    /\ Slot!PublishEnd(Current)
    /\ pc' = "retry_delay"
    /\ UNCHANGED <<isStarted, success, th, initializing, deadline, voc, appVars,
                   envVars>>

\* Mutant: after the retry delay the worker resumes sampling without
\* re-initialising the sensors.
RetryDelaySkipsInit ==
    /\ pc = "retry_delay"
    /\ pc' = "inner"
    /\ UNCHANGED <<isStarted, success, th, initializing, deadline, voc, appVars,
                   envVars, slotVars>>

\* furi_hal_delay_ms(RETRY_TIMEOUT_MS), then straight on to the init.
RetryDelay ==
    /\ pc = "retry_delay"
    /\ pc' = "init"
    /\ UNCHANGED <<isStarted, success, th, initializing, deadline, voc, appVars,
                   envVars, slotVars>>

\* Acquire the bus; general_call_reset (which also resets the SGP30) &&
\* aht10_init up to its status loop.
InitTx ==
    /\ pc = "init"
    /\ \E gc, probe, reset, initialize \in BusResults :
          LET ok == GeneralCallReset(gc) /\ Aht10InitStart(probe, reset, initialize)
          IN  /\ success' = ok
              /\ pc' = IF ok THEN "init_poll" ELSE "top"
              /\ devComp' = IF GeneralCallReset(gc) THEN NoComp ELSE devComp
              /\ CountFault(ok)
    /\ UNCHANGED <<isStarted, th, initializing, deadline, voc, appVars, busyPolls,
                   tick, sinceInit, slotVars>>

\* One round of aht10_init's status loop.  A failed read, or a settled
\* status without the calibrated bit, fails the init and releases the bus;
\* busy goes round the loop again; settled and
\* calibrated goes on to sgp30_init, which records the deadline
\* furi_hal_get_tick() + 15000 ms, and the bus is released.
InitPoll ==
    /\ pc = "init_poll"
    /\ \E rxOk \in BusResults, status \in DeviceStatus,
          probe, airQuality \in BusResults :
          \/ /\ ~rxOk
             /\ success' = FALSE /\ pc' = "top" /\ CountFault(FALSE)
             /\ UNCHANGED <<deadline, busyPolls, sinceInit>>
          \/ /\ rxOk /\ IsBusy(status)
             /\ pc' = "init_busy" /\ CountBusy(status)
             /\ UNCHANGED <<success, deadline, faults, sinceInit>>
          \/ /\ rxOk /\ ~IsBusy(status) /\ ~IsCalibrated(status)
             /\ success' = FALSE /\ pc' = "top" /\ CountFault(FALSE)
             /\ CountBusy(status)
             /\ UNCHANGED <<deadline, sinceInit>>
          \/ /\ rxOk /\ ~IsBusy(status) /\ IsCalibrated(status)
             /\ success' = Sgp30Init(probe, airQuality)
             /\ CountFault(success') /\ CountBusy(status)
             /\ pc' = IF success' THEN "inner" ELSE "top"
             /\ deadline' = IF success' THEN (tick + WarmUpTicks) % TickMod
                                        ELSE deadline
             /\ sinceInit' = IF success' THEN 0 ELSE sinceInit
    /\ UNCHANGED <<isStarted, th, initializing, voc, appVars, devComp, tick,
                   slotVars>>

\* The next round of either status loop starts with
\* furi_hal_delay_ms(AHT10_CMD_STATUS_TIMEOUT_MS), the bus still held.
BusyDelay ==
    /\ pc \in {"init_busy", "meas_busy"}
    /\ pc' = IF pc = "init_busy" THEN "init_poll" ELSE "meas_poll"
    /\ UNCHANGED <<isStarted, success, th, initializing, deadline, voc, appVars,
                   envVars, slotVars>>

-----------------------------------------------------------------------------
(* worker_thread: the sampling loop.                                       *)

\* Mutant: the sampling loop is `while(1)`, never looking at is_started.
InnerIgnoresStop ==
    /\ pc = "inner"
    /\ initializing' = (tick < deadline)
    /\ pc' = "meas_trigger"
    /\ UNCHANGED <<isStarted, success, th, deadline, voc, appVars, envVars,
                   slotVars>>

\* `while(is_started)`; inside, initializing = furi_hal_get_tick() <
\* initializedAfterTicks, computed before the bus is acquired.
Inner ==
    /\ pc = "inner"
    /\ \/ /\ isStarted
          /\ initializing' = (tick < deadline)
          /\ pc' = "meas_trigger"
       \/ /\ ~isStarted
          /\ pc' = "top"
          /\ UNCHANGED initializing
    /\ UNCHANGED <<isStarted, success, th, deadline, voc, appVars, envVars,
                   slotVars>>

\* Acquire the bus; aht10_get_measurement sends the trigger command.
MeasTrigger ==
    /\ pc = "meas_trigger"
    /\ \E ok \in BusResults :
          /\ success' = ok
          /\ pc' = IF ok THEN "meas_poll" ELSE "top"
          /\ CountFault(ok)
    /\ UNCHANGED <<isStarted, th, initializing, deadline, voc, appVars, busyPolls,
                   devComp, tick, sinceInit, slotVars>>

\* One round of aht10_get_measurement's status loop: a failed read breaks
\* the cycle (bus released); busy goes round the loop again.
MeasPoll ==
    /\ pc = "meas_poll"
    /\ \E rxOk \in BusResults, status \in DeviceStatus :
          \/ /\ ~rxOk
             /\ success' = FALSE /\ pc' = "top" /\ CountFault(FALSE)
             /\ UNCHANGED busyPolls
          \/ /\ rxOk
             /\ pc' = IF IsBusy(status) THEN "meas_busy" ELSE "meas_read"
             /\ CountBusy(status)
             /\ UNCHANGED <<success, faults>>
    /\ UNCHANGED <<isStarted, th, initializing, deadline, voc, appVars, devComp,
                   tick, sinceInit, slotVars>>

\* Mutant: sgp30_read_air_quality writing its outputs from the zeroed buffer
\* of a failed read, as aht10_read_measurement does.
MeasReadVocOnFailure ==
    /\ pc = "meas_read"
    /\ \E readOk, humidityOk, measureOk, airOk \in BusResults, v \in Values :
          \/ /\ ~readOk
             /\ th' = Garbage /\ success' = FALSE
             /\ UNCHANGED <<voc, devComp>>
          \/ /\ readOk /\ ~humidityOk
             /\ th' = v /\ success' = FALSE
             /\ UNCHANGED <<voc, devComp>>
          \/ /\ readOk /\ humidityOk
             /\ th' = v /\ devComp' = v
             /\ success' = Sgp30GetMeasurement(measureOk, airOk)
             /\ voc' = IF success' THEN devComp' ELSE Garbage
    /\ CountFault(success')
    /\ pc' = IF success' THEN "pub" ELSE "top"
    /\ UNCHANGED <<isStarted, initializing, deadline, appVars, busyPolls, tick,
                   sinceInit, slotVars>>

\* Mutant: the VOC measurement is taken before the new humidity is set.
MeasReadBeforeHumidity ==
    /\ pc = "meas_read"
    /\ \E readOk, humidityOk, measureOk, airOk \in BusResults, v \in Values :
          \/ /\ ~readOk
             /\ th' = Garbage /\ success' = FALSE
             /\ UNCHANGED <<voc, devComp>>
          \/ /\ readOk /\ ~Sgp30GetMeasurement(measureOk, airOk)
             /\ th' = v /\ success' = FALSE
             /\ UNCHANGED <<voc, devComp>>
          \/ /\ readOk /\ Sgp30GetMeasurement(measureOk, airOk)
             /\ th' = v /\ voc' = devComp
             /\ success' = humidityOk
             /\ devComp' = IF humidityOk THEN v ELSE devComp
    /\ CountFault(success')
    /\ pc' = IF success' THEN "pub" ELSE "top"
    /\ UNCHANGED <<isStarted, initializing, deadline, appVars, busyPolls, tick,
                   sinceInit, slotVars>>

\* The rest of the cycle, with the bus held: aht10_read_measurement (which
\* stores the decode of its buffer even when the read fails, i.e. -50 C and
\* 0 % for the zeroed buffer), sgp30_set_humidity with RH_TO_AH of that
\* reading, sgp30_get_measurement; the first failure breaks the cycle.
\* Then the bus is released.
MeasRead ==
    /\ pc = "meas_read"
    /\ \E readOk, humidityOk, measureOk, airOk \in BusResults, v \in Values :
          \/ /\ ~readOk
             /\ th' = Garbage /\ success' = FALSE
             /\ UNCHANGED <<voc, devComp>>
          \/ /\ readOk /\ ~humidityOk
             /\ th' = v /\ success' = FALSE
             /\ UNCHANGED <<voc, devComp>>
          \/ /\ readOk /\ humidityOk
             /\ th' = v /\ devComp' = v
             /\ success' = Sgp30GetMeasurement(measureOk, airOk)
             /\ voc' = IF success' THEN devComp' ELSE voc
    /\ CountFault(success')
    /\ pc' = IF success' THEN "pub" ELSE "top"
    /\ UNCHANGED <<isStarted, initializing, deadline, appVars, busyPolls, tick,
                   sinceInit, slotVars>>

\* The sample callback, in the callback's two halves.
Publish ==
    /\ pc = "pub"
    /\ Slot!PublishBegin(Current)
    /\ pc' = "pub_end"
    /\ UNCHANGED <<isStarted, success, th, initializing, deadline, voc, appVars,
                   envVars>>

PublishEnd ==
    /\ pc = "pub_end"
    /\ Slot!PublishEnd(Current)
    /\ pc' = "interval"
    /\ UNCHANGED <<isStarted, success, th, initializing, deadline, voc, appVars,
                   envVars>>

\* furi_hal_delay_ms(MEASUREMENT_INTERVAL_MS).
Interval ==
    /\ pc = "interval"
    /\ pc' = "inner"
    /\ UNCHANGED <<isStarted, success, th, initializing, deadline, voc, appVars,
                   envVars, slotVars>>

\* After the outer loop: aht10_deinit && general_call_reset under the bus;
\* a failure is only logged.
DeinitTx ==
    /\ pc = "deinit"
    /\ \E reset, gc \in BusResults :
          LET ok == Aht10Deinit(reset) /\ GeneralCallReset(gc)
          IN  /\ CountFault(ok)
              /\ devComp' = IF ok THEN NoComp ELSE devComp
    /\ pc' = "exited"
    /\ UNCHANGED <<isStarted, success, th, initializing, deadline, voc, appVars,
                   busyPolls, tick, sinceInit, slotVars>>

-----------------------------------------------------------------------------
WorkerStep ==
    \/ Top \/ FailPublish \/ FailPublishEnd \/ RetryDelay \/ InitTx
    \/ InitPoll \/ BusyDelay \/ Inner \/ MeasTrigger \/ MeasPoll \/ MeasRead
    \/ Publish \/ PublishEnd \/ Interval \/ DeinitTx

Finished ==
    /\ appPc = "freed"
    /\ UNCHANGED vars

Next ==
    \/ Start \/ Stop \/ Join \/ LightOff \/ Free \/ GuiDraw \/ Tick
    \/ WorkerStep
    \/ Finished

\* The worker and the joining main thread run whenever runnable; the Back
\* key and redraws are not promised.
Spec == Init /\ [][Next]_vars /\ WF_vars(WorkerStep) /\ WF_vars(Start)
                /\ WF_vars(Join) /\ WF_vars(LightOff) /\ WF_vars(Free)

-----------------------------------------------------------------------------
Readings == Values \cup {NoReading}

TypeOK ==
    /\ isStarted \in BOOLEAN
    /\ pc \in WorkerPcs
    /\ success \in BOOLEAN
    /\ th \in Readings \cup {Garbage}
    /\ initializing \in BOOLEAN
    /\ deadline \in 0..(TickMod - 1)
    /\ voc \in Readings
    /\ appPc \in AppPcs
    /\ light \in {"off", "on"}
    /\ stopAtTop \in BOOLEAN
    /\ faults \in 0..MaxFaults
    /\ busyPolls \in 0..MaxBusy
    /\ devComp \in Values \cup {NoComp}
    /\ tick \in 0..(TickMod - 1)
    /\ sinceInit \in 0..WarmUpTicks
    /\ gas \in [success : BOOLEAN, th : Readings \cup {Garbage},
                initializing : BOOLEAN, voc : Readings]
    /\ gasMutex \in BOOLEAN

(* The draw callback never paints a torn snapshot (MeasurementSlot).       *)
SlotNeverTorn == Slot!NoTornSnapshot

(* No publish after stop returns: once furi_thread_join has returned, the  *)
(* worker never writes the cell that voc_monitor_free frees.               *)
NoPublishAfterStop ==
    [][(appPc \in {"stopped", "dark", "freed"}) => gas' = gas]_vars

(* Humidity compensation is from the same cycle: whenever draw_callback    *)
(* paints a successful snapshot, its VOC reading was measured by the SGP30 *)
(* while it held the absolute humidity of that snapshot's temperature and  *)
(* humidity, never a previous cycle's one, nor none after a reset.         *)
CompensationMatchesReading == shown.success => shown.voc = shown.th

(* Stop terminates: sensor_worker_stop's join returns.                     *)
StopTerminates == appPc = "joining" ~> appPc = "stopped"

(* Recovery: whenever the slot holds no success while the worker runs (a *)
(* failure was published, or nothing yet), the worker's retry loop        *)
(* eventually publishes a successful snapshot, unless it is stopped.  The *)
(* bus fails at most MaxFaults times, so the loop must outlast them all.  *)
RecoversAfterFaults ==
    (isStarted /\ ~gas.success) ~> (gas.success \/ ~isStarted)

(* Spec 4.2 and 8 (warm-up flag): every published snapshot says          *)
(* `initializing` exactly when it is published before the warm-up          *)
(* deadline, i.e. when fewer than WarmUpTicks ticks have passed since      *)
(* sgp30_init.  The code compares furi_hal_get_tick() with tick + 15000    *)
(* in uint32_t, which wraps, and it computes the flag at the top of the    *)
(* sampling cycle but publishes it after the AHT10 poll and SGP30 read.    *)
PublishedFlagMatchesElapsed ==
    [][(pc = "pub" /\ pc' = "pub_end")
         => (gas'.initializing = (sinceInit < WarmUpTicks))]_vars

-----------------------------------------------------------------------------
(* Refinement: the worker implements AcquisitionWorker, with the same       *)
(* reading of the outer loop's head as in Co2Worker; the AHT10 status      *)
(* loops belong to Initializing and Sampling.                              *)
InitializingPcs == {"init", "init_poll", "init_busy"}
SamplingPcs     == {"inner", "meas_trigger", "meas_poll", "meas_busy",
                    "meas_read", "pub", "pub_end", "interval"}
FaultedPcs      == {"fail_pub", "fail_pub_end", "retry_delay"}

AbsState ==
    CASE pc = "idle"                -> "Uninitialized"
      [] pc = "top" /\ ~success     -> "Faulted"
      [] pc = "top"                 -> IF isStarted \/ stopAtTop
                                       THEN "Initializing" ELSE "Sampling"
      [] pc \in InitializingPcs     -> "Initializing"
      [] pc \in SamplingPcs         -> "Sampling"
      [] pc \in FaultedPcs          -> "Faulted"
      [] pc = "deinit"              -> "ShuttingDown"
      [] pc = "exited"              -> "Stopped"

Abs == INSTANCE AcquisitionWorker
           WITH state <- AbsState, running <- isStarted,
                reported <- (pc = "retry_delay"), published <- stored.success

(* The VOC worker thread, with its start and stop, is an acquisition       *)
(* worker of spec section 4.2: its lifecycle, its publishes and its        *)
(* progress.                                                               *)
ImplementsAcquisitionWorker == Abs!AbsSpec
=============================================================================

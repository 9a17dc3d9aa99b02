--------------------------- MODULE MeasurementSlot ---------------------------
(***************************************************************************)
(* The Measurement Slot of both monitor apps: the heap cell `Gas` that     *)
(* co2_monitor_alloc / voc_monitor_alloc create, the mutex `gas_mutex`     *)
(* that guards it, the worker's publish callback                           *)
(* (sensor_worker_input_callback) that writes it, and the GUI thread's     *)
(* draw_callback that reads it.                                            *)
(*                                                                         *)
(* The callback stores the snapshot field by field under the mutex; the    *)
(* model keeps that by splitting a publish into two steps: the flag fields *)
(* (FlagFields) are stored first, the reading's values second.  The draw   *)
(* callback holds the mutex for its whole read, so its read is one step    *)
(* taken while no writer holds the mutex.                                  *)
(***************************************************************************)
CONSTANTS Default,     \* the snapshot the app stores in the cell at alloc
          FlagFields   \* the fields the callback stores first

VARIABLES gas,         \* the Gas cell
          gasMutex,    \* TRUE while the worker's callback holds gas_mutex
          shown,       \* the snapshot the last draw_callback read
          stored       \* history: the last snapshot a callback stored whole

slotVars == <<gas, gasMutex, shown, stored>>

SlotInit ==
    /\ gas = Default
    /\ gasMutex = FALSE
    /\ shown = Default
    /\ stored = Default

\* sensor_worker_input_callback, first half: osMutexAcquire, then the
\* stores of the flag fields (success, ready / initializing).
PublishBegin(snap) ==
    /\ ~gasMutex
    /\ gasMutex' = TRUE
    /\ gas' = [f \in DOMAIN gas |-> IF f \in FlagFields THEN snap[f] ELSE gas[f]]
    /\ UNCHANGED <<shown, stored>>

\* sensor_worker_input_callback, second half: the stores of the measured
\* values, then osMutexRelease.
PublishEnd(snap) ==
    /\ gasMutex
    /\ gas' = snap
    /\ gasMutex' = FALSE
    /\ stored' = snap
    /\ UNCHANGED shown

\* Mutant: draw_callback reads the cell without taking gas_mutex.
DrawUnlocked ==
    /\ shown' = gas
    /\ UNCHANGED <<gas, gasMutex, stored>>

\* draw_callback: osMutexAcquire (blocks while the callback holds it), read
\* every field of the cell to paint it, osMutexRelease.
Draw ==
    /\ ~gasMutex
    /\ shown' = gas
    /\ UNCHANGED <<gas, gasMutex, stored>>

-----------------------------------------------------------------------------
(* The render layer never observes a torn snapshot: every read of          *)
(* draw_callback yields the snapshot the last callback stored whole (or    *)
(* the alloc default), never flags of one publish mixed with values of     *)
(* another.                                                                *)
NoTornSnapshot == [][shown' # shown => shown' = stored]_<<shown, stored>>
=============================================================================

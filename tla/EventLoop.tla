------------------------------ MODULE EventLoop ------------------------------
(***************************************************************************)
(* The input path of co2_monitor_app: the GUI thread delivers input events *)
(* to input_callback, which puts them into the app's 8-slot event queue    *)
(* with osWaitForever; the app's main thread takes them with a 100 ms      *)
(* timeout until a Back press, then stops the worker and frees the view    *)
(* port and the queue.                                                     *)
(*                                                                         *)
(* The worker is the abstract acquisition worker (AcquisitionWorker), the  *)
(* promise both worker modules are checked to keep: what matters here is   *)
(* only that sensor_worker_stop's join lasts until the worker has left     *)
(* whatever state it was in, while the GUI thread keeps delivering input.  *)
(* The LED and the Measurement Slot are left to Co2Worker.                 *)
(*                                                                         *)
(* The GUI service is firmware outside this tree.  What the model takes   *)
(* from it: its thread calls the view port's input callback while holding *)
(* the GUI lock, and gui_remove_view_port takes that lock.  So while the  *)
(* GUI thread is blocked in the put, the main thread cannot remove the    *)
(* view port.                                                             *)
(***************************************************************************)
EXTENDS Naturals, Sequences

CONSTANTS QueueSize,  \* osMessageQueueNew(8, sizeof(InputEvent), NULL)
          MaxEvents   \* input events the user produces in a behaviour

ASSUME QueueSize \in Nat \ {0} /\ MaxEvents \in Nat

\* An InputEvent, abstracted to what the main loop tells apart: the Back
\* key's InputTypePress, and every other type or key.
Events == {"back_press", "other"}

VARIABLES queue,        \* the contents of event_queue
          guiPc,        \* the GUI thread: "idle" or "blocked" in the put
          pending,      \* the event of a blocked put
          appPc,        \* where co2_monitor_app's main thread is
          sent,         \* input events delivered so far (bounded)
          backPressed,  \* history: a Back press was delivered
          state, running, reported, published   \* the abstract worker

Worker == INSTANCE AcquisitionWorker

workerVars == <<state, running, reported, published>>
inputVars == <<guiPc, pending, sent, backPressed>>
vars == <<queue, appPc, inputVars, workerVars>>

\* The view port is registered and enabled: from gui_add_view_port in
\* co2_monitor_alloc to view_port_enabled_set(false) in co2_monitor_free.
ViewPortEnabled == appPc \in {"alloc", "loop", "joining", "stopped"}

\* co2_monitor_alloc has returned: the queue is empty and the view port added.
Init ==
    /\ queue = <<>>
    /\ guiPc = "idle"
    /\ pending = "none"
    /\ appPc = "alloc"
    /\ sent = 0
    /\ backPressed = FALSE
    /\ Worker!AbsInit

-----------------------------------------------------------------------------
(* The GUI thread.                                                         *)

\* Mutant: the put does not wait (timeout 0), so an event that finds the
\* queue full is dropped.
DispatchNoWait ==
    /\ guiPc = "idle"
    /\ ViewPortEnabled
    /\ sent < MaxEvents
    /\ \E e \in Events :
          /\ queue' = IF Len(queue) < QueueSize THEN Append(queue, e) ELSE queue
          /\ sent' = sent + 1
          /\ backPressed' = (backPressed \/ e = "back_press")
    /\ UNCHANGED <<guiPc, pending, appPc, workerVars>>

\* input_callback: osMessageQueuePut(event_queue, input, 0, osWaitForever).
\* With room the event is queued; on a full queue the GUI thread blocks.
Dispatch ==
    /\ guiPc = "idle"
    /\ ViewPortEnabled
    /\ sent < MaxEvents
    /\ \E e \in Events :
          /\ IF Len(queue) < QueueSize
                THEN /\ queue' = Append(queue, e)
                     /\ UNCHANGED <<guiPc, pending>>
                ELSE /\ guiPc' = "blocked"
                     /\ pending' = e
                     /\ UNCHANGED queue
          /\ sent' = sent + 1
          /\ backPressed' = (backPressed \/ e = "back_press")
    /\ UNCHANGED <<appPc, workerVars>>

\* The blocked put completes once the main loop has taken an event.
PutResumes ==
    /\ guiPc = "blocked"
    /\ Len(queue) < QueueSize
    /\ queue' = Append(queue, pending)
    /\ guiPc' = "idle"
    /\ pending' = "none"
    /\ UNCHANGED <<appPc, sent, backPressed, workerVars>>

-----------------------------------------------------------------------------
(* The app's main thread.                                                  *)

\* sensor_worker_start.
Start ==
    /\ appPc = "alloc"
    /\ Worker!StartWorker
    /\ appPc' = "loop"
    /\ UNCHANGED <<queue, inputVars>>

\* One round of the event loop that receives an event: a Back press ends
\* the loop and sensor_worker_stop clears is_started; anything else is
\* ignored.  A round whose get times out changes nothing (view_port_update
\* only schedules a redraw).
GetEvent ==
    /\ appPc = "loop"
    /\ queue # <<>>
    /\ queue' = Tail(queue)
    /\ IF Head(queue) = "back_press"
          THEN /\ appPc' = "joining"
               /\ Worker!RequestStop
          ELSE /\ UNCHANGED <<appPc, workerVars>>
    /\ UNCHANGED inputVars

\* furi_thread_join returns once the worker thread has exited.
Join ==
    /\ appPc = "joining"
    /\ state = "Stopped"
    /\ appPc' = "stopped"
    /\ UNCHANGED <<queue, inputVars, workerVars>>

\* The light-off, then co2_monitor_free's view_port_enabled_set(false),
\* gui_remove_view_port and view_port_free: no more input is delivered.
\* gui_remove_view_port waits for the GUI lock, which the GUI thread holds
\* for as long as it is blocked in input_callback.
DisableViewPort ==
    /\ appPc = "stopped"
    /\ guiPc = "idle"
    /\ appPc' = "disabled"
    /\ UNCHANGED <<queue, inputVars, workerVars>>

\* osMessageQueueDelete(event_queue), the mutex and the cell are freed and
\* the app returns.
DeleteQueue ==
    /\ appPc = "disabled"
    /\ appPc' = "freed"
    /\ UNCHANGED <<queue, inputVars, workerVars>>

\* The worker's own steps (AcquisitionWorker, start and stop excepted).
WorkerStep ==
    /\ Worker!PublishSample \/ Worker!SampleFails \/ Worker!Progress
    /\ UNCHANGED <<queue, appPc, inputVars>>

\* The app has returned; a GUI thread blocked in the put stays blocked.
Finished ==
    /\ appPc = "freed"
    /\ UNCHANGED vars

Next ==
    \/ Dispatch \/ PutResumes
    \/ Start \/ GetEvent \/ Join \/ DisableViewPort \/ DeleteQueue
    \/ WorkerStep
    \/ Finished

\* The main thread, the worker and a GUI thread whose put has room are run
\* by the RTOS; the user's input (Dispatch) is not promised.
Spec ==
    /\ Init /\ [][Next]_vars
    /\ WF_vars(PutResumes) /\ WF_vars(Start) /\ WF_vars(GetEvent)
    /\ WF_vars(Join) /\ WF_vars(DisableViewPort) /\ WF_vars(DeleteQueue)
    /\ WF_vars(WorkerStep)

-----------------------------------------------------------------------------
(* A Back press is never lost: once the user has pressed Back, the main    *)
(* loop ends, however many events fill the queue around it.  This is what *)
(* the osWaitForever in input_callback buys.                               *)
BackNeverLost == backPressed ~> appPc # "loop"

=============================================================================

--------------------------- MODULE WorkerProcess ---------------------------
(***************************************************************************)
(* The worker process around the outbox publisher: run_worker of main.py,  *)
(* from its connection to Temporal over the first sweep and readiness to   *)
(* the end of the process, by a signal, by a failure of the publisher or   *)
(* by a kill, and its next start by the container runtime.  A worker       *)
(* without an enabled publisher only waits for the signal; it is left out. *)
(*                                                                         *)
(* The sweeps themselves are those of OutboxDelivery; here they run in a   *)
(* thread that the process starts, watches and waits for.                  *)
(***************************************************************************)
EXTENDS OutboxDelivery

VARIABLES phase,   \* how far run_worker has come
          ready,   \* health.ready
          stop,    \* stop_event is set
          task,    \* publisher_task
          result   \* how run_worker ends, as far as it is settled

process == <<phase, ready, stop, task, result>>
allvars == <<vars, process>>

Phase  == {"connecting", "probing", "sweeping", "running", "draining", "exited"}
Task   == {"none", "running", "returned", "raised"}
Result == {"none", "ok", "error"}

ProcessInit ==
    /\ Init
    /\ phase  = [w \in Worker |-> "exited"]
    /\ ready  = [w \in Worker |-> FALSE]
    /\ stop   = [w \in Worker |-> FALSE]
    /\ task   = [w \in Worker |-> "none"]
    /\ result = [w \in Worker |-> "none"]

-----------------------------------------------------------------------------

(* The container runtime starts the process; nothing of an earlier one is  *)
(* left but the committed rows.                                            *)
Start(w) ==
    /\ phase[w] = "exited"
    /\ phase'  = [phase EXCEPT ![w] = "connecting"]
    /\ result' = [result EXCEPT ![w] = "none"]
    /\ IF pc[w] = "down" THEN Restart(w) ELSE UNCHANGED vars
    /\ UNCHANGED <<ready, stop, task>>

(* Client.connect and get_system_info. *)
Connect(w) ==
    /\ phase[w] = "connecting"
    /\ phase' = [phase EXCEPT ![w] = "probing"]
    /\ UNCHANGED <<vars, ready, stop, task, result>>

(* The probe workflow has run, and the first sweep begins.  The stop event *)
(* is not looked at before the process is ready.                           *)
Probe(w) ==
    /\ phase[w] = "probing"
    /\ phase' = [phase EXCEPT ![w] = "sweeping"]
    /\ BeginSweep(w)
    /\ UNCHANGED <<ready, stop, task, result>>

(* Temporal cannot be reached, or the probe fails or times out. *)
StartupFails(w) ==
    /\ phase[w] \in {"connecting", "probing"}
    /\ phase'  = [phase EXCEPT ![w] = "draining"]
    /\ stop'   = [stop EXCEPT ![w] = TRUE]
    /\ result' = [result EXCEPT ![w] = "error"]
    /\ UNCHANGED <<vars, ready, task>>

(* The first sweep has returned: publisher_task is created. *)
BecomeReady(w) ==
    /\ phase[w] = "sweeping" /\ pc[w] = "idle"
    /\ phase' = [phase EXCEPT ![w] = "running"]
    /\ ready' = [ready EXCEPT ![w] = TRUE]
    /\ task'  = [task EXCEPT ![w] = "running"]
    /\ UNCHANGED <<vars, stop, result>>

(* Mutant: the loop does not look at the stop event. *)
NextSweepAlways(w) ==
    /\ task[w] = "running"
    /\ BeginSweep(w)
    /\ UNCHANGED process

(* run_until_stopped: another sweep unless the stop event is set. *)
NextSweep(w) ==
    /\ task[w] = "running" /\ ~stop[w]
    /\ BeginSweep(w)
    /\ UNCHANGED process

TaskReturns(w) ==
    /\ task[w] = "running" /\ pc[w] = "idle" /\ stop[w]
    /\ task' = [task EXCEPT ![w] = "returned"]
    /\ UNCHANGED <<vars, phase, ready, stop, result>>

(* The steps of a sweep that has begun. *)
Sweep(w) ==
    /\ \/ LeaseAvailable(w) \/ CommitLease(w)
       \/ \E o \in Event : HandOff(w, o) \/ HandOffFails(w, o)
       \/ MarkPublished(w) \/ ScheduleRetry(w) \/ EndSweep(w)
    /\ UNCHANGED process

(* A database error outside the transport leaves publish_once.  In the     *)
(* first sweep it leaves run_worker, later it ends publisher_task.         *)
SweepRaises(w) ==
    /\ pc[w] \notin {"idle", "down"}
    /\ Crash(w)
    /\ IF phase[w] = "sweeping"
       THEN /\ phase'  = [phase EXCEPT ![w] = "draining"]
            /\ stop'   = [stop EXCEPT ![w] = TRUE]
            /\ result' = [result EXCEPT ![w] = "error"]
            /\ UNCHANGED task
       ELSE /\ task' = [task EXCEPT ![w] = "raised"]
            /\ UNCHANGED <<phase, stop, result>>
    /\ UNCHANGED ready

(* SIGTERM or SIGINT. *)
Signal(w) ==
    /\ phase[w] # "exited"
    /\ stop' = [stop EXCEPT ![w] = TRUE]
    /\ UNCHANGED <<vars, phase, ready, task, result>>

(* Mutant: only the signal is waited for. *)
ObserveStopOnly(w) ==
    /\ phase[w] = "running"
    /\ stop[w]
    /\ phase'  = [phase EXCEPT ![w] = "draining"]
    /\ ready'  = [ready EXCEPT ![w] = FALSE]
    /\ result' = [result EXCEPT ![w] = IF task[w] = "raised" THEN "error" ELSE "ok"]
    /\ UNCHANGED <<vars, stop, task>>

(* _wait_for_stop_or_publisher_failure returns or raises: what counts is   *)
(* which of the two is done when the waiter runs again.                    *)
Observe(w) ==
    /\ phase[w] = "running"
    /\ stop[w] \/ task[w] \in {"returned", "raised"}
    /\ phase'  = [phase EXCEPT ![w] = "draining"]
    /\ ready'  = [ready EXCEPT ![w] = FALSE]
    /\ stop'   = [stop EXCEPT ![w] = TRUE]
    /\ result' = [result EXCEPT
                    ![w] = IF \/ task[w] = "raised"
                              \/ task[w] = "returned" /\ ~stop[w]
                           THEN "error" ELSE "ok"]
    /\ UNCHANGED <<vars, task>>

(* Mutant: the process does not wait for its publisher. *)
FinishAtOnce(w) ==
    /\ phase[w] = "draining"
    /\ phase' = [phase EXCEPT ![w] = "exited"]
    /\ stop'  = [stop EXCEPT ![w] = FALSE]
    /\ task'  = [task EXCEPT ![w] = "none"]
    /\ UNCHANGED <<vars, ready, result>>

(* The Temporal worker has drained and publisher_task has ended; what it   *)
(* raised since the stop is suppressed.                                    *)
Finish(w) ==
    /\ phase[w] = "draining"
    /\ task[w] # "running"
    /\ phase' = [phase EXCEPT ![w] = "exited"]
    /\ stop'  = [stop EXCEPT ![w] = FALSE]
    /\ task'  = [task EXCEPT ![w] = "none"]
    /\ UNCHANGED <<vars, ready, result>>

(* SIGKILL, or the end of the container's grace period. *)
Kill(w) ==
    /\ phase[w] # "exited"
    /\ Crash(w)
    /\ phase'  = [phase EXCEPT ![w] = "exited"]
    /\ ready'  = [ready EXCEPT ![w] = FALSE]
    /\ stop'   = [stop EXCEPT ![w] = FALSE]
    /\ task'   = [task EXCEPT ![w] = "none"]
    /\ result' = [result EXCEPT ![w] = "error"]

(* run_worker itself, and the publisher beside it. *)
Main(w)      == Connect(w) \/ Probe(w) \/ BecomeReady(w) \/ Observe(w) \/ Finish(w)
Publisher(w) == NextSweep(w) \/ TaskReturns(w) \/ Sweep(w)

ProcessNext ==
    \/ \E w \in Worker : \/ Start(w) \/ Main(w) \/ Publisher(w)
                         \/ StartupFails(w) \/ SweepRaises(w)
                         \/ Signal(w) \/ Kill(w)
    \/ /\ Tick \/ \E o \in Event : Enqueue(o)
       /\ UNCHANGED process

ProcessSpec == ProcessInit /\ [][ProcessNext]_allvars

(* Processes are started again and keep running, and time passes.  Start-  *)
(* up does not fail for ever, and the transport and the speed of the       *)
(* publisher are as in OutboxDelivery.  Signals, kills and failures may    *)
(* come at any time.                                                       *)
ProcessFairness ==
    /\ WF_allvars(Tick /\ UNCHANGED process)
    /\ \A w \in Worker :
        /\ WF_allvars(Start(w)) /\ WF_allvars(Main(w)) /\ WF_allvars(Publisher(w))
        /\ SF_allvars(Connect(w)) /\ SF_allvars(Probe(w))
        /\ \A o \in Event :
              SF_allvars(HandOff(w, o) /\ InTime(w, o) /\ UNCHANGED process)
        /\ SF_allvars(/\ MarkPublished(w) /\ Owns(w, current[w])
                      /\ UNCHANGED process)

ProcessFairSpec == ProcessSpec /\ ProcessFairness

-----------------------------------------------------------------------------
(* Properties *)

(* The types of the publisher and of the process around it. *)
ProcessTypeOK ==
    /\ TypeOK
    /\ phase  \in [Worker -> Phase]
    /\ ready  \in [Worker -> BOOLEAN]
    /\ stop   \in [Worker -> BOOLEAN]
    /\ task   \in [Worker -> Task]
    /\ result \in [Worker -> Result]

(* No sweep outlives its process: a process that has exited by itself has  *)
(* waited for the thread that hands events off, and at most one sweep runs *)
(* in a process, the first one before the loop (run_worker's finally).     *)
NoOrphanSweep ==
    \A w \in Worker :
        /\ phase[w] = "exited" => pc[w] \in {"idle", "down"}
        /\ pc[w] \notin {"idle", "down"} => phase[w] = "sweeping" \/ task[w] = "running"

(* A publisher that fails on its own takes the process with it and the     *)
(* exit says so, also when a signal arrives before the failure is noticed  *)
(* (_wait_for_stop_or_publisher_failure: "an unexpected exit cannot be     *)
(* hidden").                                                               *)
FailureSurfaces ==
    \A w \in Worker :
        (phase[w] = "running" /\ task[w] = "raised")
            ~> (phase[w] = "exited" /\ result[w] = "error")

(* A signal ends the process, in whatever phase of start-up, sweep or      *)
(* failure it arrives.                                                     *)
StopHonoured == \A w \in Worker : stop[w] ~> phase[w] = "exited"
=============================================================================

------------------------------ MODULE RocketJob ------------------------------
(***************************************************************************)
(* One core of the rocket NPU driver (rocket_job.c with the v15 series on  *)
(* top): the DRM scheduler's run_job, the completion interrupt with its    *)
(* hard and threaded halves, the timeout worker that resets the core, and  *)
(* runtime suspend.                                                        *)
(*                                                                         *)
(* Abstractions:                                                           *)
(*  - a job is a number and a count of tasks; the credit limit is one job; *)
(*  - INTERRUPT_MASK and INTERRUPT_RAW_STATUS are one bit each, the two    *)
(*    DPU bits; OPERATION_ENABLE is folded into hwJob, the job whose task  *)
(*    the core is executing;                                               *)
(*  - the DRM scheduler, the IOMMU layer, runtime PM and the interrupt     *)
(*    core are external and modelled from how the driver uses them;        *)
(*  - system suspend and unbinding the core are not here.                  *)
(***************************************************************************)
EXTENDS Naturals

CONSTANTS
  NumJobs,      \* jobs ever submitted; bounds the model
  Tasks         \* tasks of each job

Jobs  == 1 .. NumJobs
NoJob == 0

ASSUME RocketConstantsOK ==
  /\ NumJobs \in Nat
  /\ Tasks \in [Jobs -> Nat \ {0}]

VARIABLES
  \* the DRM scheduler
  status,      \* status[j]: "new", "pending" (holds the credit), "detached"
               \* (drm_sched_stop took its callback away), "done",
               \* "failed" (run_job returned an error), "cancelled"
  listed,      \* jobs on the scheduler's pending_list
  stopped,     \* between drm_sched_stop() and drm_sched_start()
  \* struct rocket_core
  inFlight,    \* core->in_flight_job
  next,        \* next[j]: job->next_task_idx
  pending,     \* core->reset.pending
  lock,        \* holder of job_lock across two steps: "none", "run", "thread"
  attached,    \* a domain other than the default one is on the IOMMU group
  pm,          \* runtime PM usage count
  powered,     \* runtime-resumed
  \* the NPU core
  hwJob,       \* job whose task is executing, NoJob when idle
  mask, raw,   \* INTERRUPT_MASK, INTERRUPT_RAW_STATUS
  fault,       \* the IOMMU asserts the shared interrupt line
  faulted,     \* it has done so (history)
  ran,         \* ran[j]: tasks of j executed to the end (history)
  serror,      \* a register was touched with the domain down (history)
  \* the actors
  rpc, rjob,   \* run_job: step and job
  hpc,         \* hard interrupt handler
  wake, tpc,   \* threaded handler: woken once more, step
  wpc          \* timeout worker

schedVars == <<status, listed, stopped>>
coreVars  == <<inFlight, next, pending, lock, attached>>
pmVars    == <<pm, powered>>
faultVars == <<fault, faulted>>
hwVars    == <<hwJob, mask, raw, faultVars, ran>>
irqVars   == <<hpc, wake, tpc>>
runVars   == <<rpc, rjob>>
vars == <<schedVars, coreVars, pmVars, hwVars, serror, irqVars, runVars, wpc>>

Ended == {"done", "failed", "cancelled"}

WorkerSteps == {"idle", "pause", "stop", "mask", "sync", "release", "reset",
                "unpend", "start"}

TypeOK ==
  /\ status \in [Jobs -> {"new", "pending", "detached"} \cup Ended]
  /\ listed \in SUBSET Jobs
  /\ stopped \in BOOLEAN
  /\ inFlight \in Jobs \cup {NoJob}
  /\ next \in [Jobs -> Nat] /\ \A j \in Jobs : next[j] <= Tasks[j]
  /\ pending \in BOOLEAN /\ lock \in {"none", "run", "thread"}
  /\ attached \in BOOLEAN
  /\ pm \in Nat /\ powered \in BOOLEAN
  /\ hwJob \in Jobs \cup {NoJob}
  /\ mask \in BOOLEAN /\ raw \in BOOLEAN
  /\ fault \in BOOLEAN /\ faulted \in BOOLEAN
  /\ ran \in [Jobs -> Nat] /\ serror \in BOOLEAN
  /\ rpc \in {"idle", "resume", "attach", "submit", "arm"}
  /\ rjob \in Jobs \cup {NoJob}
  /\ hpc \in {"idle", "mask"} /\ wake \in BOOLEAN
  /\ tpc \in {"idle", "lock", "arm", "put"}
  /\ wpc \in WorkerSteps

Init ==
  /\ status = [j \in Jobs |-> "new"] /\ listed = {} /\ stopped = FALSE
  /\ inFlight = NoJob /\ next = [j \in Jobs |-> 0]
  /\ pending = FALSE /\ lock = "none" /\ attached = FALSE
  /\ pm = 0 /\ powered \in BOOLEAN
  /\ hwJob = NoJob /\ mask = FALSE /\ raw = FALSE
  /\ fault = FALSE /\ faulted = FALSE
  /\ ran = [j \in Jobs |-> 0] /\ serror = FALSE
  /\ rpc = "idle" /\ rjob = NoJob
  /\ hpc = "idle" /\ wake = FALSE /\ tpc = "idle"
  /\ wpc = "idle"

(* Every register access of the driver with the domain down is an SError. *)
Touch == serror' = (serror \/ ~powered)

(* rocket_job_is_idle(): no job holds a scheduler credit. *)
Idle == \A j \in Jobs : status[j] # "pending"

-----------------------------------------------------------------------------
(* rocket_job_run(), called by the scheduler's work item *)

RunJob(j) ==
  /\ ~stopped /\ rpc = "idle" /\ Idle /\ status[j] = "new"
  /\ status' = [status EXCEPT ![j] = "pending"]
  /\ listed' = listed \cup {j}
  /\ rpc' = "resume" /\ rjob' = j
  /\ UNCHANGED <<stopped, coreVars, pmVars, hwVars, serror, irqVars, wpc>>

(* The error returns: ERR_PTR(ret) makes the scheduler end the job. *)
RunFails ==
  /\ status' = [status EXCEPT ![rjob] = "failed"]
  /\ rpc' = "idle" /\ rjob' = NoJob

RunResume ==
  /\ rpc = "resume"
  /\ \/ /\ pm' = pm + 1 /\ powered' = TRUE
        /\ rpc' = "attach"
        /\ UNCHANGED <<status, rjob>>
     \/ RunFails /\ UNCHANGED pmVars
  /\ UNCHANGED <<listed, stopped, coreVars, hwVars, serror, irqVars, wpc>>

(* iommu_attach_group() refuses a group that already has a domain. *)
RunAttach ==
  /\ rpc = "attach"
  /\ \/ /\ ~attached
        /\ attached' = TRUE /\ rpc' = "submit"
        /\ UNCHANGED <<status, rjob, pm>>
     \/ RunFails /\ pm' = pm - 1 /\ UNCHANGED attached
  /\ UNCHANGED <<listed, stopped, inFlight, next, pending, lock, powered,
                 hwVars, serror, irqVars, wpc>>

(* Under job_lock: publish the job, then hw_submit() looks at reset.pending
   and leaves without touching the core when a reset is on its way. *)
RunSubmit ==
  /\ rpc = "submit" /\ lock = "none"
  /\ inFlight' = rjob
  /\ IF pending THEN rpc' = "idle" /\ rjob' = NoJob /\ UNCHANGED lock
                ELSE rpc' = "arm" /\ lock' = "run" /\ UNCHANGED rjob
  /\ UNCHANGED <<schedVars, next, pending, attached, pmVars, hwVars, serror,
                 irqVars, wpc>>

(* The register writes of rocket_job_hw_submit() past its check: arm the
   interrupt, clear the raw status, start the task. *)
HwSubmit(j) ==
  /\ next' = [next EXCEPT ![j] = @ + 1]
  /\ mask' = TRUE /\ raw' = FALSE /\ hwJob' = j
  /\ Touch

RunArm ==
  /\ rpc = "arm"
  /\ HwSubmit(rjob)
  /\ lock' = "none" /\ rpc' = "idle" /\ rjob' = NoJob
  /\ UNCHANGED <<schedVars, inFlight, pending, attached, pmVars, faultVars,
                 ran, irqVars, wpc>>

-----------------------------------------------------------------------------
(* The core and the IOMMU on its interrupt line *)

TaskEnds ==
  /\ hwJob # NoJob
  /\ ran' = [ran EXCEPT ![hwJob] = @ + 1]
  /\ raw' = TRUE /\ hwJob' = NoJob
  /\ UNCHANGED <<schedVars, coreVars, pmVars, mask, faultVars, serror, irqVars,
                 runVars, wpc>>

FaultRaised ==
  /\ ~fault /\ hwJob # NoJob
  /\ fault' = TRUE /\ faulted' = TRUE
  /\ UNCHANGED <<schedVars, coreVars, pmVars, hwJob, mask, raw, ran, serror,
                 irqVars, runVars, wpc>>

(* The IOMMU driver's own handler runs before or after the NPU's. *)
FaultServed ==
  /\ fault
  /\ fault' = FALSE
  /\ UNCHANGED <<schedVars, coreVars, pmVars, hwJob, mask, raw, faulted, ran,
                 serror, irqVars, runVars, wpc>>

-----------------------------------------------------------------------------
(* The completion interrupt *)

(* rocket_job_irq_handler(): decides on the raw status alone. *)
HardRead ==
  /\ (mask /\ raw) \/ fault
  /\ hpc = "idle"
  /\ hpc' = IF raw THEN "mask" ELSE "idle"
  /\ Touch
  /\ UNCHANGED <<schedVars, coreVars, pmVars, hwVars, wake, tpc, runVars, wpc>>

HardMask ==
  /\ hpc = "mask"
  /\ mask' = FALSE /\ wake' = TRUE /\ hpc' = "idle"
  /\ Touch
  /\ UNCHANGED <<schedVars, coreVars, pmVars, hwJob, raw, faultVars, ran, tpc,
                 runVars, wpc>>

ThreadEnter ==
  /\ tpc = "idle" /\ wake
  /\ tpc' = "lock" /\ wake' = FALSE
  /\ UNCHANGED <<schedVars, coreVars, pmVars, hwVars, serror, hpc, runVars,
                 wpc>>

(* dma_fence_signal(): the scheduler ends the job, unless drm_sched_stop()
   has already taken its callback off the fence. *)
Signal(j) ==
  status' = [status EXCEPT ![j] = IF @ = "pending" THEN "done" ELSE @]

(* rocket_job_next_locked(): start the next task or retire the job. *)
NextLocked ==
  \/ /\ inFlight = NoJob
     /\ tpc' = "idle" /\ UNCHANGED <<status, lock, attached>>
  \/ /\ inFlight # NoJob /\ next[inFlight] < Tasks[inFlight]
     /\ IF pending THEN tpc' = "idle" /\ UNCHANGED lock
                   ELSE tpc' = "arm" /\ lock' = "thread"
     /\ UNCHANGED <<status, attached>>
  \/ /\ inFlight # NoJob /\ next[inFlight] = Tasks[inFlight]
     /\ attached' = FALSE
     /\ Signal(inFlight)
     /\ tpc' = "put" /\ lock' = "thread"

(* rocket_job_handle_irq(): stop the block and clear it, under job_lock. *)
ThreadStop ==
  /\ tpc = "lock" /\ lock = "none"
  /\ hwJob' = NoJob /\ raw' = FALSE
  /\ Touch
  /\ NextLocked
  /\ UNCHANGED <<listed, stopped, inFlight, next, pending, pmVars, mask,
                 faultVars, ran, hpc, wake, runVars, wpc>>

ThreadArm ==
  /\ tpc = "arm"
  /\ HwSubmit(inFlight)
  /\ lock' = "none" /\ tpc' = "idle"
  /\ UNCHANGED <<schedVars, inFlight, pending, attached, pmVars, faultVars,
                 ran, hpc, wake, runVars, wpc>>

ThreadPut ==
  /\ tpc = "put"
  /\ pm' = pm - 1 /\ inFlight' = NoJob
  /\ lock' = "none" /\ tpc' = "idle"
  /\ UNCHANGED <<schedVars, next, pending, attached, powered, hwVars, serror,
                 hpc, wake, runVars, wpc>>

-----------------------------------------------------------------------------
(* The timeout worker: rocket_job_timedout() and rocket_reset() *)

(* The worker takes the first job of pending_list, which may have ended
   between the expiry of the timer and now. *)
Timedout ==
  /\ wpc = "idle" /\ listed # {}
  /\ pending' = TRUE /\ wpc' = "pause"
  /\ UNCHANGED <<schedVars, inFlight, next, lock, attached, pmVars, hwVars,
                 serror, irqVars, runVars>>

(* drm_sched_stop(): no new run_job, wait for the one that runs, take the
   callback off every fence that has not signalled. *)
SchedPause ==
  /\ wpc = "pause"
  /\ stopped' = TRUE /\ wpc' = "stop"
  /\ UNCHANGED <<status, listed, coreVars, pmVars, hwVars, serror, irqVars,
                 runVars>>

SchedStop ==
  /\ wpc = "stop" /\ rpc = "idle"
  /\ status' = [j \in Jobs |->
                  IF status[j] = "pending" THEN "detached" ELSE status[j]]
  /\ listed' = {j \in listed : status[j] = "pending"}
  /\ wpc' = "mask"
  /\ UNCHANGED <<stopped, coreVars, pmVars, hwVars, serror, irqVars, runVars>>

ResetMaskAlways ==   \* mutant: the write does not ask for an active device
  /\ wpc = "mask" /\ lock = "none"
  /\ mask' = FALSE /\ raw' = FALSE /\ Touch
  /\ wpc' = "sync"
  /\ UNCHANGED <<schedVars, coreVars, pmVars, hwJob, faultVars, ran, irqVars,
                 runVars>>

ResetMaskUnlocked ==   \* mutant: the mask is written without job_lock
  /\ wpc = "mask"
  /\ IF powered THEN mask' = FALSE /\ raw' = FALSE ELSE UNCHANGED <<mask, raw>>
  /\ wpc' = "sync"
  /\ UNCHANGED <<schedVars, coreVars, pmVars, hwJob, faultVars, ran, serror,
                 irqVars, runVars>>

(* Mask and clear under job_lock, only when pm_runtime_get_if_active() is
   positive; the reference it takes is put again at once. *)
ResetMask ==
  /\ wpc = "mask" /\ lock = "none"
  /\ IF powered THEN mask' = FALSE /\ raw' = FALSE ELSE UNCHANGED <<mask, raw>>
  /\ wpc' = "sync"
  /\ UNCHANGED <<schedVars, coreVars, pmVars, hwJob, faultVars, ran, serror,
                 irqVars, runVars>>

ResetSyncSkipped ==   \* mutant: the reset does not wait for the handler
  /\ wpc = "sync"
  /\ wpc' = "release"
  /\ UNCHANGED <<schedVars, coreVars, pmVars, hwVars, serror, irqVars, runVars>>

(* synchronize_irq(): no hard handler runs and no thread is active. *)
ResetSync ==
  /\ wpc = "sync"
  /\ hpc = "idle" /\ tpc = "idle" /\ ~wake
  /\ wpc' = "release"
  /\ UNCHANGED <<schedVars, coreVars, pmVars, hwVars, serror, irqVars, runVars>>

ResetReleaseNoPut ==   \* mutant: the stuck job's reference is not put
  /\ wpc = "release" /\ lock = "none"
  /\ attached' = FALSE /\ inFlight' = NoJob
  /\ wpc' = "reset"
  /\ UNCHANGED <<schedVars, next, pending, lock, pmVars, hwVars, serror,
                 irqVars, runVars>>

ResetReleaseAttached ==   \* mutant: the stuck job's domain stays
  /\ wpc = "release" /\ lock = "none"
  /\ pm' = IF inFlight # NoJob THEN pm - 1 ELSE pm
  /\ inFlight' = NoJob
  /\ wpc' = "reset"
  /\ UNCHANGED <<schedVars, next, pending, lock, attached, powered, hwVars,
                 serror, irqVars, runVars>>

ResetRelease ==
  /\ wpc = "release" /\ lock = "none"
  /\ pm' = IF inFlight # NoJob THEN pm - 1 ELSE pm
  /\ attached' = FALSE /\ inFlight' = NoJob
  /\ wpc' = "reset"
  /\ UNCHANGED <<schedVars, next, pending, lock, powered, hwVars, serror,
                 irqVars, runVars>>

CoreResetForgotten ==   \* mutant: the block is left running
  /\ wpc = "reset"
  /\ wpc' = "unpend"
  /\ UNCHANGED <<schedVars, coreVars, pmVars, hwVars, serror, irqVars, runVars>>

(* rocket_core_reset(): the reset lines, no register access. *)
CoreReset ==
  /\ wpc = "reset"
  /\ hwJob' = NoJob /\ raw' = FALSE /\ mask' = FALSE
  /\ wpc' = "unpend"
  /\ UNCHANGED <<schedVars, coreVars, pmVars, faultVars, ran, serror, irqVars,
                 runVars>>

ResetUnpendForgotten ==   \* mutant: reset.pending stays set
  /\ wpc = "unpend"
  /\ wpc' = "start"
  /\ UNCHANGED <<schedVars, coreVars, pmVars, hwVars, serror, irqVars, runVars>>

ResetUnpend ==
  /\ wpc = "unpend"
  /\ pending' = FALSE /\ wpc' = "start"
  /\ UNCHANGED <<schedVars, inFlight, next, lock, attached, pmVars, hwVars,
                 serror, irqVars, runVars>>

SchedStartKeeps ==   \* mutant: the stuck job is left without an answer
  /\ wpc = "start"
  /\ stopped' = FALSE /\ wpc' = "idle"
  /\ UNCHANGED <<status, listed, coreVars, pmVars, hwVars, serror, irqVars,
                 runVars>>

(* drm_sched_start(): a pending job without a parent fence is cancelled. *)
SchedStart ==
  /\ wpc = "start"
  /\ stopped' = FALSE /\ wpc' = "idle"
  /\ status' = [j \in Jobs |->
                  IF status[j] = "detached" THEN "cancelled" ELSE status[j]]
  /\ UNCHANGED <<listed, coreVars, pmVars, hwVars, serror, irqVars, runVars>>

-----------------------------------------------------------------------------
(* The scheduler frees an ended job. *)
FreeJob(j) ==
  /\ ~stopped /\ j \in listed /\ status[j] \in Ended
  /\ listed' = listed \ {j}
  /\ UNCHANGED <<status, stopped, coreVars, pmVars, hwVars, serror, irqVars,
                 runVars, wpc>>

(* rocket_device_runtime_suspend(): -EBUSY while a credit is held. *)
RuntimeSuspend ==
  /\ powered /\ pm = 0 /\ Idle
  /\ powered' = FALSE
  /\ UNCHANGED <<schedVars, coreVars, pm, hwVars, serror, irqVars, runVars,
                 wpc>>

Run    == RunResume \/ RunAttach \/ RunSubmit \/ RunArm
Irq    == HardRead \/ HardMask
Thread == ThreadEnter \/ ThreadStop \/ ThreadArm \/ ThreadPut
Reset  == \/ SchedPause \/ SchedStop \/ ResetMask \/ ResetSync \/ ResetRelease
          \/ CoreReset \/ ResetUnpend \/ SchedStart

Next ==
  \/ \E j \in Jobs : RunJob(j) \/ FreeJob(j)
  \/ Run \/ Irq \/ Thread \/ Timedout \/ Reset \/ RuntimeSuspend
  \/ TaskEnds \/ FaultRaised \/ FaultServed

Spec == Init /\ [][Next]_vars

(* The scheduler's workers, the interrupt and its thread keep running and
   the job timer expires; the core owes nothing: a task may hang for ever. *)
FairSpec ==
  /\ Spec
  /\ WF_vars(Run) /\ WF_vars(Irq) /\ WF_vars(Thread) /\ WF_vars(Reset)
  /\ WF_vars(Timedout) /\ WF_vars(\E j \in Jobs : RunJob(j))
  /\ WF_vars(\E j \in Jobs : FreeJob(j))

-----------------------------------------------------------------------------
(* Properties *)

(* The properties with ~faulted hold until the IOMMU reports its first fault:
   its line is the NPU's, and the hard handler looks at the raw status only. *)

(* A job reported done has had every one of its tasks executed: a late or
   repeated interrupt never retires somebody else's work. *)
DoneMeansRan ==
  ~faulted => \A j \in Jobs : status[j] = "done" => ran[j] = Tasks[j]

(* No register access meets a suspended core, wherever the autosuspend, the
   threaded handler and the reset meet. *)
NoSError == ~faulted => ~serror

(* The core never executes a task of a job whose end user space has seen,
   whose buffers may be gone. *)
NoRunAfterEnd == hwJob # NoJob => status[hwJob] \in {"pending", "detached"}

(* Whoever is about to attach finds the group without a domain, so a reset
   never makes the next job fail with -EBUSY. *)
DomainFree == rpc = "attach" => ~attached

(* One runtime PM reference per job between its resume and its retirement,
   whichever of the thread, the error path and the reset retires it. *)
PmBalanced ==
  pm = (IF rpc \in {"attach", "submit"} THEN 1 ELSE 0)
       + (IF inFlight # NoJob THEN 1 ELSE 0)

(* "No handler is running now": between synchronize_irq() and the core reset
   the threaded handler neither runs nor is woken. *)
QuietAfterSync ==
  ~faulted /\ wpc \in {"release", "reset"} => tpc = "idle" /\ ~wake

(* The zero the threaded handler writes to OPERATION_ENABLE never stops a
   task that is executing, as long as the IOMMU has reported no fault. *)
NoTaskStopped ==
  [][~faulted /\ tpc = "lock" /\ tpc' # "lock" => hwJob = NoJob]_vars

(* The same without a condition, as rocket_job_handle_irq() says of its lock:
   "or a late zero could stop a task that has only just started". *)
NeverStopsATask ==
  [][tpc = "lock" /\ tpc' # "lock" => hwJob = NoJob]_vars

(* A reset that has begun ends, and hw_submit() stops refusing work. *)
ResetEnds == pending ~> ~pending

(* Every job the scheduler has started comes back to user space, also when
   the core hangs. *)
JobsEnd == \A j \in Jobs : status[j] = "pending" ~> status[j] \in Ended
=============================================================================

------------------------------ MODULE RkvencJob ------------------------------
(***************************************************************************)
(* The job machinery of the VEPU510 H.264 encoder driver (rkvenc.c): one   *)
(* encoder core, several open contexts, and the five actors that race over *)
(* a frame: device_run, the hard interrupt handler, the interrupt thread,  *)
(* the watchdog work and streamoff/remove.                                 *)
(*                                                                         *)
(* Abstractions:                                                           *)
(*  - a frame is a number; frames of one context are queued in that order, *)
(*    a frame stands for its source and its destination buffer;            *)
(*  - INT_STA is a set of three signals: "slice" (vslc_done and the other  *)
(*    harmless bits), "done" (enc_done, bit 0), "err" (any bit of          *)
(*    RKVENC_INT_ERROR_MASK); the slice-length FIFO is empty, holds slices *)
(*    or holds the last one;                                               *)
(*  - the v4l2-mem2mem core, runtime PM and delayed work are external and  *)
(*    modelled from how rkvenc.c calls them;                               *)
(*  - of remove() only its first step, cancelling the watchdog, is here.   *)
(***************************************************************************)
EXTENDS Naturals

CONSTANTS
  Ctxs,        \* open file handles (struct rkvenc_ctx)
  NoCtx,       \* the NULL context
  NumJobs,     \* frames ever submitted; bounds the model
  Owner,       \* the context each frame belongs to
  Expiry,      \* when the 800 ms watchdog may expire: at "any" time, as in
               \* the code; once device_run() has "started" the core; or only
               \* when the core has "hung" and no interrupt is being handled
  LateDone     \* TRUE: the core may raise enc_done after the last slice

Jobs  == 1 .. NumJobs
NoJob == 0

ASSUME ConstantsOK ==
  /\ NoCtx \notin Ctxs
  /\ NumJobs \in Nat
  /\ Owner \in [Jobs -> Ctxs]
  /\ Expiry \in {"any", "started", "hung"}
  /\ LateDone \in BOOLEAN

Signals   == {"slice", "done", "err"}
Finishers == {"thread", "watchdog"}
Outcomes  == {"done", "error"}

VARIABLES
  \* v4l2-mem2mem: what user space has queued and which context runs
  job,         \* job[j]: "new", "queued", "done" or "error"
  running,     \* m2m_dev->curr_ctx
  streaming,   \* contexts between start_streaming and stop_streaming, which
               \* are the contexts that own reconstruction buffers
  \* struct rkvenc_dev
  curCtx,      \* dev->cur_ctx
  irqStatus,   \* dev->irq_status
  armed,       \* watchdog_work is pending
  pm,          \* runtime PM usage count
  clk,         \* clk_bulk_enable() count taken by jobs
  powered,     \* runtime-resumed: power domain on, clocks prepared
  removed,     \* remove() has cancelled the watchdog
  \* the encoder core
  hwJob,       \* frame the core is working on, NoJob when idle
  wedged,      \* the core stopped on an error and waits for a reset
  intSta,      \* raised bits of INT_STA
  fifo,        \* slice-length FIFO: "empty", "slices", "last"
  late,        \* an enc_done of the finished frame is still to come
  masked,      \* INT_MASK written 0x3ff by the soft reset
  encoded,     \* frames the core has written completely (history)
  \* the actors
  rpc,         \* rpc[j]: where device_run() for frame j is
  hpc, hsta,   \* hard interrupt handler and its local "status"
  pc, fctx, fst, \* interrupt thread and watchdog: step, "ctx", "state"
  strayed      \* a job has met what was not meant for it (history): it was
               \* claimed with an interrupt of an earlier one outstanding, or
               \* its watchdog expired before it was started

m2mVars == <<job, running, streaming>>
pwrVars == <<pm, clk, powered>>
hwVars  == <<hwJob, wedged, intSta, fifo, late, masked, encoded>>
irqVars == <<hpc, hsta>>
finVars == <<pc, fctx, fst>>
vars == <<m2mVars, curCtx, irqStatus, armed, pwrVars, removed, hwVars, rpc,
          irqVars, finVars, strayed>>

RunSteps    == {"idle", "resume", "clock", "claim", "clear", "arm", "kick",
                "returned"}
FinishSteps == {"idle", "woken", "loaded", "owned", "fired", "reset", "done",
                "detach", "m2m"}

TypeOK ==
  /\ job \in [Jobs -> {"new", "queued"} \cup Outcomes]
  /\ running \in Ctxs \cup {NoCtx}
  /\ streaming \in SUBSET Ctxs
  /\ curCtx \in Ctxs \cup {NoCtx}
  /\ irqStatus \in SUBSET Signals
  /\ armed \in BOOLEAN /\ removed \in BOOLEAN
  /\ pm \in Nat /\ clk \in Nat /\ powered \in BOOLEAN
  /\ hwJob \in Jobs \cup {NoJob} /\ wedged \in BOOLEAN
  /\ intSta \in SUBSET Signals
  /\ fifo \in {"empty", "slices", "last"}
  /\ late \in BOOLEAN /\ masked \in BOOLEAN /\ encoded \in SUBSET Jobs
  /\ rpc \in [Jobs -> RunSteps]
  /\ hpc \in {"idle", "taken"} /\ hsta \in SUBSET Signals
  /\ pc \in [Finishers -> FinishSteps]
  /\ fctx \in [Finishers -> Ctxs \cup {NoCtx}]
  /\ fst \in [Finishers -> Outcomes]
  /\ strayed \in BOOLEAN

Init ==
  /\ job = [j \in Jobs |-> "new"]
  /\ running = NoCtx /\ streaming = {}
  /\ curCtx = NoCtx /\ irqStatus = {} /\ armed = FALSE /\ removed = FALSE
  /\ pm = 0 /\ clk = 0 /\ powered \in BOOLEAN  \* autosuspend after probe
  /\ hwJob = NoJob /\ wedged = FALSE /\ intSta = {} /\ fifo = "empty"
  /\ late = FALSE /\ masked = FALSE /\ encoded = {}
  /\ rpc = [j \in Jobs |-> "idle"]
  /\ hpc = "idle" /\ hsta = {}
  /\ pc = [f \in Finishers |-> "idle"]
  /\ fctx = [f \in Finishers |-> NoCtx]
  /\ fst = [f \in Finishers |-> "error"]
  /\ strayed = FALSE

-----------------------------------------------------------------------------
(* v4l2-mem2mem and user space *)

Pending(c) == {j \in Jobs : Owner[j] = c /\ job[j] = "queued"}
HeadOf(c)  == CHOOSE j \in Pending(c) : \A k \in Pending(c) : j <= k

(* v4l2_m2m_buf_done_and_job_finish(): complete the oldest frame of c and,
   when c is the running context, let the next job be scheduled. *)
M2mFinish(c, state) ==
  IF Pending(c) = {}
  THEN UNCHANGED <<job, running>>
  ELSE /\ job' = [job EXCEPT ![HeadOf(c)] = state]
       /\ running' = IF running = c THEN NoCtx ELSE running

(* QBUF of frame j, in order within its context. *)
BufQueue(j) ==
  /\ job[j] = "new"
  /\ \A k \in Jobs : Owner[k] = Owner[j] /\ job[k] = "new" => j <= k
  /\ job' = [job EXCEPT ![j] = "queued"]
  /\ UNCHANGED <<running, streaming, curCtx, irqStatus, armed, pwrVars,
                 removed, hwVars, rpc, irqVars, finVars, strayed>>

(* rkvenc_start_streaming() on the OUTPUT queue: ops->start() allocates the
   reconstruction buffers; when it fails the queued frames go back to user
   space. *)
StartStreaming(c) ==
  /\ c \notin streaming
  /\ \/ streaming' = streaming \cup {c} /\ UNCHANGED job
     \/ /\ job' = [j \in Jobs |-> IF j \in Pending(c) THEN "new" ELSE job[j]]
        /\ UNCHANGED streaming
  /\ UNCHANGED <<running, curCtx, irqStatus, armed, pwrVars, removed, hwVars,
                 rpc, irqVars, finVars, strayed>>

(* streamoff: the mem2mem core waits until c does not run, then
   rkvenc_stop_streaming() returns every queued frame with an error and
   ops->stop() frees the reconstruction buffers. Closing the file does the
   same through v4l2_m2m_ctx_release(). *)
StopStreaming(c) ==
  /\ c \in streaming
  /\ running # c
  /\ job' = [j \in Jobs |-> IF j \in Pending(c) THEN "error" ELSE job[j]]
  /\ streaming' = streaming \ {c}
  /\ UNCHANGED <<running, curCtx, irqStatus, armed, pwrVars, removed, hwVars,
                 rpc, irqVars, finVars, strayed>>

(* v4l2_m2m_try_run(): pick a context with work and call device_run(). *)
Dispatch(c) ==
  /\ running = NoCtx
  /\ c \in streaming
  /\ Pending(c) # {}
  /\ running' = c
  /\ rpc' = [rpc EXCEPT ![HeadOf(c)] = "resume"]
  /\ UNCHANGED <<job, streaming, curCtx, irqStatus, armed, pwrVars, removed,
                 hwVars, irqVars, finVars, strayed>>

-----------------------------------------------------------------------------
(* rkvenc_device_run() *)

RunTo(j, from, to) ==
  /\ rpc[j] = from
  /\ rpc' = [rpc EXCEPT ![j] = to]

PowerUp(j) ==
  /\ RunTo(j, "resume", "clock")
  /\ pm' = pm + 1
  /\ powered' = TRUE
  /\ UNCHANGED <<m2mVars, curCtx, irqStatus, armed, clk, removed, hwVars,
                 irqVars, finVars, strayed>>

PowerUpFails(j) ==
  /\ RunTo(j, "resume", "returned")
  /\ M2mFinish(Owner[j], "error")
  /\ UNCHANGED <<streaming, curCtx, irqStatus, armed, pwrVars, removed,
                 hwVars, irqVars, finVars, strayed>>

ClockOn(j) ==
  /\ RunTo(j, "clock", "claim")
  /\ clk' = clk + 1
  /\ UNCHANGED <<m2mVars, curCtx, irqStatus, armed, pm, powered, removed,
                 hwVars, irqVars, finVars, strayed>>

(* Mutant of ClockOnFails: the error path keeps the power reference. *)
ClockOnFailsNoPut(j) ==
  /\ RunTo(j, "clock", "returned")
  /\ M2mFinish(Owner[j], "error")
  /\ UNCHANGED <<streaming, curCtx, irqStatus, armed, pwrVars, removed,
                 hwVars, irqVars, finVars, strayed>>

ClockOnFails(j) ==
  /\ RunTo(j, "clock", "returned")
  /\ pm' = pm - 1
  /\ M2mFinish(Owner[j], "error")
  /\ UNCHANGED <<streaming, curCtx, irqStatus, armed, clk, powered, removed,
                 hwVars, irqVars, finVars, strayed>>

(* No interrupt raised, none being handled. *)
Quiet == intSta = {} /\ hpc = "idle" /\ pc["thread"] = "idle"

(* dev->cur_ctx = ctx. From here on the job belongs to whoever takes the
   pending watchdog. Nothing waits for the interrupts of the last job. *)
Claim(j) ==
  /\ RunTo(j, "claim", "clear")
  /\ curCtx' = Owner[j]
  /\ strayed' = (strayed \/ ~Quiet \/ late)
  /\ UNCHANGED <<m2mVars, irqStatus, armed, pwrVars, removed, hwVars, irqVars,
                 finVars>>

(* Mutant of ClearStatus: the status of the last job is kept. *)
ClearStatusKept(j) ==
  /\ RunTo(j, "clear", "arm")
  /\ UNCHANGED <<m2mVars, curCtx, irqStatus, armed, pwrVars, removed, hwVars,
                 irqVars, finVars, strayed>>

ClearStatus(j) ==
  /\ RunTo(j, "clear", "arm")
  /\ irqStatus' = {}
  /\ UNCHANGED <<m2mVars, curCtx, armed, pwrVars, removed, hwVars, irqVars,
                 finVars, strayed>>

(* Mutant of ArmWatchdog: the watchdog is not scheduled. *)
ArmWatchdogForgotten(j) ==
  /\ RunTo(j, "arm", "kick")
  /\ UNCHANGED <<m2mVars, curCtx, irqStatus, armed, pwrVars, removed, hwVars,
                 irqVars, finVars, strayed>>

(* schedule_delayed_work(): does nothing when the work is pending. *)
ArmWatchdog(j) ==
  /\ RunTo(j, "arm", "kick")
  /\ armed' = TRUE
  /\ UNCHANGED <<m2mVars, curCtx, irqStatus, pwrVars, removed, hwVars,
                 irqVars, finVars, strayed>>

(* rkvenc_h264_run(): program the core, unmask and start. INT_STA and the
   FIFO are not cleared. A core without power ignores the writes. *)
Kick(j) ==
  /\ RunTo(j, "kick", "returned")
  /\ IF powered
     THEN hwJob' = j /\ wedged' = FALSE /\ masked' = FALSE
     ELSE UNCHANGED <<hwJob, wedged, masked>>
  /\ UNCHANGED <<m2mVars, curCtx, irqStatus, armed, pwrVars, removed, intSta,
                 fifo, late, encoded, irqVars, finVars, strayed>>

-----------------------------------------------------------------------------
(* The encoder core *)

Busy == hwJob # NoJob /\ ~wedged

HwSlice ==
  /\ Busy
  /\ intSta' = intSta \cup {"slice"}
  /\ fifo' = IF fifo = "empty" THEN "slices" ELSE fifo
  /\ UNCHANGED <<m2mVars, curCtx, irqStatus, armed, pwrVars, removed, hwJob,
                 wedged, late, masked, encoded, rpc, irqVars, finVars,
                 strayed>>

(* The frame is complete: the last slice is in the FIFO; enc_done may be
   raised with it, later, or never (the erratum quoted in rkvenc_irq()). *)
HwFinish ==
  /\ Busy
  /\ encoded' = encoded \cup {hwJob}
  /\ hwJob' = NoJob
  /\ fifo' = "last"
  /\ \E now \in SUBSET {"done"} :
       /\ intSta' = intSta \cup {"slice"} \cup now
       /\ late' \in (IF LateDone /\ now = {} THEN BOOLEAN ELSE {FALSE})
  /\ UNCHANGED <<m2mVars, curCtx, irqStatus, armed, pwrVars, removed, wedged,
                 masked, rpc, irqVars, finVars, strayed>>

HwLateDone ==
  /\ late
  /\ late' = FALSE
  /\ intSta' \in {intSta, intSta \cup {"done"}}
  /\ UNCHANGED <<m2mVars, curCtx, irqStatus, armed, pwrVars, removed, hwJob,
                 wedged, fifo, masked, encoded, rpc, irqVars, finVars,
                 strayed>>

(* The core stops with the frame unfinished, and reports an error (its own
   watchdog included) or hangs in silence. *)
HwError ==
  /\ Busy
  /\ wedged' = TRUE
  /\ intSta' \in {intSta, intSta \cup {"err"}}
  /\ UNCHANGED <<m2mVars, curCtx, irqStatus, armed, pwrVars, removed, hwJob,
                 fifo, late, masked, encoded, rpc, irqVars, finVars, strayed>>

(* Reset or power-off: whatever the core was doing is gone. *)
ResetCore ==
  /\ hwJob' = NoJob /\ wedged' = FALSE
  /\ intSta' = {} /\ fifo' = "empty" /\ late' = FALSE
  /\ UNCHANGED encoded

(* The autosuspend delay expires with no user left. *)
RuntimeSuspend ==
  /\ powered /\ pm = 0
  /\ powered' = FALSE
  /\ ResetCore
  /\ UNCHANGED <<m2mVars, curCtx, irqStatus, armed, pm, clk, removed, masked,
                 rpc, irqVars, finVars, strayed>>

-----------------------------------------------------------------------------
(* rkvenc_irq(). The line stays masked until the thread returns
   (IRQF_ONESHOT). *)

(* For the core's own watchdog bit the handler also masks that bit until the
   next run; a core that stopped on it would not raise it again. *)
IrqTake ==
  /\ hpc = "idle" /\ pc["thread"] = "idle"
  /\ intSta # {} /\ ~masked
  /\ hpc' = "taken"
  /\ hsta' = intSta
  /\ intSta' = {}
  /\ UNCHANGED <<m2mVars, curCtx, irqStatus, armed, pwrVars, removed, hwJob,
                 wedged, fifo, late, masked, encoded, rpc, finVars, strayed>>

(* No job: the interrupt is only acknowledged. *)
IrqNoJob ==
  /\ hpc = "taken" /\ curCtx = NoCtx
  /\ hpc' = "idle" /\ hsta' = {}
  /\ UNCHANGED <<m2mVars, curCtx, irqStatus, armed, pwrVars, removed, hwVars,
                 rpc, finVars, strayed>>

(* Drain the FIFO; after the last slice INT_STA is read again, and not
   acknowledged again. *)
IrqJob ==
  LET last   == fifo = "last"
      status == hsta \cup (IF last THEN intSta ELSE {})
  IN
  /\ hpc = "taken" /\ curCtx # NoCtx
  /\ fifo' = "empty"
  /\ irqStatus' = irqStatus \cup status
  /\ pc' = IF last \/ status \cap {"done", "err"} # {}
           THEN [pc EXCEPT !["thread"] = "woken"] ELSE pc
  /\ hpc' = "idle" /\ hsta' = {}
  /\ UNCHANGED <<m2mVars, curCtx, armed, pwrVars, removed, hwJob, wedged,
                 intSta, late, masked, encoded, rpc, fctx, fst, strayed>>

-----------------------------------------------------------------------------
(* rkvenc_irq_thread() and rkvenc_watchdog() *)

StepTo(f, from, to) ==
  /\ pc[f] = from
  /\ pc' = [pc EXCEPT ![f] = to]

ThreadLoad ==
  /\ StepTo("thread", "woken", IF curCtx = NoCtx THEN "idle" ELSE "loaded")
  /\ fctx' = [fctx EXCEPT !["thread"] = curCtx]
  /\ UNCHANGED <<m2mVars, curCtx, irqStatus, armed, pwrVars, removed, hwVars,
                 rpc, irqVars, fst, strayed>>

(* Mutant of ThreadCancel: the result of cancel_delayed_work() is ignored. *)
ThreadCancelIgnored ==
  /\ StepTo("thread", "loaded", "owned")
  /\ armed' = FALSE
  /\ UNCHANGED <<m2mVars, curCtx, irqStatus, pwrVars, removed, hwVars, rpc,
                 irqVars, fctx, fst, strayed>>

(* cancel_delayed_work(): whoever takes the pending work finishes the job. *)
ThreadCancel ==
  /\ StepTo("thread", "loaded", IF armed THEN "owned" ELSE "idle")
  /\ armed' = FALSE
  /\ UNCHANGED <<m2mVars, curCtx, irqStatus, pwrVars, removed, hwVars, rpc,
                 irqVars, fctx, fst, strayed>>

(* Mutant of ThreadJudge: the error bits are not looked at. *)
ThreadJudgeBlind ==
  /\ StepTo("thread", "owned", "done")
  /\ fst' = [fst EXCEPT !["thread"] = "done"]
  /\ UNCHANGED <<m2mVars, curCtx, irqStatus, armed, pwrVars, removed, hwVars,
                 rpc, irqVars, fctx, strayed>>

ThreadJudge ==
  LET failed == "err" \in irqStatus IN
  /\ StepTo("thread", "owned", IF failed THEN "reset" ELSE "done")
  /\ fst' = [fst EXCEPT !["thread"] = IF failed THEN "error" ELSE "done"]
  /\ UNCHANGED <<m2mVars, curCtx, irqStatus, armed, pwrVars, removed, hwVars,
                 rpc, irqVars, fctx, strayed>>

(* rkvenc_soft_reset(): masks every interrupt; safe clear, force clear or
   the full reset all end with an idle core. *)
SoftReset ==
  /\ StepTo("thread", "reset", "done")
  /\ masked' = TRUE
  /\ ResetCore
  /\ UNCHANGED <<m2mVars, curCtx, irqStatus, armed, pwrVars, removed, rpc,
                 irqVars, fctx, fst, strayed>>

WatchdogFire ==
  /\ armed
  /\ Expiry = "hung" => wedged /\ Quiet
  /\ Expiry = "started" => \A j \in Jobs : rpc[j] # "kick"
  /\ armed' = FALSE
  /\ strayed' = (strayed \/ \E j \in Jobs : rpc[j] = "kick")
  /\ StepTo("watchdog", "idle", "fired")
  /\ UNCHANGED <<m2mVars, curCtx, irqStatus, pwrVars, removed, hwVars, rpc,
                 irqVars, fctx, fst>>

WatchdogLoad ==
  /\ StepTo("watchdog", "fired", IF curCtx = NoCtx THEN "idle" ELSE "reset")
  /\ fctx' = [fctx EXCEPT !["watchdog"] = curCtx]
  /\ fst' = [fst EXCEPT !["watchdog"] = "error"]
  /\ UNCHANGED <<m2mVars, curCtx, irqStatus, armed, pwrVars, removed, hwVars,
                 rpc, irqVars, strayed>>

(* Mutant of WatchdogReset: the core is left as it is. *)
WatchdogNoReset ==
  /\ StepTo("watchdog", "reset", "done")
  /\ UNCHANGED <<m2mVars, curCtx, irqStatus, armed, pwrVars, removed, hwVars,
                 rpc, irqVars, fctx, fst, strayed>>

WatchdogReset ==
  /\ StepTo("watchdog", "reset", "done")
  /\ ResetCore
  /\ UNCHANGED <<m2mVars, curCtx, irqStatus, armed, pwrVars, removed, masked,
                 rpc, irqVars, fctx, fst, strayed>>

(* ops->done() and then rkvenc_job_finish(): clocks and power reference. *)
FinishRelease(f) ==
  /\ StepTo(f, "done", "detach")
  /\ clk' = clk - 1
  /\ pm' = pm - 1
  /\ UNCHANGED <<m2mVars, curCtx, irqStatus, armed, powered, removed, hwVars,
                 rpc, irqVars, fctx, fst, strayed>>

(* rkvenc_job_finish(): dev->cur_ctx = NULL. *)
FinishDetach(f) ==
  /\ StepTo(f, "detach", "m2m")
  /\ curCtx' = NoCtx
  /\ UNCHANGED <<m2mVars, irqStatus, armed, pwrVars, removed, hwVars, rpc,
                 irqVars, fctx, fst, strayed>>

(* rkvenc_job_finish(): hand the frame back, and return. *)
FinishM2m(f) ==
  /\ StepTo(f, "m2m", "idle")
  /\ M2mFinish(fctx[f], fst[f])
  /\ UNCHANGED <<streaming, curCtx, irqStatus, armed, pwrVars, removed,
                 hwVars, rpc, irqVars, fctx, fst, strayed>>

(* rkvenc_remove(): cancel_delayed_work_sync() waits for a running watchdog
   and takes a pending one. *)
RemoveCancel ==
  /\ ~removed
  /\ pc["watchdog"] = "idle"
  /\ armed' = FALSE
  /\ removed' = TRUE
  /\ UNCHANGED <<m2mVars, curCtx, irqStatus, pwrVars, hwVars, rpc, irqVars,
                 finVars, strayed>>

-----------------------------------------------------------------------------
User     == \/ \E j \in Jobs : BufQueue(j)
            \/ \E c \in Ctxs : StartStreaming(c) \/ StopStreaming(c)
            \/ RemoveCancel
DeviceRun(j) == \/ PowerUp(j) \/ PowerUpFails(j) \/ ClockOn(j)
                \/ ClockOnFails(j) \/ Claim(j) \/ ClearStatus(j)
                \/ ArmWatchdog(j) \/ Kick(j)
Core     == HwSlice \/ HwFinish \/ HwLateDone \/ HwError \/ RuntimeSuspend
HardIrq  == IrqTake \/ IrqNoJob \/ IrqJob
Finish(f) == FinishRelease(f) \/ FinishDetach(f) \/ FinishM2m(f)
Thread   == ThreadLoad \/ ThreadCancel \/ ThreadJudge \/ SoftReset
Watchdog == WatchdogFire \/ WatchdogLoad \/ WatchdogReset

Next ==
  \/ User
  \/ \E c \in Ctxs : Dispatch(c)
  \/ \E j \in Jobs : DeviceRun(j)
  \/ Core
  \/ HardIrq
  \/ Thread
  \/ Watchdog
  \/ \E f \in Finishers : Finish(f)

Spec == Init /\ [][Next]_vars

(* The kernel runs every runnable actor and the 800 ms timer expires; the
   core and user space owe nothing, except that an enc_done still to come
   either comes or does not. *)
Fairness ==
  /\ \A j \in Jobs : WF_vars(DeviceRun(j))
  /\ WF_vars(HardIrq)
  /\ WF_vars(Thread \/ Finish("thread"))
  /\ WF_vars(Watchdog \/ Finish("watchdog"))
  /\ WF_vars(HwLateDone)

FairSpec == Spec /\ Fairness

-----------------------------------------------------------------------------
(* Properties that hold whatever the timing *)

Claiming(j) == rpc[j] \in {"resume", "clock", "claim"}
Arming(j)   == rpc[j] \in {"clear", "arm"}
Owning(f)   == pc[f] \in {"owned", "fired", "reset", "done", "detach", "m2m"}

(* A frame under way has one owner: device_run() until the watchdog is armed,
   then the pending watchdog, then the actor that took it. Neither the
   interrupt thread and the watchdog, nor either of them and device_run(),
   ever finish the same job twice. *)
OneOwner ==
  /\ \A j, k \in Jobs :
       (Claiming(j) \/ Arming(j)) /\ (Claiming(k) \/ Arming(k)) => j = k
  /\ \A j \in Jobs : Claiming(j) \/ Arming(j) =>
       ~armed /\ \A f \in Finishers : ~Owning(f)
  /\ armed => \A f \in Finishers : ~Owning(f)
  /\ ~(Owning("thread") /\ Owning("watchdog"))

(* dev->cur_ctx is set and its power and clock references are not yet back. *)
JobHeld == curCtx # NoCtx /\ \A f \in Finishers : pc[f] # "detach"

(* The runtime PM count and the clock count are those of the one job under
   way, on every error path of device_run() and whoever finishes the job:
   nothing leaks, nothing is given back twice. *)
PowerBalanced ==
  /\ pm = IF JobHeld \/ \E j \in Jobs : rpc[j] \in {"clock", "claim"}
          THEN 1 ELSE 0
  /\ clk = IF JobHeld \/ \E j \in Jobs : rpc[j] = "claim" THEN 1 ELSE 0

(* "clocks are still enabled here" (rkvenc_soft_reset()): both recovery paths
   and ops->done() touch the registers of a powered, clocked core. *)
FinisherClocked ==
  \A f \in Finishers : pc[f] \in {"reset", "done"} => powered /\ clk = 1

(* Inductive: the three properties above, and what ties the owner of a job to
   cur_ctx and to the mem2mem core. A job under way keeps the mem2mem core
   from starting another; cur_ctx is set from the claim until its owner
   detaches it (or for ever, when remove() took the watchdog). The hard
   handler never runs over its own thread (IRQF_ONESHOT). *)
JobInv ==
  /\ OneOwner
  /\ PowerBalanced
  /\ pm > 0 => powered
  /\ hpc = "taken" => pc["thread"] = "idle"
  /\ running = NoCtx => /\ curCtx = NoCtx /\ ~armed
                        /\ \A j \in Jobs : ~Claiming(j) /\ ~Arming(j)
                        /\ \A f \in Finishers : ~Owning(f)
  /\ curCtx = NoCtx => /\ ~armed /\ \A j \in Jobs : ~Arming(j)
                       /\ \A f \in Finishers : Owning(f) => pc[f] = "m2m"
  /\ curCtx # NoCtx => /\ \A j \in Jobs : ~Claiming(j)
                       /\ \A f \in Finishers : pc[f] # "m2m"

-----------------------------------------------------------------------------
(* Properties of the jobs before the first stray: the code neither waits for
   the interrupts of the last job nor keeps the watchdog from expiring early,
   and strayed records when that mattered. *)

(* The core that rkvenc_soft_reset() resets is stopped on a frame. *)
SoftResetSparesGoodFrames ==
  pc["thread"] = "reset" /\ ~strayed => hwJob # NoJob /\ wedged

(* "Only ever called from the IRQ error path, so it can never touch a good
   frame" (rkvenc_soft_reset()). False after a stray: the error of a job that
   the watchdog has finished can be added to the status of the next one. *)
NeverTouchesGoodFrame == pc["thread"] = "reset" => ~Busy

(* A frame handed back as good has been encoded to its last slice. *)
DoneMeansEncoded == \A j \in Jobs : job[j] = "done" => j \in encoded

(* The core only works on the oldest frame of the running context, while that
   context streams: never on a frame already handed back, and never on
   reconstruction buffers that ops->stop() has freed. *)
CoreOnLiveBuffers ==
  hwJob # NoJob /\ ~strayed => /\ running = Owner[hwJob]
                               /\ running \in streaming
                               /\ hwJob \in Pending(running)
                               /\ hwJob = HeadOf(running)

(* The life of every frame as user space sees it: see FrameLife. *)
Life == [j \in Jobs |->
           IF job[j] = "queued" /\ running = Owner[j] /\ j = HeadOf(running)
           THEN "running" ELSE job[j]]
FL == INSTANCE FrameLife WITH life <- Life
FramesLive == FL!Init /\ [][FL!Next \/ strayed']_<<Life, encoded>>

(* Until the first stray the encoder never stays busy with one job: an
   interrupt or the watchdog ends it, unless remove() took the watchdog away.
   After one it may, for ever: the thread loads ctx before it cancels the
   watchdog, and can take that of a job claimed in between for another
   context, which it then finishes in the name of the first. *)
EncoderNotStuck == running # NoCtx ~> (running = NoCtx \/ removed \/ strayed)
=============================================================================

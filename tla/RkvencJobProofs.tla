--------------------------- MODULE RkvencJobProofs ---------------------------
(***************************************************************************)
(* Proofs about RkvencJob for any number of contexts and frames and any    *)
(* timing.  First what holds of every behaviour: one owner per job, power  *)
(* and clock references balanced, recovery only on a clocked core.  Then   *)
(* what holds of every behaviour until its first stray.                    *)
(***************************************************************************)
EXTENDS RkvencJob, WellFoundedInduction, TLAPS

Inv == TypeOK /\ JobInv

(* What M2mFinish leaves alone: the outcome is a legal one, and the running
   context either stays or is released. *)
LEMMA M2mFinishType ==
  ASSUME TypeOK, NEW c, NEW s \in Outcomes, M2mFinish(c, s)
  PROVE  /\ job' \in [Jobs -> {"new", "queued"} \cup Outcomes]
         /\ running' \in {running, NoCtx}
BY DEF TypeOK, M2mFinish

(* Initially nothing is under way. *)
LEMMA InitInv == Init => Inv
<1> SUFFICES ASSUME Init PROVE Inv OBVIOUS
<1>1. TypeOK
  BY ConstantsOK DEF Init, TypeOK, RunSteps, FinishSteps, Finishers, Signals,
     Outcomes, NoJob
<1>2. OneOwner
  BY DEF Init, OneOwner, Claiming, Arming, Owning, Finishers
<1>3. PowerBalanced
  BY DEF Init, PowerBalanced, JobHeld
<1>4. JobInv
  BY <1>2, <1>3 DEF Init, JobInv, Claiming, Arming, Owning, Finishers
<1> QED BY <1>1, <1>4 DEF Inv

(* Steps of user space and of the core leave the owner of the job alone. *)
LEMMA UserInv == Inv /\ User => Inv'
<1> SUFFICES ASSUME Inv, User PROVE Inv' OBVIOUS
<1> USE DEF Inv, TypeOK, JobInv
<1>1. CASE \E j \in Jobs : BufQueue(j)
  BY <1>1 DEF BufQueue, OneOwner, PowerBalanced, JobHeld, Claiming, Arming,
     Owning, pwrVars, hwVars, irqVars, finVars
<1>2. CASE \E c \in Ctxs : StartStreaming(c)
  <2>1. job' \in [Jobs -> {"new", "queued"} \cup Outcomes]
    BY <1>2 DEF StartStreaming
  <2>2. streaming' \in SUBSET Ctxs
    BY <1>2 DEF StartStreaming
  <2> QED BY <1>2, <2>1, <2>2 DEF StartStreaming, OneOwner, PowerBalanced, JobHeld, Claiming,
     Arming, Owning, pwrVars, hwVars, irqVars, finVars
<1>3. CASE \E c \in Ctxs : StopStreaming(c)
  BY <1>3 DEF StopStreaming, OneOwner, PowerBalanced, JobHeld, Claiming,
     Arming, Owning, Outcomes, pwrVars, hwVars, irqVars, finVars
<1>4. CASE RemoveCancel
  <2>1. TypeOK'
    <3>1. armed' \in BOOLEAN /\ removed' \in BOOLEAN
      BY <1>4 DEF RemoveCancel
    <3>2. UNCHANGED <<m2mVars, curCtx, irqStatus, pwrVars, hwVars, rpc,
                      irqVars, finVars, strayed>>
      BY <1>4 DEF RemoveCancel
    <3> QED BY <3>1, <3>2 DEF m2mVars, pwrVars, hwVars, irqVars, finVars
  <2>2. OneOwner' /\ PowerBalanced'
    BY <1>4 DEF RemoveCancel, OneOwner, PowerBalanced, JobHeld, Claiming,
       Arming, Owning, pwrVars, finVars
  <2>3. JobInv'
    BY <1>4, <2>2 DEF RemoveCancel, Claiming, Arming, Owning, m2mVars,
       pwrVars, irqVars, finVars
  <2> QED BY <2>1, <2>3
<1> QED BY <1>1, <1>2, <1>3, <1>4 DEF User

(* The encoder core and autosuspend touch neither the job nor its references:
   autosuspend needs a zero count. *)
LEMMA CoreInv == Inv /\ Core => Inv'
<1> SUFFICES ASSUME Inv, Core PROVE Inv' OBVIOUS
<1> USE DEF Inv, TypeOK, JobInv
<1>1. CASE HwSlice \/ HwFinish \/ HwLateDone \/ HwError
  <2>1. UNCHANGED <<m2mVars, curCtx, irqStatus, armed, pwrVars, removed, rpc,
                    irqVars, finVars, strayed>>
    BY <1>1 DEF HwSlice, HwFinish, HwLateDone, HwError
  <2>2. /\ hwJob' \in Jobs \cup {NoJob} /\ wedged' \in BOOLEAN
        /\ intSta' \in SUBSET Signals /\ fifo' \in {"empty", "slices", "last"}
        /\ late' \in BOOLEAN /\ masked' \in BOOLEAN
        /\ encoded' \in SUBSET Jobs
    BY <1>1 DEF HwSlice, HwFinish, HwLateDone, HwError, Busy, Signals, NoJob
  <2>3. TypeOK'
    BY <2>1, <2>2 DEF m2mVars, pwrVars, irqVars, finVars
  <2>4. JobInv'
    BY <2>1 DEF OneOwner, PowerBalanced, JobHeld, Claiming, Arming, Owning,
       m2mVars, pwrVars, irqVars, finVars
  <2> QED BY <2>3, <2>4
<1>2. CASE RuntimeSuspend
  <2>1. TypeOK'
    BY <1>2 DEF RuntimeSuspend, ResetCore, m2mVars, irqVars, finVars
  <2>2. OneOwner' /\ PowerBalanced'
    BY <1>2 DEF RuntimeSuspend, OneOwner, PowerBalanced, JobHeld, Claiming,
       Arming, Owning, finVars
  <2>3. JobInv'
    BY <1>2, <2>2 DEF RuntimeSuspend, Claiming, Arming, Owning, m2mVars,
       irqVars, finVars
  <2> QED BY <2>1, <2>3
<1> QED BY <1>1, <1>2 DEF Core

(* The mem2mem core starts a job only when none is under way. *)
LEMMA DispatchInv == ASSUME Inv, NEW c \in Ctxs, Dispatch(c) PROVE Inv'
<1> USE DEF Inv, TypeOK, JobInv
<1>1. \A j \in Jobs : rpc'[j] = rpc[j] \/ (j = HeadOf(c) /\ rpc'[j] = "resume")
  BY DEF Dispatch
<1>2. rpc' \in [Jobs -> RunSteps]
  BY DEF Dispatch, RunSteps
<1>3. c # NoCtx BY ConstantsOK
<1> QED BY <1>1, <1>2, <1>3 DEF Dispatch, OneOwner, PowerBalanced, JobHeld,
    Claiming, Arming, Owning, pwrVars, hwVars, irqVars, finVars

(* The steps of device_run() up to the claim: the frame that claims is the
   only one, and holds exactly what PowerBalanced counts for it. *)
LEMMA PowerUpInv == ASSUME Inv, NEW j \in Jobs, PowerUp(j) PROVE Inv'
<1> USE DEF Inv, TypeOK, JobInv, PowerUp, RunTo
<1>1. TypeOK'
  BY DEF RunSteps, m2mVars, hwVars, irqVars, finVars
<1>2. OneOwner'
  BY DEF OneOwner, Claiming, Arming, Owning, finVars
<1>3. PowerBalanced'
  BY DEF OneOwner, PowerBalanced, JobHeld, Claiming, Arming, Owning, finVars
<1> QED BY <1>1, <1>2, <1>3 DEF Claiming, Arming, Owning, m2mVars, irqVars, finVars

(* clk_bulk_enable(): the frame that claims holds both references. *)
LEMMA ClockOnInv == ASSUME Inv, NEW j \in Jobs, ClockOn(j) PROVE Inv'
<1> USE DEF Inv, TypeOK, JobInv, ClockOn, RunTo
<1>1. TypeOK'
  BY DEF RunSteps, m2mVars, hwVars, irqVars, finVars
<1>2. OneOwner'
  BY DEF OneOwner, Claiming, Arming, Owning, finVars
<1>3. PowerBalanced'
  BY DEF OneOwner, PowerBalanced, JobHeld, Claiming, Arming, Owning, finVars
<1> QED BY <1>1, <1>2, <1>3 DEF Claiming, Arming, Owning, m2mVars, irqVars, finVars

(* pm_runtime_resume_and_get() failed: nothing was taken. *)
LEMMA PowerUpFailsInv == ASSUME Inv, NEW j \in Jobs, PowerUpFails(j) PROVE Inv'
<1> USE DEF Inv, TypeOK, JobInv, PowerUpFails, RunTo
<1>1. /\ job' \in [Jobs -> {"new", "queued"} \cup Outcomes]
      /\ running' \in {running, NoCtx}
  BY M2mFinishType DEF Outcomes
<1>2. TypeOK'
  <2>1. rpc' \in [Jobs -> RunSteps]
    BY DEF RunSteps
  <2>2. running' \in Ctxs \cup {NoCtx}
    BY <1>1
  <2>3. UNCHANGED <<streaming, curCtx, irqStatus, armed, pwrVars, removed,
                    hwVars, irqVars, finVars, strayed>>
    OBVIOUS
  <2> QED BY <1>1, <2>1, <2>2, <2>3 DEF pwrVars, hwVars, irqVars, finVars
<1>3. OneOwner'
  BY DEF OneOwner, Claiming, Arming, Owning, finVars
<1>4. PowerBalanced'
  BY DEF OneOwner, PowerBalanced, JobHeld, Claiming, Arming, Owning, pwrVars,
     finVars
<1>5. curCtx = NoCtx /\ ~armed /\ \A f \in Finishers : ~Owning(f)
  BY DEF OneOwner, Claiming, Arming
<1>6. \A k \in Jobs : ~Claiming(k)' /\ ~Arming(k)'
  BY DEF OneOwner, Claiming, Arming
<1> QED BY <1>1, <1>2, <1>3, <1>4, <1>5, <1>6
    DEF Claiming, Arming, Owning, pwrVars, irqVars, finVars

(* clk_bulk_enable() failed: the power reference goes back. *)
LEMMA ClockOnFailsInv == ASSUME Inv, NEW j \in Jobs, ClockOnFails(j) PROVE Inv'
<1> USE DEF Inv, TypeOK, JobInv, ClockOnFails, RunTo
<1>1. /\ job' \in [Jobs -> {"new", "queued"} \cup Outcomes]
      /\ running' \in {running, NoCtx}
  BY M2mFinishType DEF Outcomes
<1>2. pm = 1 /\ clk = 0
  BY DEF OneOwner, PowerBalanced, JobHeld, Claiming, Arming, Owning
<1>3. TypeOK'
  <2>1. rpc' \in [Jobs -> RunSteps]
    BY DEF RunSteps
  <2>2. running' \in Ctxs \cup {NoCtx} /\ pm' \in Nat
    BY <1>1, <1>2
  <2>3. UNCHANGED <<streaming, curCtx, irqStatus, armed, clk, powered, removed,
                    hwVars, irqVars, finVars, strayed>>
    OBVIOUS
  <2> QED BY <1>1, <2>1, <2>2, <2>3 DEF hwVars, irqVars, finVars
<1>4. OneOwner'
  BY DEF OneOwner, Claiming, Arming, Owning, finVars
<1>5. curCtx = NoCtx /\ ~armed /\ \A f \in Finishers : ~Owning(f)
  BY DEF OneOwner, Claiming, Arming
<1>6. \A k \in Jobs : ~Claiming(k)' /\ ~Arming(k)'
  BY DEF OneOwner, Claiming, Arming
<1>7. PowerBalanced'
  BY <1>2, <1>5, <1>6 DEF PowerBalanced, JobHeld, Claiming
<1> QED BY <1>1, <1>2, <1>3, <1>4, <1>5, <1>6, <1>7
    DEF Claiming, Arming, Owning, irqVars, finVars

(* The claim hands the references over to cur_ctx. *)
LEMMA ClaimInv == ASSUME Inv, NEW j \in Jobs, Claim(j) PROVE Inv'
<1> USE DEF Inv, TypeOK, JobInv, Claim, RunTo
<1>1. Owner[j] \in Ctxs /\ Owner[j] # NoCtx
  BY ConstantsOK
<1>2. TypeOK'
  BY <1>1 DEF RunSteps, m2mVars, pwrVars, hwVars, irqVars, finVars
<1>3. OneOwner'
  BY DEF OneOwner, Claiming, Arming, Owning, finVars
<1>4. /\ curCtx = NoCtx /\ ~armed
      /\ \A f \in Finishers : ~Owning(f) /\ pc[f] # "detach"
  BY DEF OneOwner, Claiming, Arming, Owning
<1>5. \A k \in Jobs : ~Claiming(k)'
  BY DEF OneOwner, Claiming, Arming
<1>6. PowerBalanced'
  BY <1>1, <1>4, <1>5 DEF PowerBalanced, JobHeld, Claiming, pwrVars, finVars
<1> QED BY <1>1, <1>2, <1>3, <1>4, <1>5, <1>6
    DEF Claiming, Arming, Owning, m2mVars, pwrVars, irqVars, finVars

(* Clearing dev->irq_status leaves the job with device_run(). *)
LEMMA ClearStatusInv == ASSUME Inv, NEW j \in Jobs, ClearStatus(j) PROVE Inv'
<1> USE DEF Inv, TypeOK, JobInv, ClearStatus, RunTo
<1>1. TypeOK'
  BY DEF RunSteps, m2mVars, pwrVars, hwVars, irqVars, finVars
<1>2. OneOwner'
  BY DEF OneOwner, Claiming, Arming, Owning, finVars
<1>3. PowerBalanced'
  BY DEF PowerBalanced, JobHeld, pwrVars, finVars
<1> QED BY <1>1, <1>2, <1>3
    DEF Claiming, Arming, Owning, m2mVars, pwrVars, irqVars, finVars

(* The job passes from device_run() to the pending watchdog. *)
LEMMA ArmWatchdogInv == ASSUME Inv, NEW j \in Jobs, ArmWatchdog(j) PROVE Inv'
<1> USE DEF Inv, TypeOK, JobInv, ArmWatchdog, RunTo
<1>1. TypeOK'
  BY DEF RunSteps, m2mVars, pwrVars, hwVars, irqVars, finVars
<1>2. \A k \in Jobs : ~Claiming(k)' /\ ~Arming(k)'
  BY DEF OneOwner, Claiming, Arming
<1>3. \A f \in Finishers : ~Owning(f)
  BY DEF OneOwner, Arming
<1>4. OneOwner'
  BY <1>2, <1>3 DEF OneOwner, Owning, Finishers, finVars
<1>5. PowerBalanced'
  BY DEF PowerBalanced, JobHeld, pwrVars, finVars
<1>6. curCtx # NoCtx /\ running # NoCtx
  BY DEF Arming
<1> QED BY <1>1, <1>2, <1>3, <1>4, <1>5, <1>6
    DEF Owning, m2mVars, pwrVars, irqVars, finVars

(* Programming the core leaves the job where it is. *)
LEMMA KickInv == ASSUME Inv, NEW j \in Jobs, Kick(j) PROVE Inv'
<1> USE DEF Inv, TypeOK, JobInv, Kick, RunTo
<1>1. TypeOK'
  <2>1. rpc' \in [Jobs -> RunSteps]
    BY DEF RunSteps
  <2>2. hwJob' \in Jobs \cup {NoJob} /\ wedged' \in BOOLEAN
        /\ masked' \in BOOLEAN
    OBVIOUS
  <2>3. UNCHANGED <<m2mVars, curCtx, irqStatus, armed, pwrVars, removed,
                    intSta, fifo, late, encoded, irqVars, finVars, strayed>>
    OBVIOUS
  <2> QED BY <2>1, <2>2, <2>3 DEF m2mVars, pwrVars, irqVars, finVars
<1>2. OneOwner'
  BY DEF OneOwner, Claiming, Arming, Owning, finVars
<1>3. PowerBalanced'
  BY DEF PowerBalanced, JobHeld, pwrVars, finVars
<1> QED BY <1>1, <1>2, <1>3
    DEF Claiming, Arming, Owning, m2mVars, pwrVars, irqVars, finVars

(* The hard interrupt handler at most wakes a thread that was idle. *)
LEMMA HardIrqInv == Inv /\ HardIrq => Inv'
<1> SUFFICES ASSUME Inv, HardIrq PROVE Inv' OBVIOUS
<1> USE DEF Inv, TypeOK, JobInv
<1>1. CASE IrqTake
  <2>1. TypeOK'
    BY <1>1 DEF IrqTake, m2mVars, pwrVars, finVars
  <2> QED BY <1>1, <2>1 DEF IrqTake, OneOwner, PowerBalanced, JobHeld,
      Claiming, Arming, Owning, m2mVars, pwrVars, finVars
<1>2. CASE IrqNoJob
  <2>1. TypeOK'
    BY <1>2 DEF IrqNoJob, m2mVars, pwrVars, hwVars, finVars
  <2> QED BY <1>2, <2>1 DEF IrqNoJob, OneOwner, PowerBalanced, JobHeld,
      Claiming, Arming, Owning, m2mVars, pwrVars, finVars
<1>3. CASE IrqJob
  <2>1. UNCHANGED <<m2mVars, curCtx, armed, pwrVars, removed, hwJob, wedged,
                    intSta, late, masked, encoded, rpc, fctx, fst, strayed>>
    BY <1>3 DEF IrqJob
  <2>2. irqStatus' \in SUBSET Signals /\ hpc' = "idle" /\ hsta' = {}
        /\ fifo' = "empty"
    BY <1>3 DEF IrqJob
  <2>3. pc' \in {pc, [pc EXCEPT !["thread"] = "woken"]}
    BY <1>3 DEF IrqJob
  <2>4. TypeOK'
    BY <2>1, <2>2, <2>3 DEF m2mVars, pwrVars, FinishSteps
  <2>5. ASSUME NEW f \in Finishers
        PROVE  pc'[f] = pc[f] \/ (pc[f] = "idle" /\ pc'[f] = "woken")
    BY <1>3, <2>3 DEF IrqJob
  <2>6. OneOwner' /\ PowerBalanced'
    BY <2>1, <2>5 DEF OneOwner, PowerBalanced, JobHeld, Claiming, Arming,
       Owning, Finishers, pwrVars
  <2> QED BY <2>1, <2>2, <2>4, <2>5, <2>6 DEF Claiming, Arming, Owning,
      m2mVars, pwrVars
<1> QED BY <1>1, <1>2, <1>3 DEF HardIrq

(* The interrupt thread owns a job only after taking its pending watchdog,
   and then keeps it. *)
LEMMA ThreadInv == Inv /\ Thread => Inv'
<1> SUFFICES ASSUME Inv, Thread PROVE Inv' OBVIOUS
<1> USE DEF Inv, TypeOK, JobInv, StepTo
<1>1. CASE ThreadLoad
  <2>1. TypeOK'
    <3>1. pc' \in [Finishers -> FinishSteps]
      BY <1>1 DEF ThreadLoad, FinishSteps
    <3>2. fctx' \in [Finishers -> Ctxs \cup {NoCtx}]
      BY <1>1 DEF ThreadLoad
    <3>3. UNCHANGED <<m2mVars, curCtx, irqStatus, armed, pwrVars, removed,
                      hwVars, rpc, irqVars, fst, strayed>>
      BY <1>1 DEF ThreadLoad
    <3> QED BY <3>1, <3>2, <3>3 DEF m2mVars, pwrVars, hwVars, irqVars
  <2>2. pc["thread"] = "woken" /\ pc'["thread"] \in {"idle", "loaded"}
        /\ pc'["watchdog"] = pc["watchdog"]
    BY <1>1 DEF ThreadLoad, Finishers
  <2>3. OneOwner' /\ PowerBalanced'
    BY <1>1, <2>2 DEF ThreadLoad, OneOwner, PowerBalanced, JobHeld, Claiming,
       Arming, Owning, Finishers, pwrVars
  <2>4. JobInv'
    BY <1>1, <2>2, <2>3 DEF ThreadLoad, Claiming, Arming, Owning, Finishers,
       m2mVars, pwrVars, irqVars
  <2> QED BY <2>1, <2>4
<1>2. CASE ThreadCancel
  <2>1. TypeOK'
    <3>1. pc' \in [Finishers -> FinishSteps] /\ armed' \in BOOLEAN
      BY <1>2 DEF ThreadCancel, FinishSteps
    <3>2. UNCHANGED <<m2mVars, curCtx, irqStatus, pwrVars, removed, hwVars,
                      rpc, irqVars, fctx, fst, strayed>>
      BY <1>2 DEF ThreadCancel
    <3> QED BY <3>1, <3>2 DEF m2mVars, pwrVars, hwVars, irqVars
  <2>2. /\ pc["thread"] = "loaded" /\ pc'["watchdog"] = pc["watchdog"]
        /\ pc'["thread"] = IF armed THEN "owned" ELSE "idle"
        /\ ~armed'
    BY <1>2 DEF ThreadCancel, Finishers
  <2>3. OneOwner' /\ PowerBalanced'
    BY <1>2, <2>2 DEF ThreadCancel, OneOwner, PowerBalanced, JobHeld, Claiming,
       Arming, Owning, Finishers, pwrVars
  <2>4. JobInv'
    BY <1>2, <2>2, <2>3 DEF ThreadCancel, Claiming, Arming, Owning, Finishers,
       m2mVars, pwrVars, irqVars
  <2> QED BY <2>1, <2>4
<1>3. CASE ThreadJudge
  <2>1. TypeOK'
    <3>1. pc' \in [Finishers -> FinishSteps]
      BY <1>3 DEF ThreadJudge, FinishSteps
    <3>2. fst' \in [Finishers -> Outcomes]
      BY <1>3 DEF ThreadJudge, Outcomes
    <3>3. UNCHANGED <<m2mVars, curCtx, irqStatus, armed, pwrVars, removed,
                      hwVars, rpc, irqVars, fctx, strayed>>
      BY <1>3 DEF ThreadJudge
    <3> QED BY <3>1, <3>2, <3>3 DEF m2mVars, pwrVars, hwVars, irqVars
  <2>2. pc["thread"] = "owned" /\ pc'["thread"] \in {"reset", "done"}
        /\ pc'["watchdog"] = pc["watchdog"]
    BY <1>3 DEF ThreadJudge, Finishers
  <2>3. OneOwner' /\ PowerBalanced'
    BY <1>3, <2>2 DEF ThreadJudge, OneOwner, PowerBalanced, JobHeld, Claiming,
       Arming, Owning, Finishers, pwrVars
  <2>4. JobInv'
    BY <1>3, <2>2, <2>3 DEF ThreadJudge, Claiming, Arming, Owning, Finishers,
       m2mVars, pwrVars, irqVars
  <2> QED BY <2>1, <2>4
<1>4. CASE SoftReset
  <2>1. TypeOK'
    BY <1>4 DEF SoftReset, ResetCore, FinishSteps, m2mVars, pwrVars, irqVars
  <2>2. pc["thread"] = "reset" /\ pc'["thread"] = "done"
        /\ pc'["watchdog"] = pc["watchdog"]
    BY <1>4 DEF SoftReset, Finishers
  <2>3. OneOwner' /\ PowerBalanced'
    BY <1>4, <2>2 DEF SoftReset, OneOwner, PowerBalanced, JobHeld, Claiming,
       Arming, Owning, Finishers, pwrVars
  <2>4. JobInv'
    BY <1>4, <2>2, <2>3 DEF SoftReset, Claiming, Arming, Owning, Finishers,
       m2mVars, pwrVars, irqVars
  <2> QED BY <2>1, <2>4
<1> QED BY <1>1, <1>2, <1>3, <1>4 DEF Thread

(* The watchdog owns the job from the moment its timer expires. *)
LEMMA WatchdogInv == Inv /\ Watchdog => Inv'
<1> SUFFICES ASSUME Inv, Watchdog PROVE Inv' OBVIOUS
<1> USE DEF Inv, TypeOK, JobInv, StepTo
<1>1. CASE WatchdogFire
  <2>1. TypeOK'
    BY <1>1 DEF WatchdogFire, FinishSteps, m2mVars, pwrVars, hwVars, irqVars
  <2>2. /\ pc["watchdog"] = "idle" /\ pc'["watchdog"] = "fired"
        /\ pc'["thread"] = pc["thread"] /\ armed /\ ~armed'
    BY <1>1 DEF WatchdogFire, Finishers
  <2>3. OneOwner' /\ PowerBalanced'
    BY <1>1, <2>2 DEF WatchdogFire, OneOwner, PowerBalanced, JobHeld, Claiming,
       Arming, Owning, Finishers, pwrVars
  <2> QED BY <1>1, <2>1, <2>2, <2>3 DEF WatchdogFire, Claiming, Arming,
      Owning, Finishers, m2mVars, pwrVars, irqVars
<1>2. CASE WatchdogLoad
  <2>1. TypeOK'
    <3>1. pc' \in [Finishers -> FinishSteps]
      BY <1>2 DEF WatchdogLoad, FinishSteps
    <3>2. fctx' \in [Finishers -> Ctxs \cup {NoCtx}]
      BY <1>2 DEF WatchdogLoad
    <3>3. fst' \in [Finishers -> Outcomes]
      BY <1>2 DEF WatchdogLoad, Outcomes
    <3>4. UNCHANGED <<m2mVars, curCtx, irqStatus, armed, pwrVars, removed,
                      hwVars, rpc, irqVars, strayed>>
      BY <1>2 DEF WatchdogLoad
    <3> QED BY <3>1, <3>2, <3>3, <3>4 DEF m2mVars, pwrVars, hwVars, irqVars
  <2>2. pc["watchdog"] = "fired" /\ pc'["thread"] = pc["thread"]
    BY <1>2 DEF WatchdogLoad, Finishers
  <2>3. pc'["watchdog"] = "reset" /\ curCtx # NoCtx
    BY <1>2, <2>2 DEF WatchdogLoad, Owning, Finishers
  <2>4. OneOwner' /\ PowerBalanced'
    BY <1>2, <2>2, <2>3 DEF WatchdogLoad, OneOwner, PowerBalanced, JobHeld,
       Claiming, Arming, Owning, Finishers, pwrVars
  <2> QED BY <1>2, <2>1, <2>2, <2>3, <2>4 DEF WatchdogLoad, Claiming, Arming,
      Owning, Finishers, m2mVars, pwrVars, irqVars
<1>3. CASE WatchdogReset
  <2>1. TypeOK'
    BY <1>3 DEF WatchdogReset, ResetCore, FinishSteps, m2mVars, pwrVars,
       irqVars
  <2>2. pc["watchdog"] = "reset" /\ pc'["watchdog"] = "done"
        /\ pc'["thread"] = pc["thread"]
    BY <1>3 DEF WatchdogReset, Finishers
  <2>3. OneOwner' /\ PowerBalanced'
    BY <1>3, <2>2 DEF WatchdogReset, OneOwner, PowerBalanced, JobHeld,
       Claiming, Arming, Owning, Finishers, pwrVars
  <2> QED BY <1>3, <2>1, <2>2, <2>3 DEF WatchdogReset, Claiming, Arming,
      Owning, Finishers, m2mVars, pwrVars, irqVars
<1> QED BY <1>1, <1>2, <1>3 DEF Watchdog

(* rkvenc_job_finish(): the owner gives back what the claim handed over, then
   cur_ctx, then the mem2mem core. *)
LEMMA FinishInv == ASSUME Inv, NEW f \in Finishers, Finish(f) PROVE Inv'
<1> USE DEF Inv, TypeOK, JobInv, StepTo
<1>1. ASSUME NEW g \in Finishers, g # f, Owning(f)
      PROVE  ~Owning(g)
  BY <1>1 DEF OneOwner, Finishers
<1>2. CASE FinishRelease(f)
  <2>1. pc[f] = "done" /\ pc'[f] = "detach"
        /\ \A g \in Finishers : g # f => pc'[g] = pc[g]
    BY <1>2 DEF FinishRelease
  <2>2. pm = 1 /\ clk = 1 /\ curCtx # NoCtx
    BY <1>1, <2>1 DEF PowerBalanced, JobHeld, Owning
  <2>3. \A j \in Jobs : ~Claiming(j)
    BY <2>2
  <2>4. TypeOK'
    BY <1>2, <2>2 DEF FinishRelease, FinishSteps, m2mVars, hwVars, irqVars
  <2>5. OneOwner'
    BY <1>2, <2>1 DEF FinishRelease, OneOwner, Claiming, Arming, Owning,
       Finishers
  <2>6. PowerBalanced'
    BY <1>2, <2>1, <2>2, <2>3 DEF FinishRelease, PowerBalanced, JobHeld,
       Claiming
  <2> QED BY <1>2, <2>1, <2>2, <2>4, <2>5, <2>6 DEF FinishRelease, Claiming,
      Arming, Owning, Finishers, m2mVars, pwrVars, irqVars
<1>3. CASE FinishDetach(f)
  <2>1. pc[f] = "detach" /\ pc'[f] = "m2m"
        /\ \A g \in Finishers : g # f => pc'[g] = pc[g]
    BY <1>3 DEF FinishDetach
  <2>2. TypeOK'
    BY <1>3 DEF FinishDetach, FinishSteps, m2mVars, pwrVars, hwVars, irqVars
  <2>3. OneOwner'
    BY <1>3, <2>1 DEF FinishDetach, OneOwner, Claiming, Arming, Owning,
       Finishers
  <2>4. ~armed /\ \A j \in Jobs : ~Claiming(j) /\ ~Arming(j)
    BY <2>1 DEF OneOwner, Owning
  <2>5. PowerBalanced'
    BY <1>3, <2>1, <2>4 DEF FinishDetach, PowerBalanced, JobHeld, Claiming,
       pwrVars
  <2> QED BY <1>1, <1>3, <2>1, <2>2, <2>3, <2>4, <2>5 DEF FinishDetach,
      Claiming, Arming, Owning, Finishers, m2mVars, pwrVars, irqVars
<1>4. CASE FinishM2m(f)
  <2>1. pc[f] = "m2m" /\ pc'[f] = "idle"
        /\ \A g \in Finishers : g # f => pc'[g] = pc[g]
    BY <1>4 DEF FinishM2m
  <2>2. /\ job' \in [Jobs -> {"new", "queued"} \cup Outcomes]
        /\ running' \in {running, NoCtx}
    BY <1>4, M2mFinishType DEF FinishM2m
  <2>3. TypeOK'
    <3>1. pc' \in [Finishers -> FinishSteps]
      BY <1>4 DEF FinishM2m, FinishSteps
    <3>2. running' \in Ctxs \cup {NoCtx}
      BY <2>2
    <3> QED BY <1>4, <2>2, <3>1, <3>2 DEF FinishM2m, pwrVars, hwVars, irqVars
  <2>4. OneOwner'
    BY <1>4, <2>1 DEF FinishM2m, OneOwner, Claiming, Arming, Owning, Finishers
  <2>5. /\ ~armed /\ curCtx = NoCtx
        /\ \A j \in Jobs : ~Claiming(j) /\ ~Arming(j)
    BY <2>1 DEF OneOwner, Owning
  <2>6. PowerBalanced'
    BY <1>4, <2>1, <2>5 DEF FinishM2m, PowerBalanced, JobHeld, Claiming,
       pwrVars
  <2>7. \A g \in Finishers : ~Owning(g)'
    BY <1>1, <2>1 DEF Owning
  <2> QED BY <1>4, <2>1, <2>3, <2>4, <2>5, <2>6, <2>7 DEF FinishM2m, Claiming,
      Arming, pwrVars, irqVars, Finishers
<1> QED BY <1>2, <1>3, <1>4 DEF Finish

(* Stuttering. *)
LEMMA StutterInv == Inv /\ UNCHANGED vars => Inv'
<1> SUFFICES ASSUME Inv, UNCHANGED vars PROVE Inv' OBVIOUS
<1> USE DEF vars, m2mVars, pwrVars, hwVars, irqVars, finVars
<1>1. TypeOK' BY DEF Inv, TypeOK
<1>2. OneOwner' /\ PowerBalanced'
  BY DEF Inv, JobInv, OneOwner, PowerBalanced, JobHeld, Claiming, Arming, Owning
<1>3. JobInv' BY <1>2 DEF Inv, JobInv, Claiming, Arming, Owning
<1> QED BY <1>1, <1>3 DEF Inv

(* The invariant is inductive: one case per disjunct of Next. *)
LEMMA NextInv == Inv /\ [Next]_vars => Inv'
<1> SUFFICES ASSUME Inv, [Next]_vars PROVE Inv' OBVIOUS
<1>1. CASE User BY <1>1, UserInv
<1>2. CASE \E c \in Ctxs : Dispatch(c) BY <1>2, DispatchInv
<1>3. CASE \E j \in Jobs : DeviceRun(j)
  <2> PICK j \in Jobs : DeviceRun(j) BY <1>3
  <2> QED BY PowerUpInv, PowerUpFailsInv, ClockOnInv, ClockOnFailsInv, ClaimInv,
      ClearStatusInv, ArmWatchdogInv, KickInv DEF DeviceRun
<1>4. CASE Core BY <1>4, CoreInv
<1>5. CASE HardIrq BY <1>5, HardIrqInv
<1>6. CASE Thread BY <1>6, ThreadInv
<1>7. CASE Watchdog BY <1>7, WatchdogInv
<1>8. CASE \E f \in Finishers : Finish(f) BY <1>8, FinishInv
<1>9. CASE UNCHANGED vars BY <1>9, StutterInv
<1> QED BY <1>1, <1>2, <1>3, <1>4, <1>5, <1>6, <1>7, <1>8, <1>9 DEF Next

(* The inductive invariant holds of every behaviour of the driver. *)
THEOREM Invariance == Spec => []Inv
<1>1. Init => Inv BY InitInv
<1>2. Inv /\ [Next]_vars => Inv' BY NextInv
<1> QED BY <1>1, <1>2, PTL DEF Spec

(* Type correctness; in particular the power and clock counts, which every
   finisher decrements, never go below zero. *)
THEOREM TypeCorrect == Spec => []TypeOK
<1>1. Inv => TypeOK BY DEF Inv
<1> QED BY <1>1, Invariance, PTL

(* For any number of contexts and frames and any watchdog timing, a frame
   under way has exactly one owner: cancel_delayed_work() in the interrupt
   thread decides the race with the watchdog. *)
THEOREM SingleOwner == Spec => []OneOwner
<1>1. Inv => OneOwner BY DEF Inv, JobInv
<1> QED BY <1>1, Invariance, PTL

(* The runtime PM and clock references are those of the one job under way,
   on every error path of device_run() and whoever finishes the job. *)
THEOREM PowerAccounting == Spec => []PowerBalanced
<1>1. Inv => PowerBalanced BY DEF Inv, JobInv
<1> QED BY <1>1, Invariance, PTL

(* "clocks are still enabled here": recovery and ops->done() run on a
   powered, clocked core, because their job holds both references until
   rkvenc_job_finish(). *)
THEOREM RecoveryClocked == Spec => []FinisherClocked
<1>1. Inv => FinisherClocked
  <2> SUFFICES ASSUME Inv, NEW f \in Finishers, pc[f] \in {"reset", "done"}
               PROVE  powered /\ clk = 1
    BY DEF FinisherClocked
  <2>1. Owning(f) BY DEF Owning
  <2>2. \A g \in Finishers : pc[g] # "detach"
    BY <2>1 DEF Inv, JobInv, OneOwner, Owning, Finishers
  <2>3. curCtx # NoCtx BY <2>1 DEF Inv, JobInv
  <2>4. JobHeld BY <2>2, <2>3 DEF JobHeld
  <2> QED BY <2>4 DEF Inv, JobInv, PowerBalanced
<1> QED BY <1>1, Invariance, PTL
-----------------------------------------------------------------------------
(***************************************************************************)
(* Until a job is claimed over an interrupt of an earlier one, or its      *)
(* watchdog expires before it is started: recovery spares good frames, the *)
(* core only works on buffers it may touch, a frame comes back good only   *)
(* when it is encoded, and RkvencJob implements FrameLife. Nothing in the  *)
(* code prevents such a stray, and no assumption rules it out here; the    *)
(* history variable strayed records it.                                    *)
(***************************************************************************)

Head        == HeadOf(running)
Active(j)   == rpc[j] \notin {"idle", "returned"}
Unkicked(j) == rpc[j] \in {"clear", "arm", "kick"}
Seen        == intSta \cup hsta \cup irqStatus
Whole       == hwJob = NoJob /\ Head \in encoded
Broken      == hwJob # NoJob /\ wedged
Judging     == pc["thread"] \in {"woken", "loaded", "owned"}
Ending(f)   == pc[f] \in {"done", "detach"}

(* The mem2mem side: frames of a context are queued in order; a job under way
   is the oldest queued frame of the running, streaming context. *)
QueueInv ==
  /\ \A j, k \in Jobs :
       Owner[j] = Owner[k] /\ job[j] = "queued" /\ job[k] = "new" => j < k
  /\ running # NoCtx => running \in streaming /\ Pending(running) # {}
  /\ \A j \in Jobs : Active(j) => running # NoCtx /\ j = Head
  /\ curCtx # NoCtx => curCtx = running
  /\ \A f \in Finishers :
       pc[f] \in {"owned", "reset", "done", "detach", "m2m"} => fctx[f] = running
  /\ pc["thread"] = "loaded" /\ curCtx # NoCtx => fctx["thread"] = running
  /\ \A j \in Jobs : job[j] = "done" => j \in encoded

(* Until it is started, a job meets a silent core and no interrupt. *)
StartInv ==
  /\ hpc = "idle" => hsta = {}
  /\ curCtx = NoCtx => hwJob = NoJob /\ fifo = "empty"
  /\ hwJob # NoJob => hwJob = Head
  /\ \A j \in Jobs : Unkicked(j) =>
       /\ curCtx # NoCtx /\ Quiet /\ ~late /\ hwJob = NoJob /\ fifo = "empty"
       /\ \A f \in Finishers : ~Owning(f)
       /\ rpc[j] # "clear" => irqStatus = {}

(* What the core has said is about the job under way. *)
SignalInv ==
  curCtx # NoCtx /\ ~Owning("watchdog") /\ ~Ending("thread")
    /\ (\A j \in Jobs : rpc[j] # "clear") =>
       /\ "err" \in Seen => Broken
       /\ "done" \in Seen \/ late \/ fifo = "last" => Whole

(* What the interrupt thread and the watchdog may conclude from it. *)
JudgeInv ==
  /\ Judging /\ curCtx # NoCtx /\ ~Owning("watchdog") =>
       fifo = "empty" /\ ("err" \in irqStatus \/ Whole)
  /\ pc["thread"] = "reset" => Broken /\ fst["thread"] = "error"
  /\ pc["watchdog"] \in {"reset", "done", "detach", "m2m"} =>
       fst["watchdog"] = "error"
  /\ \A f \in Finishers : Ending(f) => hwJob = NoJob /\ fifo = "empty"
  /\ pc["thread"] \in {"done", "detach", "m2m"} =>
       fst["thread"] = "error" \/ Head \in encoded

FrameInv == QueueInv /\ StartInv /\ SignalInv /\ JudgeInv

-----------------------------------------------------------------------------
(* The oldest queued frame *)

(* A non-empty set of numbers has a least element. *)
LEMMA Least ==
  ASSUME NEW S, S \subseteq Nat, S # {}
  PROVE  \E m \in S : \A k \in S : m <= k
<1>1. IsWellFoundedOn(OpToRel(<, Nat), Nat) BY NatLessThanWellFounded, Zenon
<1>2. PICK m \in S : \A k \in S : ~ (<<k, m>> \in OpToRel(<, Nat))
  BY <1>1, WFMin, Zenon
<1>3. \A k \in S : ~ (k < m) BY <1>2, Zenon DEF OpToRel
<1> QED BY <1>3

(* HeadOf picks it: it is queued, and not after any other queued frame. *)
LEMMA HeadIsQueued ==
  ASSUME NEW c, Pending(c) # {}
  PROVE  HeadOf(c) \in Pending(c) /\ \A k \in Pending(c) : HeadOf(c) <= k
<1>1. Pending(c) \subseteq Nat BY ConstantsOK DEF Pending, Jobs
<1>2. \E m \in Pending(c) : \A k \in Pending(c) : m <= k BY <1>1, Least
<1> QED BY <1>2, Zenon DEF HeadOf

(* ... and only that one does. *)
LEMMA HeadIsLeast ==
  ASSUME NEW c, NEW h \in Pending(c), \A k \in Pending(c) : h <= k
  PROVE  HeadOf(c) = h
<1>1. HeadOf(c) \in Pending(c) /\ \A k \in Pending(c) : HeadOf(c) <= k
  BY HeadIsQueued
<1>2. Pending(c) \subseteq Nat BY ConstantsOK DEF Pending, Jobs
<1> QED BY <1>1, <1>2

(* The same of the next state. *)
LEMMA NextHeadIsLeast ==
  ASSUME NEW c, NEW h \in Pending(c)', \A k \in Pending(c)' : h <= k
  PROVE  HeadOf(c)' = h
<1>1. Pending(c)' \subseteq Nat BY ConstantsOK DEF Pending, Jobs
<1>2. \E m \in Pending(c)' : \A k \in Pending(c)' : m <= k BY <1>1, Least
<1>3. HeadOf(c)' \in Pending(c)' /\ \A k \in Pending(c)' : HeadOf(c)' <= k
  BY <1>2, Zenon DEF HeadOf
<1> QED BY <1>1, <1>3

(* Whoever leaves the mem2mem core alone leaves the frame under way alone. *)
LEMMA SameHead ==
  ASSUME UNCHANGED <<job, running>>
  PROVE  /\ Head' = Head
         /\ \A c : Pending(c)' = Pending(c) /\ HeadOf(c)' = HeadOf(c)
<1>1. \A c : Pending(c)' = Pending(c) BY DEF Pending
<1>2. \A c : HeadOf(c)' = HeadOf(c) BY <1>1, Zenon DEF HeadOf
<1> QED BY <1>1, <1>2 DEF Head

-----------------------------------------------------------------------------
(* What the owner of a job excludes *)

Nobody == \A f \in Finishers : ~Owning(f)

(* While device_run() claims a job, the core is idle and nobody else owns
   anything. *)
LEMMA ClaimingAlone ==
  ASSUME Inv, FrameInv, NEW j \in Jobs, Claiming(j)
  PROVE  /\ curCtx = NoCtx /\ running # NoCtx /\ j = Head
         /\ Nobody /\ hwJob = NoJob /\ fifo = "empty"
         /\ \A k \in Jobs : Active(k) => k = j
<1>1. Active(j) BY DEF Claiming, Active
<1>2. curCtx = NoCtx BY DEF Inv, JobInv
<1>3. Nobody BY DEF Inv, JobInv, OneOwner, Nobody
<1>4. j = Head /\ running # NoCtx /\ \A k \in Jobs : Active(k) => k = j
  BY <1>1 DEF FrameInv, QueueInv
<1> QED BY <1>2, <1>3, <1>4 DEF FrameInv, StartInv

(* Until the core is started, device_run() is alone with the job. *)
LEMMA UnkickedAlone ==
  ASSUME Inv, FrameInv, NEW j \in Jobs, Unkicked(j)
  PROVE  /\ curCtx # NoCtx /\ running # NoCtx /\ j = Head
         /\ Nobody /\ hwJob = NoJob /\ fifo = "empty" /\ Quiet /\ ~late
         /\ hsta = {}
         /\ \A k \in Jobs : Active(k) => k = j
<1>1. Active(j) BY DEF Unkicked, Active
<1>2. j = Head /\ running # NoCtx /\ \A k \in Jobs : Active(k) => k = j
  BY <1>1 DEF FrameInv, QueueInv
<1> QED BY <1>2 DEF FrameInv, StartInv, Nobody, Quiet

(* An interrupt thread or a watchdog that owns the job owns it alone. *)
LEMMA OwnerAlone ==
  ASSUME Inv, FrameInv, NEW f \in Finishers, Owning(f)
  PROVE  /\ running # NoCtx /\ ~armed
         /\ \A j \in Jobs : ~Active(j)
         /\ \A g \in Finishers : Owning(g) => g = f
<1>1. running # NoCtx /\ ~armed BY DEF Inv, JobInv, OneOwner
<1>2. \A g \in Finishers : Owning(g) => g = f
  BY DEF Inv, JobInv, OneOwner, Finishers
<1>3. ASSUME NEW j \in Jobs, Active(j) PROVE FALSE
  <2>1. Claiming(j) \/ Unkicked(j)
    BY <1>3 DEF Active, Claiming, Unkicked, RunSteps, Inv, TypeOK
  <2>2. CASE Claiming(j) BY <2>2, ClaimingAlone DEF Nobody
  <2>3. CASE Unkicked(j) BY <2>3, UnkickedAlone DEF Nobody
  <2> QED BY <2>1, <2>2, <2>3
<1> QED BY <1>1, <1>2, <1>3

(* With no job under way there is nobody at all. *)
LEMMA IdleAlone ==
  ASSUME Inv, FrameInv, running = NoCtx
  PROVE  /\ curCtx = NoCtx /\ Nobody /\ hwJob = NoJob /\ fifo = "empty"
         /\ \A j \in Jobs : ~Active(j)
BY DEF Inv, JobInv, FrameInv, QueueInv, StartInv, Nobody

-----------------------------------------------------------------------------
(* FrameInv is inductive: one lemma per operation *)

(* Initially no frame is queued and the core is idle. *)
LEMMA InitFrame == Init => FrameInv
<1> SUFFICES ASSUME Init PROVE FrameInv OBVIOUS
<1> USE DEF Init
<1>1. QueueInv
  BY ConstantsOK DEF QueueInv, Active, Finishers
<1>2. StartInv BY DEF StartInv, Unkicked
<1>3. SignalInv BY DEF SignalInv
<1>4. JudgeInv BY DEF JudgeInv, Judging, Ending, Finishers
<1> QED BY <1>1, <1>2, <1>3, <1>4 DEF FrameInv

(* A step of user space that leaves the frame under way alone keeps all that
   is said about it. *)
LEMMA UserKeeps ==
  ASSUME Inv, FrameInv, running # NoCtx => Head' = Head,
         UNCHANGED <<running, curCtx, irqStatus, armed, pwrVars, removed,
                     hwVars, rpc, irqVars, finVars>>
  PROVE  StartInv' /\ SignalInv' /\ JudgeInv'
<1> USE DEF pwrVars, hwVars, irqVars, finVars
<1>1. StartInv'
  BY IdleAlone DEF FrameInv, StartInv, Unkicked, Quiet, Owning
<1>2. SignalInv'
  <2>1. curCtx # NoCtx => Head' = Head BY IdleAlone
  <2> QED BY <2>1 DEF FrameInv, SignalInv, Owning, Ending, Seen, Broken, Whole
<1>3. JudgeInv'
  <2>1. curCtx # NoCtx => Head' = Head BY IdleAlone
  <2>2. pc["thread"] \in {"done", "detach", "m2m"} => Head' = Head
    BY OwnerAlone DEF Owning, Finishers
  <2> QED BY <2>1, <2>2 DEF FrameInv, JudgeInv, Judging, Owning, Ending, Broken,
      Whole
<1> QED BY <1>1, <1>2, <1>3

(* A frame queued later is not before the frame under way. *)
LEMMA BufQueueHead ==
  ASSUME Inv, FrameInv, NEW j \in Jobs, BufQueue(j), running # NoCtx
  PROVE  Head' = Head /\ Pending(running)' # {}
<1> USE DEF BufQueue
<1>1. \A k \in Jobs : job'[k] = IF k = j THEN "queued" ELSE job[k]
  BY DEF Inv, TypeOK
<1>2. \A c : Pending(c)' = IF c = Owner[j] THEN Pending(c) \cup {j} ELSE Pending(c)
  BY <1>1 DEF Pending
<1>3. Pending(running) # {} BY DEF FrameInv, QueueInv
<1>4. Head \in Pending(running) /\ \A k \in Pending(running) : Head <= k
  BY <1>3, HeadIsQueued DEF Head
<1>5. Owner[j] = running => Head < j
  BY <1>4 DEF Pending, FrameInv, QueueInv
<1>6. Head \in Pending(running)' /\ \A k \in Pending(running)' : Head <= k
  BY <1>2, <1>4, <1>5 DEF Pending, Jobs
<1>7. HeadOf(running)' = Head BY <1>6, NextHeadIsLeast
<1> QED BY <1>6, <1>7 DEF Head

(* QBUF leaves the job under way alone. *)
LEMMA BufQueueFrame ==
  ASSUME Inv, FrameInv, NEW j \in Jobs, BufQueue(j) PROVE FrameInv'
<1> USE DEF BufQueue
<1>1. \A k \in Jobs : job'[k] = IF k = j THEN "queued" ELSE job[k]
  BY DEF Inv, TypeOK
<1>2. running # NoCtx => Head' = Head /\ Pending(running)' # {}
  BY BufQueueHead
<1>3. QueueInv'
  <2>1. \A k, l \in Jobs :
          Owner[k] = Owner[l] /\ job'[k] = "queued" /\ job'[l] = "new" => k < l
    BY <1>1 DEF Jobs, FrameInv, QueueInv
  <2>2. \A k \in Jobs : job'[k] = "done" => k \in encoded'
    BY <1>1 DEF FrameInv, QueueInv, hwVars
  <2> QED BY <1>2, <2>1, <2>2
      DEF FrameInv, QueueInv, Active, irqVars, finVars
<1> QED BY <1>2, <1>3, UserKeeps DEF FrameInv

(* Returning frames of another context does not change it either. *)
LEMMA ReturnHead ==
  ASSUME Inv, NEW c \in Ctxs, c # running, NEW how \in {"new", "error"},
         job' = [j \in Jobs |-> IF j \in Pending(c) THEN how ELSE job[j]],
         UNCHANGED running, running # NoCtx
  PROVE  Head' = Head /\ Pending(running)' = Pending(running)
<1>1. Pending(running)' = Pending(running)
  BY DEF Pending, Inv, TypeOK
<1>2. HeadOf(running)' = HeadOf(running) BY <1>1, Zenon DEF HeadOf
<1> QED BY <1>1, <1>2 DEF Head

(* Frames that go back to user space leave the job under way alone. *)
LEMMA ReturnFrame ==
  ASSUME Inv, FrameInv, NEW c \in Ctxs, c # running, NEW how \in {"new", "error"},
         job' = [j \in Jobs |-> IF j \in Pending(c) THEN how ELSE job[j]],
         running # NoCtx => running \in streaming',
         UNCHANGED <<running, curCtx, irqStatus, armed, pwrVars, removed,
                     hwVars, rpc, irqVars, finVars>>
  PROVE  FrameInv'
<1>1. running # NoCtx => Head' = Head /\ Pending(running)' = Pending(running)
  BY ReturnHead
<1>2. QueueInv'
  <2>1. \A k, l \in Jobs :
          Owner[k] = Owner[l] /\ job'[k] = "queued" /\ job'[l] = "new" => k < l
    BY DEF FrameInv, QueueInv, Pending
  <2>2. \A k \in Jobs : job'[k] = "done" => k \in encoded'
    BY DEF FrameInv, QueueInv, hwVars
  <2> QED BY <1>1, <2>1, <2>2
      DEF FrameInv, QueueInv, Active, irqVars, finVars
<1> QED BY <1>1, <1>2, UserKeeps DEF FrameInv

(* start_streaming: a context that runs is already streaming. *)
LEMMA StartStreamingFrame ==
  ASSUME Inv, FrameInv, NEW c \in Ctxs, StartStreaming(c) PROVE FrameInv'
<1>1. c # running BY ConstantsOK DEF StartStreaming, FrameInv, QueueInv
<1>2. CASE streaming' = streaming \cup {c} /\ UNCHANGED job
  <2>1. UNCHANGED <<job, running>> BY <1>2 DEF StartStreaming
  <2>2. Head' = Head /\ \A d : Pending(d)' = Pending(d) BY <2>1, SameHead
  <2>3. QueueInv'
    BY <1>2, <2>1, <2>2
    DEF StartStreaming, FrameInv, QueueInv, Active, hwVars, irqVars, finVars
  <2> QED BY <2>2, <2>3, UserKeeps DEF StartStreaming, FrameInv
<1>3. CASE UNCHANGED streaming
  BY <1>1, <1>3, ReturnFrame DEF StartStreaming, FrameInv, QueueInv
<1> QED BY <1>2, <1>3 DEF StartStreaming

(* streamoff waits until its context does not run. *)
LEMMA StopStreamingFrame ==
  ASSUME Inv, FrameInv, NEW c \in Ctxs, StopStreaming(c) PROVE FrameInv'
<1>1. running # NoCtx => running \in streaming'
  BY DEF StopStreaming, FrameInv, QueueInv
<1> QED BY <1>1, ReturnFrame DEF StopStreaming

(* remove() takes the pending watchdog; the job stays as it is. *)
LEMMA RemoveCancelFrame ==
  ASSUME Inv, FrameInv, RemoveCancel PROVE FrameInv'
<1> USE DEF RemoveCancel, m2mVars, pwrVars, hwVars, irqVars, finVars
<1>1. Head' = Head /\ \A c : Pending(c)' = Pending(c) BY SameHead
<1>2. QueueInv' BY <1>1 DEF FrameInv, QueueInv, Active
<1>3. StartInv' BY <1>1 DEF FrameInv, StartInv, Unkicked, Quiet, Owning
<1>4. SignalInv'
  BY <1>1 DEF FrameInv, SignalInv, Owning, Ending, Seen, Broken, Whole
<1>5. JudgeInv'
  BY <1>1 DEF FrameInv, JudgeInv, Judging, Owning, Ending, Broken, Whole
<1> QED BY <1>2, <1>3, <1>4, <1>5 DEF FrameInv

(* A busy core has been started and has said nothing final yet. *)
LEMMA BusyCore ==
  ASSUME Inv, FrameInv, Busy
  PROVE  /\ hwJob = Head /\ curCtx # NoCtx /\ running # NoCtx
         /\ \A j \in Jobs : ~Unkicked(j)
         /\ pc["thread"] # "reset" /\ \A f \in Finishers : ~Ending(f)
         /\ Judging => Owning("watchdog")
         /\ ~Owning("watchdog") => "err" \notin Seen /\ "done" \notin Seen /\ ~late
<1> USE DEF Busy
<1>1. hwJob = Head /\ curCtx # NoCtx BY DEF FrameInv, StartInv
<1>2. running # NoCtx BY <1>1, IdleAlone
<1>3. \A j \in Jobs : ~Unkicked(j) BY DEF FrameInv, StartInv
<1>4. pc["thread"] # "reset" /\ \A f \in Finishers : ~Ending(f)
  BY DEF FrameInv, JudgeInv, Broken
<1>5. ~Owning("watchdog") => "err" \notin Seen /\ "done" \notin Seen /\ ~late
  BY <1>1, <1>3, <1>4 DEF FrameInv, SignalInv, Unkicked, Broken, Whole, Finishers
<1>6. Judging => Owning("watchdog")
  BY <1>1, <1>5 DEF FrameInv, JudgeInv, Whole, Seen
<1> QED BY <1>1, <1>2, <1>3, <1>4, <1>5, <1>6

(* A slice is no verdict. *)
LEMMA HwSliceFrame == ASSUME Inv, FrameInv, HwSlice PROVE FrameInv'
<1> USE DEF HwSlice, m2mVars, pwrVars, irqVars, finVars
<1>1. Head' = Head /\ \A c : Pending(c)' = Pending(c) BY SameHead
<1>2. QueueInv' BY <1>1 DEF FrameInv, QueueInv, Active
<1>3. StartInv'
  BY <1>1, BusyCore DEF FrameInv, StartInv, Unkicked, Quiet, Owning
<1>4. SignalInv'
  <2>1. ("err" \in Seen' => "err" \in Seen) /\ ("done" \in Seen' => "done" \in Seen)
        /\ (fifo' = "last" => fifo = "last")
    BY DEF Seen
  <2> QED BY <1>1, <2>1 DEF FrameInv, SignalInv, Owning, Ending, Broken, Whole
<1>5. JudgeInv'
  BY <1>1, BusyCore DEF FrameInv, JudgeInv, Judging, Owning, Ending, Broken, Whole,
     Finishers
<1> QED BY <1>2, <1>3, <1>4, <1>5 DEF FrameInv

(* The last slice comes with a whole frame. *)
LEMMA HwFinishFrame == ASSUME Inv, FrameInv, HwFinish PROVE FrameInv'
<1> USE DEF HwFinish, m2mVars, pwrVars, irqVars, finVars
<1>1. Head' = Head /\ \A c : Pending(c)' = Pending(c) BY SameHead
<1>2. Whole' BY <1>1, BusyCore DEF Whole
<1>3. encoded \subseteq encoded' OBVIOUS
<1>4. QueueInv' BY <1>1, <1>3 DEF FrameInv, QueueInv, Active
<1>5. StartInv'
  BY <1>1, BusyCore DEF FrameInv, StartInv, Unkicked, Quiet, Owning
<1>6. SignalInv'
  <2>1. "err" \in Seen' => "err" \in Seen BY DEF Seen
  <2> QED BY <1>1, <1>2, <2>1, BusyCore DEF FrameInv, SignalInv, Owning, Ending
<1>7. JudgeInv'
  BY <1>1, <1>2, <1>3, BusyCore DEF FrameInv, JudgeInv, Judging, Owning, Ending, Broken,
     Whole, Finishers
<1> QED BY <1>4, <1>5, <1>6, <1>7 DEF FrameInv

(* A late enc_done was already announced by the last slice. *)
LEMMA HwLateDoneFrame == ASSUME Inv, FrameInv, HwLateDone PROVE FrameInv'
<1> USE DEF HwLateDone, m2mVars, pwrVars, irqVars, finVars
<1>1. Head' = Head /\ \A c : Pending(c)' = Pending(c) BY SameHead
<1>2. QueueInv' BY <1>1 DEF FrameInv, QueueInv, Active
<1>3. StartInv' BY <1>1 DEF FrameInv, StartInv, Unkicked, Quiet, Owning
<1>4. SignalInv'
  <2>1. "err" \in Seen' => "err" \in Seen BY DEF Seen
  <2> QED BY <1>1, <2>1 DEF FrameInv, SignalInv, Owning, Ending, Broken, Whole
<1>5. JudgeInv'
  BY <1>1 DEF FrameInv, JudgeInv, Judging, Owning, Ending, Broken, Whole
<1> QED BY <1>2, <1>3, <1>4, <1>5 DEF FrameInv

(* An error leaves the core stopped on the frame. *)
LEMMA HwErrorFrame == ASSUME Inv, FrameInv, HwError PROVE FrameInv'
<1> USE DEF HwError, m2mVars, pwrVars, irqVars, finVars
<1>1. Head' = Head /\ \A c : Pending(c)' = Pending(c) BY SameHead
<1>2. QueueInv' BY <1>1 DEF FrameInv, QueueInv, Active
<1>3. StartInv'
  BY <1>1, BusyCore DEF FrameInv, StartInv, Unkicked, Quiet, Owning
<1>4. SignalInv'
  <2>1. "done" \in Seen' => "done" \in Seen BY DEF Seen
  <2>2. Broken' BY DEF Busy, Broken
  <2> QED BY <1>1, <2>1, <2>2, BusyCore DEF FrameInv, SignalInv, Owning, Ending, Whole
<1>5. JudgeInv'
  BY <1>1, BusyCore DEF FrameInv, JudgeInv, Judging, Owning, Ending, Broken, Whole,
     Finishers
<1> QED BY <1>2, <1>3, <1>4, <1>5 DEF FrameInv

(* Autosuspend: with no power reference left, no job depends on the core. *)
LEMMA RuntimeSuspendFrame == ASSUME Inv, FrameInv, RuntimeSuspend PROVE FrameInv'
<1> USE DEF RuntimeSuspend, ResetCore, m2mVars, irqVars, finVars
<1>1. Head' = Head /\ \A c : Pending(c)' = Pending(c) BY SameHead
<1>2. curCtx = NoCtx \/ \E f \in Finishers : pc[f] = "detach"
  BY DEF Inv, JobInv, PowerBalanced, JobHeld
<1>3. \A j \in Jobs : ~Unkicked(j)
  BY <1>2, UnkickedAlone DEF Owning, Nobody
<1>4. QueueInv' BY <1>1 DEF FrameInv, QueueInv, Active
<1>5. StartInv' BY <1>1, <1>3 DEF FrameInv, StartInv, Unkicked
<1>6. SignalInv'
  BY <1>1, <1>2 DEF SignalInv, Owning, Ending, Finishers
<1>7. JudgeInv'
  <2>1. pc["thread"] # "reset"
    <3> SUFFICES ASSUME pc["thread"] = "reset" PROVE FALSE OBVIOUS
    <3>1. Owning("thread") BY DEF Owning
    <3>2. curCtx # NoCtx BY <3>1 DEF Inv, JobInv, Finishers
    <3> QED BY <1>2, <3>1, <3>2, OwnerAlone DEF Owning, Finishers
  <2>2. Judging /\ curCtx # NoCtx => Owning("watchdog")
    BY <1>2 DEF Judging, Owning, Finishers
  <2> QED BY <1>1, <2>1, <2>2 DEF FrameInv, JudgeInv, Judging, Owning, Ending
<1> QED BY <1>4, <1>5, <1>6, <1>7 DEF FrameInv

(* The frame under way is queued in the running context. *)
LEMMA HeadUnderWay ==
  ASSUME FrameInv, running # NoCtx
  PROVE  Head \in Jobs /\ Owner[Head] = running /\ job[Head] = "queued"
<1>1. Head \in Pending(running)
  BY HeadIsQueued DEF FrameInv, QueueInv, Head
<1> QED BY <1>1 DEF Pending

(* The mem2mem core starts the oldest frame of a streaming context. *)
LEMMA DispatchFrame ==
  ASSUME Inv, FrameInv, NEW c \in Ctxs, Dispatch(c) PROVE FrameInv'
<1> USE DEF Dispatch, pwrVars, hwVars, irqVars, finVars
<1>1. c # NoCtx BY ConstantsOK
<1>2. \A d : Pending(d)' = Pending(d) BY DEF Pending
<1>3. Head' = HeadOf(c)
  <2>1. HeadOf(running)' = HeadOf(c) BY <1>2, Zenon DEF HeadOf
  <2> QED BY <2>1 DEF Head
<1>4. \A j \in Jobs : rpc'[j] = IF j = HeadOf(c) THEN "resume" ELSE rpc[j]
  BY DEF Inv, TypeOK
<1>5. \A j \in Jobs : Unkicked(j)' => Unkicked(j)
  BY <1>4 DEF Unkicked
<1>6. QueueInv'
  <2>1. \A j \in Jobs : Active(j)' => j = Head'
    BY <1>3, <1>4, IdleAlone DEF Active
  <2>2. Pending(running)' # {} BY <1>2
  <2>3. \A f \in Finishers :
          pc[f] \notin {"owned", "reset", "done", "detach", "m2m"}
    BY IdleAlone DEF Nobody, Owning
  <2> QED BY <1>1, <2>1, <2>2, <2>3, IdleAlone DEF FrameInv, QueueInv
<1>7. StartInv' BY <1>5, IdleAlone DEF FrameInv, StartInv, Quiet, Unkicked
<1>8. SignalInv' BY IdleAlone DEF SignalInv
<1>9. JudgeInv'
  BY IdleAlone DEF FrameInv, JudgeInv, Judging, Ending, Broken, Nobody, Owning,
     Finishers
<1> QED BY <1>6, <1>7, <1>8, <1>9 DEF FrameInv

(* Completing the frame under way releases the running context. *)
LEMMA CompleteHead ==
  ASSUME Inv, FrameInv, running # NoCtx, NEW s \in Outcomes,
         M2mFinish(running, s)
  PROVE  /\ running' = NoCtx
         /\ \A j \in Jobs : job'[j] = IF j = Head THEN s ELSE job[j]
  BY HeadUnderWay DEF M2mFinish, FrameInv, QueueInv, Head, Inv, TypeOK

(* Once the frame under way is handed back, with the core idle and no
   cur_ctx, nothing is left of the job. *)
LEMMA CompleteFrame ==
  ASSUME Inv, FrameInv, running # NoCtx, NEW s \in Outcomes,
         M2mFinish(running, s), s = "done" => Head \in encoded,
         curCtx = NoCtx, \A f \in Finishers : ~Owning(f)',
         \A j \in Jobs : ~Active(j)',
         pc'["thread"] # "loaded" \/ pc'["thread"] = pc["thread"],
         UNCHANGED <<streaming, curCtx, irqStatus, armed, removed, hwVars,
                     irqVars, fctx, fst>>
  PROVE  FrameInv'
<1> USE DEF hwVars, irqVars
<1>1. running' = NoCtx /\ \A j \in Jobs : job'[j] = IF j = Head THEN s ELSE job[j]
  BY CompleteHead
<1>2. QueueInv'
  <2>1. \A k, l \in Jobs :
          Owner[k] = Owner[l] /\ job'[k] = "queued" /\ job'[l] = "new" => k < l
    BY <1>1 DEF FrameInv, QueueInv, Outcomes
  <2>2. \A k \in Jobs : job'[k] = "done" => k \in encoded'
    BY <1>1 DEF FrameInv, QueueInv
  <2>3. \A f \in Finishers :
          pc'[f] \notin {"owned", "reset", "done", "detach", "m2m"}
    BY DEF Owning
  <2> QED BY <1>1, <2>1, <2>2, <2>3 DEF QueueInv
<1>3. StartInv'
  BY DEF FrameInv, StartInv, Active, Unkicked
<1>4. SignalInv' BY DEF SignalInv
<1>5. JudgeInv'
  BY DEF JudgeInv, Ending, Owning, Finishers
<1> QED BY <1>2, <1>3, <1>4, <1>5 DEF FrameInv

(* device_run(): the error paths give the frame back. *)
LEMMA ErrorPathFrame ==
  ASSUME Inv, FrameInv, NEW j \in Jobs, PowerUpFails(j) \/ ClockOnFails(j)
  PROVE  FrameInv'
<1>1. Claiming(j) BY DEF PowerUpFails, ClockOnFails, RunTo, Claiming
<1>2. rpc' = [rpc EXCEPT ![j] = "returned"] /\ M2mFinish(Owner[j], "error")
  BY DEF PowerUpFails, ClockOnFails, RunTo
<1>3. UNCHANGED <<streaming, curCtx, irqStatus, armed, removed, hwVars, irqVars,
                  pc, fctx, fst>>
  BY DEF PowerUpFails, ClockOnFails, finVars, pwrVars
<1>4. curCtx = NoCtx /\ running # NoCtx /\ j = Head /\ Nobody
      /\ \A k \in Jobs : Active(k) => k = j
  BY <1>1, ClaimingAlone
<1>5. Owner[j] = running BY <1>4, HeadUnderWay
<1>6. \A k \in Jobs : ~Active(k)'
  BY <1>2, <1>4 DEF Active, Inv, TypeOK
<1>7. \A f \in Finishers : ~Owning(f)' BY <1>3, <1>4 DEF Nobody, Owning
<1> QED BY <1>2, <1>3, <1>4, <1>5, <1>6, <1>7, CompleteFrame DEF Outcomes

(* A step of device_run() before the claim touches only its own references. *)
LEMMA PrepareFrame ==
  ASSUME Inv, FrameInv, NEW j \in Jobs, PowerUp(j) \/ ClockOn(j)
  PROVE  FrameInv'
<1> USE DEF m2mVars, hwVars, irqVars, finVars
<1>1. UNCHANGED <<job, running, streaming, curCtx, irqStatus, armed, removed,
                  hwVars, irqVars, finVars>>
  BY DEF PowerUp, ClockOn
<1>2. \A k \in Jobs : (Active(k)' => Active(k)) /\ (Unkicked(k)' => Unkicked(k))
                     /\ (rpc[k] = "clear" => rpc'[k] = "clear")
  BY DEF PowerUp, ClockOn, RunTo, Active, Unkicked, Inv, TypeOK
<1>3. Head' = Head /\ \A c : Pending(c)' = Pending(c) BY <1>1, SameHead
<1>4. QueueInv' BY <1>1, <1>2, <1>3 DEF FrameInv, QueueInv
<1>5. StartInv'
  <2>1. \A k \in Jobs : rpc'[k] \in {"clear", "arm", "kick"} => rpc'[k] = rpc[k]
    BY DEF PowerUp, ClockOn, RunTo, Inv, TypeOK
  <2> QED BY <1>1, <1>3, <2>1 DEF FrameInv, StartInv, Unkicked, Quiet, Owning
<1>6. SignalInv'
  BY <1>1, <1>2, <1>3 DEF FrameInv, SignalInv, Owning, Ending, Seen, Broken, Whole
<1>7. JudgeInv'
  BY <1>1, <1>3 DEF FrameInv, JudgeInv, Judging, Owning, Ending, Broken, Whole
<1> QED BY <1>4, <1>5, <1>6, <1>7 DEF FrameInv

(* dev->cur_ctx = ctx: without a stray, on a silent core. *)
LEMMA ClaimFrame ==
  ASSUME Inv, FrameInv, ~strayed', NEW j \in Jobs, Claim(j) PROVE FrameInv'
<1> USE DEF m2mVars, hwVars, irqVars, finVars
<1>1. Claiming(j) BY DEF Claim, RunTo, Claiming
<1>2. /\ curCtx = NoCtx /\ running # NoCtx /\ j = Head /\ Nobody
      /\ hwJob = NoJob /\ fifo = "empty" /\ \A k \in Jobs : Active(k) => k = j
  BY <1>1, ClaimingAlone
<1>3. Quiet /\ ~late /\ Owner[j] = running /\ running \in Ctxs
  BY <1>2, HeadUnderWay, ConstantsOK DEF Claim
<1>4. UNCHANGED <<job, running, streaming, irqStatus, armed, removed, hwVars,
                  irqVars, finVars>> /\ curCtx' = running
  BY <1>3 DEF Claim
<1>5. rpc'[j] = "clear" /\ \A k \in Jobs : k # j => rpc'[k] = rpc[k]
  BY DEF Claim, RunTo, Inv, TypeOK
<1>6. Head' = Head /\ \A c : Pending(c)' = Pending(c) BY <1>4, SameHead
<1>7. QueueInv'
  BY <1>2, <1>3, <1>4, <1>5, <1>6 DEF FrameInv, QueueInv, Active, Quiet
<1>8. StartInv'
  <2>1. \A k \in Jobs : Unkicked(k)' => k = j
    BY <1>2, <1>5 DEF Active, Unkicked
  <2> QED BY <1>2, <1>3, <1>4, <1>5, <2>1, ConstantsOK
      DEF FrameInv, StartInv, Quiet, Nobody, Owning
<1>9. SignalInv' BY <1>5 DEF SignalInv
<1>10. JudgeInv'
  BY <1>2, <1>3, <1>4, <1>6 DEF FrameInv, JudgeInv, Judging, Owning, Ending, Broken,
     Quiet, Nobody
<1> QED BY <1>7, <1>8, <1>9, <1>10 DEF FrameInv

(* dev->irq_status = 0: nothing said about earlier frames remains. *)
LEMMA ClearStatusFrame ==
  ASSUME Inv, FrameInv, NEW j \in Jobs, ClearStatus(j) PROVE FrameInv'
<1> USE DEF ClearStatus, RunTo, m2mVars, hwVars, irqVars, finVars
<1>1. Unkicked(j) BY DEF Unkicked
<1>2. /\ curCtx # NoCtx /\ Quiet /\ ~late /\ fifo = "empty" /\ hsta = {} /\ Nobody
      /\ \A k \in Jobs : Active(k) => k = j
  BY <1>1, UnkickedAlone
<1>3. Head' = Head /\ \A c : Pending(c)' = Pending(c) BY SameHead
<1>4. rpc'[j] = "arm" /\ \A k \in Jobs : k # j => rpc'[k] = rpc[k]
  BY DEF Inv, TypeOK
<1>5. \A k \in Jobs : (Active(k)' <=> Active(k)) /\ (Unkicked(k)' <=> Unkicked(k))
  BY <1>4 DEF Active, Unkicked
<1>6. QueueInv' BY <1>3, <1>5 DEF FrameInv, QueueInv
<1>7. StartInv'
  BY <1>3, <1>4, <1>5 DEF FrameInv, StartInv, Quiet, Owning
<1>8. Seen' = {} BY <1>2 DEF Seen, Quiet
<1>9. SignalInv' BY <1>2, <1>8 DEF SignalInv
<1>10. JudgeInv'
  BY <1>2, <1>3 DEF FrameInv, JudgeInv, Judging, Owning, Ending, Broken, Quiet
<1> QED BY <1>6, <1>7, <1>9, <1>10 DEF FrameInv

(* The watchdog is scheduled while the core is still silent. *)
LEMMA ArmWatchdogFrame ==
  ASSUME Inv, FrameInv, NEW j \in Jobs, ArmWatchdog(j) PROVE FrameInv'
<1> USE DEF ArmWatchdog, RunTo, m2mVars, hwVars, irqVars, finVars
<1>1. Unkicked(j) BY DEF Unkicked
<1>2. \A k \in Jobs : Active(k) => k = j BY <1>1, UnkickedAlone
<1>3. Head' = Head /\ \A c : Pending(c)' = Pending(c) BY SameHead
<1>4. rpc'[j] = "kick" /\ \A k \in Jobs : k # j => rpc'[k] = rpc[k]
  BY DEF Inv, TypeOK
<1>5. \A k \in Jobs : (Active(k)' <=> Active(k)) /\ (Unkicked(k)' <=> Unkicked(k))
                     /\ (rpc'[k] = "clear" <=> rpc[k] = "clear")
  BY <1>4 DEF Active, Unkicked
<1>6. QueueInv' BY <1>3, <1>5 DEF FrameInv, QueueInv
<1>7. StartInv'
  BY <1>3, <1>4, <1>5 DEF FrameInv, StartInv, Quiet, Owning
<1>8. SignalInv'
  BY <1>3, <1>5 DEF FrameInv, SignalInv, Owning, Ending, Seen, Broken, Whole
<1>9. JudgeInv'
  BY <1>3 DEF FrameInv, JudgeInv, Judging, Owning, Ending, Broken, Whole
<1> QED BY <1>6, <1>7, <1>8, <1>9 DEF FrameInv

(* The job holds its power reference, so the write to the start register
   reaches a powered core. *)
LEMMA KickFrame ==
  ASSUME Inv, FrameInv, NEW j \in Jobs, Kick(j) PROVE FrameInv'
<1> USE DEF Kick, RunTo, m2mVars, hwVars, irqVars, finVars
<1>1. Unkicked(j) BY DEF Unkicked
<1>2. /\ curCtx # NoCtx /\ running # NoCtx /\ j = Head
      /\ Quiet /\ ~late /\ fifo = "empty" /\ hsta = {} /\ Nobody
      /\ \A k \in Jobs : Active(k) => k = j
  BY <1>1, UnkickedAlone
<1>3. irqStatus = {} BY <1>1 DEF FrameInv, StartInv
<1>4. Head' = Head /\ \A c : Pending(c)' = Pending(c) BY SameHead
<1>5. rpc'[j] = "returned" /\ \A k \in Jobs : k # j => rpc'[k] = rpc[k]
  BY DEF Inv, TypeOK
<1>6. \A k \in Jobs : ~Active(k)' /\ ~Unkicked(k)' /\ rpc'[k] # "clear"
  BY <1>2, <1>5 DEF Active, Unkicked
<1>7. QueueInv' BY <1>4, <1>6 DEF FrameInv, QueueInv
<1>8. hwJob' \in {hwJob, j} OBVIOUS
<1>9. StartInv'
  BY <1>2, <1>4, <1>6, <1>8 DEF FrameInv, StartInv, Quiet, Owning
<1>10. Seen' = {} BY <1>2, <1>3 DEF Seen, Quiet
<1>11. SignalInv' BY <1>2, <1>10 DEF SignalInv
<1>12. JudgeInv'
  BY <1>2, <1>4 DEF FrameInv, JudgeInv, Judging, Owning, Ending, Broken, Quiet, Nobody
<1> QED BY <1>7, <1>9, <1>11, <1>12 DEF FrameInv

(* Before a job is started its interrupts cannot be there to be handled. *)
LEMMA NotQuiet ==
  ASSUME Inv, FrameInv, ~Quiet
  PROVE  \A j \in Jobs : ~Unkicked(j)
BY UnkickedAlone

(* The hard handler moves INT_STA to its local status, ... *)
LEMMA IrqTakeFrame == ASSUME Inv, FrameInv, IrqTake PROVE FrameInv'
<1> USE DEF IrqTake, m2mVars, pwrVars, finVars
<1>1. Head' = Head /\ \A c : Pending(c)' = Pending(c) BY SameHead
<1>2. \A j \in Jobs : ~Unkicked(j) BY NotQuiet DEF Quiet
<1>3. QueueInv' BY <1>1 DEF FrameInv, QueueInv, Active
<1>4. StartInv' BY <1>1, <1>2 DEF FrameInv, StartInv, Unkicked
<1>5. Seen' = Seen
  <2>1. hsta = {} BY DEF FrameInv, StartInv
  <2> QED BY <2>1 DEF Seen
<1>6. SignalInv'
  BY <1>1, <1>5 DEF FrameInv, SignalInv, Owning, Ending, Broken, Whole
<1>7. JudgeInv'
  BY <1>1 DEF FrameInv, JudgeInv, Judging, Owning, Ending, Broken, Whole
<1> QED BY <1>3, <1>4, <1>6, <1>7 DEF FrameInv

(* ... drops it when there is no job, ... *)
LEMMA IrqNoJobFrame == ASSUME Inv, FrameInv, IrqNoJob PROVE FrameInv'
<1> USE DEF IrqNoJob, m2mVars, pwrVars, hwVars, finVars
<1>1. Head' = Head /\ \A c : Pending(c)' = Pending(c) BY SameHead
<1>2. \A j \in Jobs : ~Unkicked(j) BY NotQuiet DEF Quiet
<1>3. QueueInv' BY <1>1 DEF FrameInv, QueueInv, Active
<1>4. StartInv' BY <1>1, <1>2 DEF FrameInv, StartInv, Unkicked
<1>5. SignalInv' BY DEF SignalInv
<1>6. JudgeInv'
  BY <1>1 DEF FrameInv, JudgeInv, Judging, Owning, Ending, Broken, Whole
<1> QED BY <1>3, <1>4, <1>5, <1>6 DEF FrameInv

(* ... and otherwise adds it to dev->irq_status, after draining the FIFO. It
   wakes the thread only for a frame that is whole or broken. *)
LEMMA IrqJobFrame == ASSUME Inv, FrameInv, IrqJob PROVE FrameInv'
<1> USE DEF m2mVars, pwrVars, finVars
<1>1. /\ UNCHANGED <<job, running, streaming, curCtx, armed, removed, hwJob, wedged,
                     intSta, late, encoded, rpc, fctx, fst>>
      /\ curCtx # NoCtx /\ hpc = "taken" /\ hpc' = "idle" /\ hsta' = {}
      /\ fifo' = "empty"
  BY DEF IrqJob
<1>2. Head' = Head /\ \A c : Pending(c)' = Pending(c) BY <1>1, SameHead
<1>3. \A j \in Jobs : ~Unkicked(j) BY <1>1, NotQuiet DEF Quiet
<1>4. pc["thread"] = "idle" BY <1>1 DEF Inv, JobInv
<1>5. irqStatus' \subseteq Seen /\ irqStatus \subseteq irqStatus'
      /\ hsta \subseteq irqStatus'
  BY DEF IrqJob, Seen
<1>6. pc'["watchdog"] = pc["watchdog"] /\ pc'["thread"] \in {"idle", "woken"}
  BY <1>4 DEF IrqJob, Inv, TypeOK
<1>7. pc'["thread"] = "woken" => fifo = "last" \/ irqStatus' \cap {"done", "err"} # {}
  BY <1>4, <1>5 DEF IrqJob
<1>8. Seen' \subseteq Seen BY <1>1, <1>5 DEF Seen
<1>9. QueueInv'
  <2>1. \A f \in Finishers :
          pc'[f] \in {"owned", "reset", "done", "detach", "m2m"} => pc'[f] = pc[f]
    BY <1>6 DEF Finishers
  <2> QED BY <1>1, <1>2, <1>6, <2>1 DEF FrameInv, QueueInv, Active
<1>10. StartInv' BY <1>1, <1>2, <1>3 DEF FrameInv, StartInv, Unkicked
<1>11. (Owning("watchdog")' <=> Owning("watchdog"))
  BY <1>6 DEF Owning
<1>12. ~Owning("watchdog") =>
         /\ "err" \in Seen => Broken
         /\ "done" \in Seen \/ late \/ fifo = "last" => Whole
  BY <1>1, <1>3, <1>4 DEF FrameInv, SignalInv, Ending, Unkicked
<1>13. SignalInv'
  BY <1>1, <1>2, <1>8, <1>11, <1>12 DEF SignalInv, Broken, Whole
<1>14. JudgeInv'
  <2>1. pc'["thread"] = "woken" /\ ~Owning("watchdog") =>
          "err" \in irqStatus' \/ Whole'
    BY <1>1, <1>2, <1>5, <1>7, <1>12 DEF Whole
  <2>2. \A f \in Finishers : Ending(f)' => Ending(f)
    BY <1>6 DEF Ending, Finishers
  <2> QED BY <1>1, <1>2, <1>6, <1>11, <2>1, <2>2 DEF FrameInv, JudgeInv, Judging
<1> QED BY <1>9, <1>10, <1>13, <1>14 DEF FrameInv

(* The interrupt thread works for the context whose job it was woken for. *)
LEMMA ThreadLoadFrame == ASSUME Inv, FrameInv, ThreadLoad PROVE FrameInv'
<1> USE DEF ThreadLoad, StepTo, m2mVars, pwrVars, hwVars, irqVars
<1>1. Head' = Head /\ \A c : Pending(c)' = Pending(c) BY SameHead
<1>2. /\ pc["thread"] = "woken" /\ pc'["watchdog"] = pc["watchdog"]
      /\ pc'["thread"] = IF curCtx = NoCtx THEN "idle" ELSE "loaded"
      /\ fctx'["thread"] = curCtx /\ fctx'["watchdog"] = fctx["watchdog"]
  BY DEF Inv, TypeOK, Finishers
<1>3. \A j \in Jobs : ~Unkicked(j) BY <1>2, NotQuiet DEF Quiet
<1>4. QueueInv' BY <1>1, <1>2 DEF FrameInv, QueueInv, Active, Finishers
<1>5. StartInv' BY <1>1, <1>3 DEF FrameInv, StartInv, Unkicked
<1>6. SignalInv'
  BY <1>1, <1>2 DEF FrameInv, SignalInv, Owning, Ending, Seen, Broken, Whole
<1>7. JudgeInv'
  BY <1>1, <1>2 DEF FrameInv, JudgeInv, Judging, Owning, Ending, Broken, Whole,
     Finishers
<1> QED BY <1>4, <1>5, <1>6, <1>7 DEF FrameInv

(* cancel_delayed_work(): the thread owns the job it loaded, because the
   pending watchdog is that of cur_ctx. *)
LEMMA ThreadCancelFrame == ASSUME Inv, FrameInv, ThreadCancel PROVE FrameInv'
<1> USE DEF ThreadCancel, StepTo, m2mVars, pwrVars, hwVars, irqVars
<1>1. Head' = Head /\ \A c : Pending(c)' = Pending(c) BY SameHead
<1>2. /\ pc["thread"] = "loaded" /\ pc'["watchdog"] = pc["watchdog"]
      /\ pc'["thread"] = IF armed THEN "owned" ELSE "idle"
  BY DEF Inv, TypeOK, Finishers
<1>3. \A j \in Jobs : ~Unkicked(j) BY <1>2, NotQuiet DEF Quiet
<1>4. armed => curCtx # NoCtx BY DEF Inv, JobInv
<1>5. QueueInv' BY <1>1, <1>2, <1>4 DEF FrameInv, QueueInv, Active, Finishers
<1>6. StartInv' BY <1>1, <1>3 DEF FrameInv, StartInv, Unkicked
<1>7. SignalInv'
  BY <1>1, <1>2 DEF FrameInv, SignalInv, Owning, Ending, Seen, Broken, Whole
<1>8. JudgeInv'
  BY <1>1, <1>2 DEF FrameInv, JudgeInv, Judging, Owning, Ending, Broken, Whole,
     Finishers
<1> QED BY <1>5, <1>6, <1>7, <1>8 DEF FrameInv

(* What the owner of the job may rely on when it judges it. *)
LEMMA JudgeSees ==
  ASSUME Inv, FrameInv, pc["thread"] = "owned"
  PROVE  /\ curCtx # NoCtx /\ fifo = "empty"
         /\ IF "err" \in irqStatus THEN Broken ELSE Whole
<1>1. Owning("thread") BY DEF Owning
<1>2. curCtx # NoCtx BY <1>1 DEF Inv, JobInv, Finishers
<1>3. ~Owning("watchdog") /\ \A j \in Jobs : ~Active(j)
  BY <1>1, OwnerAlone DEF Finishers
<1>4. fifo = "empty" /\ ("err" \in irqStatus \/ Whole)
  BY <1>2, <1>3 DEF FrameInv, JudgeInv, Judging
<1>5. "err" \in Seen => Broken
  BY <1>2, <1>3 DEF FrameInv, SignalInv, Ending, Active
<1> QED BY <1>2, <1>4, <1>5 DEF Seen

(* The verdict follows what the core did to the frame. *)
LEMMA ThreadJudgeFrame == ASSUME Inv, FrameInv, ThreadJudge PROVE FrameInv'
<1> USE DEF ThreadJudge, StepTo, m2mVars, pwrVars, hwVars, irqVars
<1>1. Head' = Head /\ \A c : Pending(c)' = Pending(c) BY SameHead
<1>2. /\ pc["thread"] = "owned" /\ pc'["watchdog"] = pc["watchdog"]
      /\ pc'["thread"] = IF "err" \in irqStatus THEN "reset" ELSE "done"
      /\ fst'["watchdog"] = fst["watchdog"]
      /\ fst'["thread"] = IF "err" \in irqStatus THEN "error" ELSE "done"
  BY DEF Inv, TypeOK, Finishers
<1>3. /\ curCtx # NoCtx /\ fifo = "empty"
      /\ IF "err" \in irqStatus THEN Broken ELSE Whole
  BY <1>2, JudgeSees
<1>4. \A j \in Jobs : ~Unkicked(j) BY <1>2, NotQuiet DEF Quiet
<1>5. QueueInv' BY <1>1, <1>2 DEF FrameInv, QueueInv, Active, Finishers
<1>6. StartInv' BY <1>1, <1>4 DEF FrameInv, StartInv, Unkicked
<1>7. SignalInv'
  BY <1>1, <1>2 DEF FrameInv, SignalInv, Owning, Ending, Seen, Broken, Whole
<1>8. JudgeInv'
  BY <1>1, <1>2, <1>3 DEF FrameInv, JudgeInv, Judging, Owning, Ending, Broken, Whole,
     Finishers
<1> QED BY <1>5, <1>6, <1>7, <1>8 DEF FrameInv

(* Both resets leave an idle core to a job that ends in error. *)
LEMMA ResetFrame ==
  ASSUME Inv, FrameInv, NEW f \in Finishers, pc[f] = "reset",
         pc' = [pc EXCEPT ![f] = "done"], fst[f] = "error", ResetCore,
         UNCHANGED <<job, running, streaming, curCtx, irqStatus, armed, removed,
                     rpc, hpc, hsta, fctx, fst>>
  PROVE  FrameInv'
<1> USE DEF ResetCore
<1>1. Head' = Head /\ \A c : Pending(c)' = Pending(c) BY SameHead
<1>2. Owning(f) BY DEF Owning
<1>3. \A j \in Jobs : ~Active(j) BY <1>2, OwnerAlone
<1>4. \A j \in Jobs : ~Unkicked(j) BY <1>3 DEF Active, Unkicked
<1>5. pc'[f] = "done" /\ \A g \in Finishers : g # f => pc'[g] = pc[g] /\ ~Owning(g)
  BY <1>2, OwnerAlone DEF Inv, TypeOK
<1>6. QueueInv' BY <1>1, <1>5 DEF FrameInv, QueueInv, Active, Owning, Finishers
<1>7. StartInv' BY <1>1, <1>4 DEF FrameInv, StartInv, Unkicked
<1>8. Owning("watchdog")' \/ Ending("thread")'
  BY <1>5 DEF Owning, Ending, Finishers
<1>9. SignalInv' BY <1>8 DEF SignalInv
<1>10. Judging' => Owning("watchdog")'
  BY <1>8 DEF Judging, Ending
<1>11. JudgeInv'
  BY <1>1, <1>5, <1>10 DEF FrameInv, JudgeInv, Ending, Owning, Finishers
<1> QED BY <1>6, <1>7, <1>9, <1>11 DEF FrameInv

(* rkvenc_soft_reset() in the interrupt thread. *)
LEMMA SoftResetFrame == ASSUME Inv, FrameInv, SoftReset PROVE FrameInv'
<1>1. fst["thread"] = "error"
  BY DEF SoftReset, StepTo, FrameInv, JudgeInv
<1> QED BY <1>1, ResetFrame
    DEF SoftReset, StepTo, Finishers, m2mVars, irqVars

(* The reset of the watchdog work. *)
LEMMA WatchdogResetFrame == ASSUME Inv, FrameInv, WatchdogReset PROVE FrameInv'
<1>1. fst["watchdog"] = "error"
  BY DEF WatchdogReset, StepTo, FrameInv, JudgeInv
<1> QED BY <1>1, ResetFrame
    DEF WatchdogReset, StepTo, Finishers, m2mVars, irqVars

(* Without a stray the watchdog expires for a job that has been started. *)
LEMMA WatchdogFireFrame ==
  ASSUME Inv, FrameInv, ~strayed', WatchdogFire PROVE FrameInv'
<1> USE DEF WatchdogFire, StepTo, m2mVars, pwrVars, hwVars, irqVars
<1>1. Head' = Head /\ \A c : Pending(c)' = Pending(c) BY SameHead
<1>2. /\ pc["watchdog"] = "idle" /\ pc'["watchdog"] = "fired"
      /\ pc'["thread"] = pc["thread"]
  BY DEF Inv, TypeOK, Finishers
<1>3. \A j \in Jobs : ~Unkicked(j)
  BY DEF Unkicked, Inv, JobInv, OneOwner, Arming
<1>4. QueueInv' BY <1>1, <1>2 DEF FrameInv, QueueInv, Active, Finishers
<1>5. StartInv' BY <1>1, <1>3 DEF FrameInv, StartInv, Unkicked
<1>6. SignalInv' BY <1>2 DEF SignalInv, Owning
<1>7. JudgeInv'
  BY <1>1, <1>2 DEF FrameInv, JudgeInv, Judging, Owning, Ending, Broken, Whole,
     Finishers
<1> QED BY <1>4, <1>5, <1>6, <1>7 DEF FrameInv

(* It finds the context of its job in dev->cur_ctx. *)
LEMMA WatchdogLoadFrame == ASSUME Inv, FrameInv, WatchdogLoad PROVE FrameInv'
<1> USE DEF WatchdogLoad, StepTo, m2mVars, pwrVars, hwVars, irqVars
<1>1. Head' = Head /\ \A c : Pending(c)' = Pending(c) BY SameHead
<1>2. pc["watchdog"] = "fired" /\ pc'["thread"] = pc["thread"]
  BY DEF Inv, TypeOK, Finishers
<1>3. Owning("watchdog") BY <1>2 DEF Owning
<1>4. curCtx # NoCtx BY <1>2, <1>3 DEF Inv, JobInv, Finishers
<1>5. /\ pc'["watchdog"] = "reset" /\ fctx'["watchdog"] = curCtx
      /\ fctx'["thread"] = fctx["thread"]
      /\ fst'["watchdog"] = "error" /\ fst'["thread"] = fst["thread"]
  BY <1>4 DEF Inv, TypeOK, Finishers
<1>6. \A j \in Jobs : ~Unkicked(j)
  BY <1>3, OwnerAlone DEF Active, Unkicked, Finishers
<1>7. QueueInv' BY <1>1, <1>2, <1>5 DEF FrameInv, QueueInv, Active, Finishers
<1>8. StartInv' BY <1>1, <1>6 DEF FrameInv, StartInv, Unkicked
<1>9. SignalInv' BY <1>5 DEF SignalInv, Owning
<1>10. JudgeInv'
  BY <1>1, <1>2, <1>5 DEF FrameInv, JudgeInv, Judging, Owning, Ending, Broken, Whole,
     Finishers
<1> QED BY <1>7, <1>8, <1>9, <1>10 DEF FrameInv

(* rkvenc_job_finish() releases the references and cur_ctx of a job whose
   core is idle, ... *)
LEMMA EndingFrame ==
  ASSUME Inv, FrameInv, NEW f \in Finishers, FinishRelease(f) \/ FinishDetach(f)
  PROVE  FrameInv'
<1> USE DEF m2mVars, hwVars, irqVars
<1>1. /\ Ending(f) /\ pc' = [pc EXCEPT ![f] = IF pc[f] = "done" THEN "detach" ELSE "m2m"]
      /\ curCtx' = IF pc[f] = "done" THEN curCtx ELSE NoCtx
      /\ UNCHANGED <<job, running, streaming, irqStatus, armed, removed, hwVars, rpc,
                     irqVars, fctx, fst>>
  BY DEF FinishRelease, FinishDetach, StepTo, Ending
<1>2. Head' = Head /\ \A c : Pending(c)' = Pending(c) BY <1>1, SameHead
<1>3. Owning(f) BY <1>1 DEF Ending, Owning
<1>4. \A j \in Jobs : ~Unkicked(j)
  BY <1>3, OwnerAlone DEF Active, Unkicked
<1>5. hwJob = NoJob /\ fifo = "empty" BY <1>1 DEF FrameInv, JudgeInv
<1>6. pc'[f] = (IF pc[f] = "done" THEN "detach" ELSE "m2m")
      /\ \A g \in Finishers : g # f => pc'[g] = pc[g] /\ ~Owning(g)
  BY <1>1, <1>3, OwnerAlone DEF Inv, TypeOK
<1>7. QueueInv'
  BY <1>1, <1>2, <1>6 DEF FrameInv, QueueInv, Active, Ending, Owning, Finishers
<1>8. StartInv' BY <1>1, <1>2, <1>4, <1>5 DEF FrameInv, StartInv, Unkicked
<1>9. curCtx' # NoCtx => Owning("watchdog")' \/ Ending("thread")'
  BY <1>1, <1>6 DEF Owning, Ending, Finishers
<1>10. SignalInv' BY <1>9 DEF SignalInv
<1>11. Judging' /\ curCtx' # NoCtx => Owning("watchdog")'
  BY <1>9 DEF Judging, Ending
<1>12. JudgeInv'
  BY <1>1, <1>2, <1>5, <1>6, <1>11 DEF FrameInv, JudgeInv, Ending, Owning, Finishers
<1> QED BY <1>7, <1>8, <1>10, <1>12 DEF FrameInv

(* What the owner of a job hands back. *)
LEMMA HandsBack ==
  ASSUME Inv, FrameInv, NEW f \in Finishers, pc[f] = "m2m"
  PROVE  /\ fctx[f] = running /\ running # NoCtx /\ fst[f] \in Outcomes
         /\ fst[f] = "done" => Head \in encoded
         /\ curCtx = NoCtx /\ hwJob = NoJob /\ fifo = "empty"
         /\ \A j \in Jobs : ~Active(j)
         /\ \A g \in Finishers : Owning(g) => g = f
<1>1. Owning(f) BY DEF Owning
<1>2. /\ running # NoCtx /\ \A j \in Jobs : ~Active(j)
      /\ \A g \in Finishers : Owning(g) => g = f
  BY <1>1, OwnerAlone
<1>3. curCtx = NoCtx BY DEF Inv, JobInv
<1>4. hwJob = NoJob /\ fifo = "empty" BY <1>3 DEF FrameInv, StartInv
<1>5. fctx[f] = running BY DEF FrameInv, QueueInv
<1>6. fst[f] \in Outcomes BY DEF Inv, TypeOK
<1>7. fst[f] = "done" => Head \in encoded
  BY DEF FrameInv, JudgeInv, Finishers
<1> QED BY <1>2, <1>3, <1>4, <1>5, <1>6, <1>7

(* ... and then the frame. *)
LEMMA FinishM2mFrame ==
  ASSUME Inv, FrameInv, NEW f \in Finishers, FinishM2m(f) PROVE FrameInv'
<1>1. pc[f] = "m2m" /\ pc' = [pc EXCEPT ![f] = "idle"]
      /\ M2mFinish(fctx[f], fst[f])
      /\ UNCHANGED <<streaming, curCtx, irqStatus, armed, removed, hwVars, rpc,
                     irqVars, fctx, fst>>
  BY DEF FinishM2m, StepTo
<1>2. /\ fctx[f] = running /\ running # NoCtx /\ fst[f] \in Outcomes
      /\ fst[f] = "done" => Head \in encoded
      /\ curCtx = NoCtx /\ \A j \in Jobs : ~Active(j)
      /\ \A g \in Finishers : Owning(g) => g = f
  BY <1>1, HandsBack
<1>3. \A g \in Finishers : ~Owning(g)'
  BY <1>1, <1>2 DEF Owning, Inv, TypeOK
<1>4. pc'["thread"] # "loaded" \/ pc'["thread"] = pc["thread"]
  BY <1>1 DEF Inv, TypeOK, Finishers
<1>5. \A j \in Jobs : ~Active(j)' BY <1>1, <1>2 DEF Active
<1> QED BY <1>1, <1>2, <1>3, <1>4, <1>5, CompleteFrame

(* Stuttering. *)
LEMMA StutterFrame == ASSUME FrameInv, UNCHANGED vars PROVE FrameInv'
<1> USE DEF vars, m2mVars, pwrVars, hwVars, irqVars, finVars
<1>1. Head' = Head /\ \A c : Pending(c)' = Pending(c) BY SameHead
<1>2. QueueInv' BY <1>1 DEF FrameInv, QueueInv, Active
<1>3. StartInv' BY <1>1 DEF FrameInv, StartInv, Unkicked, Quiet, Owning
<1>4. SignalInv'
  BY <1>1 DEF FrameInv, SignalInv, Owning, Ending, Seen, Broken, Whole
<1>5. JudgeInv'
  BY <1>1 DEF FrameInv, JudgeInv, Judging, Owning, Ending, Broken, Whole
<1> QED BY <1>2, <1>3, <1>4, <1>5 DEF FrameInv

(* A step that is no stray keeps FrameInv: one case per disjunct of Next. *)
LEMMA NextFrame == Inv /\ FrameInv /\ ~strayed' /\ [Next]_vars => FrameInv'
<1> SUFFICES ASSUME ~strayed', Inv, FrameInv, [Next]_vars PROVE FrameInv' OBVIOUS
<1>1. CASE User
  BY <1>1, BufQueueFrame, StartStreamingFrame, StopStreamingFrame, RemoveCancelFrame
  DEF User
<1>2. CASE \E c \in Ctxs : Dispatch(c) BY <1>2, DispatchFrame
<1>3. CASE \E j \in Jobs : DeviceRun(j)
  <2> PICK j \in Jobs : DeviceRun(j) BY <1>3
  <2> QED BY PrepareFrame, ErrorPathFrame, ClaimFrame, ClearStatusFrame,
      ArmWatchdogFrame, KickFrame DEF DeviceRun
<1>4. CASE Core
  BY <1>4, HwSliceFrame, HwFinishFrame, HwLateDoneFrame, HwErrorFrame,
     RuntimeSuspendFrame DEF Core
<1>5. CASE HardIrq BY <1>5, IrqTakeFrame, IrqNoJobFrame, IrqJobFrame DEF HardIrq
<1>6. CASE Thread
  BY <1>6, ThreadLoadFrame, ThreadCancelFrame, ThreadJudgeFrame, SoftResetFrame
  DEF Thread
<1>7. CASE Watchdog
  BY <1>7, WatchdogFireFrame, WatchdogLoadFrame, WatchdogResetFrame DEF Watchdog
<1>8. CASE \E f \in Finishers : Finish(f)
  BY <1>8, EndingFrame, FinishM2mFrame DEF Finish
<1>9. CASE UNCHANGED vars BY <1>9, StutterFrame
<1> QED BY <1>1, <1>2, <1>3, <1>4, <1>5, <1>6, <1>7, <1>8, <1>9 DEF Next

-----------------------------------------------------------------------------
(* The theorems *)

(* What has strayed stays so: the history is never taken back. *)
LEMMA StrayStays == strayed /\ [Next]_vars => strayed'
<1> SUFFICES ASSUME strayed, [Next]_vars PROVE strayed' OBVIOUS
<1>1. CASE User
  BY <1>1 DEF User, BufQueue, StartStreaming, StopStreaming, RemoveCancel
<1>2. CASE \E c \in Ctxs : Dispatch(c) BY <1>2 DEF Dispatch
<1>3. CASE \E j \in Jobs : DeviceRun(j)
  BY <1>3 DEF DeviceRun, PowerUp, PowerUpFails, ClockOn, ClockOnFails, Claim,
     ClearStatus, ArmWatchdog, Kick
<1>4. CASE Core
  BY <1>4 DEF Core, HwSlice, HwFinish, HwLateDone, HwError, RuntimeSuspend
<1>5. CASE HardIrq BY <1>5 DEF HardIrq, IrqTake, IrqNoJob, IrqJob
<1>6. CASE Thread
  BY <1>6 DEF Thread, ThreadLoad, ThreadCancel, ThreadJudge, SoftReset
<1>7. CASE Watchdog
  BY <1>7 DEF Watchdog, WatchdogFire, WatchdogLoad, WatchdogReset
<1>8. CASE \E f \in Finishers : Finish(f)
  BY <1>8 DEF Finish, FinishRelease, FinishDetach, FinishM2m
<1>9. CASE UNCHANGED vars BY <1>9 DEF vars
<1> QED BY <1>1, <1>2, <1>3, <1>4, <1>5, <1>6, <1>7, <1>8, <1>9 DEF Next

(* Every behaviour keeps the invariant of the job for ever, and that of the
   frames until its first stray. *)
THEOREM FrameInvariance == Spec => [](Inv /\ (~strayed => FrameInv))
<1>1. Init => Inv /\ (~strayed => FrameInv) BY InitInv, InitFrame
<1>2. Inv /\ (~strayed => FrameInv) /\ [Next]_vars
      => (Inv /\ (~strayed => FrameInv))'
  <2> SUFFICES ASSUME Inv, ~strayed => FrameInv, [Next]_vars
               PROVE  Inv' /\ (~strayed' => FrameInv')
    OBVIOUS
  <2>1. Inv' BY NextInv
  <2>2. ASSUME ~strayed' PROVE FrameInv' BY <2>2, StrayStays, NextFrame
  <2> QED BY <2>1, <2>2
<1> QED BY <1>1, <1>2, PTL DEF Spec

(* Until the first stray the core that rkvenc_soft_reset() resets is stopped
   on a frame: the reset throws no good frame away. *)
THEOREM ResetSparesGoodFrames == Spec => []SoftResetSparesGoodFrames
<1>1. (~strayed => FrameInv) => SoftResetSparesGoodFrames
  BY DEF FrameInv, JudgeInv, Broken, SoftResetSparesGoodFrames
<1> QED BY <1>1, FrameInvariance, PTL

(* Until the first stray the core only works on the oldest frame of the
   running context, while its reconstruction buffers exist. *)
THEOREM CoreBuffersLive == Spec => []CoreOnLiveBuffers
<1>1. Inv /\ (~strayed => FrameInv) => CoreOnLiveBuffers
  <2> SUFFICES ASSUME Inv, FrameInv, hwJob # NoJob, ~strayed PROVE CoreOnLiveBuffers
    BY DEF CoreOnLiveBuffers
  <2>1. running # NoCtx /\ hwJob = Head
    BY IdleAlone DEF FrameInv, StartInv
  <2>2. Head \in Jobs /\ Owner[Head] = running /\ job[Head] = "queued"
    BY <2>1, HeadUnderWay
  <2>3. running \in streaming BY <2>1 DEF FrameInv, QueueInv
  <2> QED BY <2>1, <2>2, <2>3 DEF CoreOnLiveBuffers, Pending, Head
<1> QED BY <1>1, FrameInvariance, PTL

(* Until the first stray a frame handed back as good has been encoded to its
   last slice; the code says so of every frame, which is false. *)
THEOREM GoodFramesEncoded == Spec => [](~strayed => DoneMeansEncoded)
<1>1. FrameInv => DoneMeansEncoded
  BY DEF FrameInv, QueueInv, DoneMeansEncoded
<1> QED BY <1>1, FrameInvariance, PTL

-----------------------------------------------------------------------------
(* RkvencJob implements FrameLife *)

(* What user space sees of the frames: the one under way runs. *)
Seem == [j \in Jobs |-> IF running # NoCtx /\ j = Head THEN "running" ELSE job[j]]

(* The mapping, by the frame under way. *)
LEMMA LifeIs == ASSUME FrameInv PROVE Life = Seem
<1>1. ASSUME NEW j \in Jobs
      PROVE  job[j] = "queued" /\ running = Owner[j] /\ j = HeadOf(running)
             <=> running # NoCtx /\ j = Head
  <2>1. Owner[j] # NoCtx BY ConstantsOK
  <2> QED BY <2>1, HeadUnderWay DEF Head
<1> QED BY <1>1 DEF Life, Seem

(* The same of the next state. *)
LEMMA NextLifeIs == ASSUME FrameInv' PROVE Life' = Seem'
<1>1. ASSUME running' # NoCtx
      PROVE  Head' \in Jobs /\ Owner[Head'] = running' /\ job'[Head'] = "queued"
  <2>1. Pending(running)' # {} BY <1>1 DEF FrameInv, QueueInv
  <2>2. PICK h \in Pending(running)' : \A k \in Pending(running)' : h <= k
    <3>1. Pending(running)' \subseteq Nat BY ConstantsOK DEF Pending, Jobs
    <3> QED BY <2>1, <3>1, Least
  <2>3. HeadOf(running)' = h BY <2>2, NextHeadIsLeast
  <2> QED BY <2>2, <2>3 DEF Head, Pending
<1>2. ASSUME NEW j \in Jobs
      PROVE  job'[j] = "queued" /\ running' = Owner[j] /\ j = HeadOf(running)'
             <=> running' # NoCtx /\ j = Head'
  <2>1. Owner[j] # NoCtx BY ConstantsOK
  <2> QED BY <1>1, <2>1 DEF Head
<1> QED BY <1>2 DEF Life, Seem

(* Most steps are invisible. *)
LEMMA Invisible ==
  ASSUME FrameInv, FrameInv', UNCHANGED <<job, running, encoded>>
  PROVE  UNCHANGED <<Life, encoded>>
<1>1. Seem' = Seem BY SameHead DEF Seem
<1> QED BY <1>1, LifeIs, NextLifeIs

(* Initially every frame is new. *)
LEMMA InitLife == Init => FL!Init
<1> SUFFICES ASSUME Init PROVE FL!Init OBVIOUS
<1>1. Life = Seem BY InitFrame, LifeIs
<1> QED BY <1>1 DEF Init, Seem, FL!Init

(* QBUF. *)
LEMMA BufQueueLife ==
  ASSUME Inv, FrameInv, FrameInv', NEW j \in Jobs, BufQueue(j)
  PROVE  FL!Queue(j)
<1>1. running # NoCtx => Head' = Head BY BufQueueHead
<1>2. UNCHANGED <<running, encoded>> /\ job[j] = "new"
      /\ job' = [job EXCEPT ![j] = "queued"]
  BY DEF BufQueue, hwVars
<1>3. running # NoCtx => j # Head BY <1>2, HeadUnderWay
<1>4. Seem[j] = "new" BY <1>2, <1>3 DEF Seem
<1>5. Seem' = [Seem EXCEPT ![j] = "queued"]
  BY <1>1, <1>2, <1>3 DEF Seem, Inv, TypeOK
<1> QED BY <1>2, <1>4, <1>5, LifeIs, NextLifeIs DEF FL!Queue

(* Frames returned by a failed start or by streamoff were never started. *)
LEMMA ReturnLife ==
  ASSUME Inv, FrameInv, FrameInv', NEW c \in Ctxs, c # running,
         NEW how \in {"new", "error"},
         job' = [j \in Jobs |-> IF j \in Pending(c) THEN how ELSE job[j]],
         UNCHANGED <<running, encoded>>
  PROVE  FL!Return(Pending(c), how)
<1>1. running # NoCtx => Head' = Head BY ReturnHead
<1>2. running # NoCtx => Head \notin Pending(c)
  BY HeadUnderWay DEF Pending
<1>3. \A j \in Pending(c) : Seem[j] = "queued"
  BY <1>2 DEF Seem, Pending
<1>4. Seem' = [j \in Jobs |-> IF j \in Pending(c) THEN how ELSE Seem[j]]
  BY <1>1, <1>2 DEF Seem
<1> QED BY <1>3, <1>4, LifeIs, NextLifeIs DEF FL!Return

(* Dispatch starts the oldest queued frame of its context, alone. *)
LEMMA DispatchLife ==
  ASSUME Inv, FrameInv, FrameInv', NEW c \in Ctxs, Dispatch(c)
  PROVE  HeadOf(c) \in Jobs /\ FL!Start(HeadOf(c))
<1> DEFINE h == HeadOf(c)
<1>1. h \in Pending(c) /\ \A k \in Pending(c) : h <= k
  BY HeadIsQueued DEF Dispatch
<1>2. running = NoCtx /\ running' = c /\ c # NoCtx /\ UNCHANGED <<job, encoded>>
  BY ConstantsOK DEF Dispatch, hwVars
<1>3. h \in Jobs /\ Owner[h] = c /\ job[h] = "queued" BY <1>1 DEF Pending
<1>4. Head' = h
  <2>1. Pending(c)' = Pending(c) BY <1>2 DEF Pending
  <2>2. HeadOf(running)' = h BY <1>2, <2>1, Zenon DEF HeadOf
  <2> QED BY <2>2 DEF Head
<1> HIDE DEF h
<1>5. \A k \in Jobs : Seem[k] = job[k] BY <1>2 DEF Seem
<1>6. \A k \in Jobs : Seem[k] # "running"
  BY <1>5 DEF Inv, TypeOK, Outcomes
<1>7. \A k \in Jobs : k < h /\ Owner[k] = Owner[h] => Seem[k] # "queued"
  BY <1>1, <1>3, <1>5 DEF Pending, Jobs
<1>8. Seem' = [Seem EXCEPT ![h] = "running"]
  BY <1>2, <1>3, <1>4 DEF Seem
<1>9. FL!Start(h)
  BY <1>2, <1>3, <1>5, <1>6, <1>7, <1>8, LifeIs, NextLifeIs DEF FL!Start
<1> QED BY <1>3, <1>9 DEF h

(* Completing the frame under way is the only way a started frame ends. *)
LEMMA CompleteLife ==
  ASSUME Inv, FrameInv, FrameInv', running # NoCtx, NEW s \in Outcomes,
         M2mFinish(running, s), s = "done" => Head \in encoded, UNCHANGED encoded
  PROVE  Head \in Jobs /\ FL!Complete(Head)
<1>1. Head \in Jobs BY HeadUnderWay
<1>2. running' = NoCtx /\ \A j \in Jobs : job'[j] = IF j = Head THEN s ELSE job[j]
  BY CompleteHead
<1>3. Seem[Head] = "running" BY <1>1 DEF Seem
<1>4. Seem' = [Seem EXCEPT ![Head] = s]
  BY <1>1, <1>2 DEF Seem
<1>5. s = "error" \/ (s = "done" /\ Head \in encoded) BY DEF Outcomes
<1> QED BY <1>1, <1>3, <1>4, <1>5, LifeIs, NextLifeIs DEF FL!Complete

(* The core completes the bitstream of the frame under way. *)
LEMMA FinishLife ==
  ASSUME Inv, FrameInv, FrameInv', HwFinish
  PROVE  Head \in Jobs /\ FL!Encode(Head)
<1>1. hwJob = Head /\ running # NoCtx BY BusyCore DEF HwFinish
<1>2. UNCHANGED <<job, running>> /\ encoded' = encoded \cup {Head}
  BY <1>1 DEF HwFinish, m2mVars
<1>3. Head \in Jobs BY <1>1, HeadUnderWay
<1>4. Seem' = Seem BY <1>2, SameHead DEF Seem
<1>5. Seem[Head] = "running" BY <1>1, <1>3 DEF Seem
<1> QED BY <1>2, <1>3, <1>4, <1>5, LifeIs, NextLifeIs DEF FL!Encode

(* Every step of the driver is a step of FrameLife or changes nothing that
   user space sees. *)
LEMMA NextLife ==
  ASSUME Inv, FrameInv, FrameInv', [Next]_vars
  PROVE  [FL!Next]_<<Life, encoded>>
<1> DEFINE Goal == [FL!Next]_<<Life, encoded>>
<1>1. ASSUME UNCHANGED <<job, running, encoded>> PROVE Goal
  BY <1>1, Invisible
<1> HIDE DEF Goal
<1>2. ASSUME NEW j \in Jobs, BufQueue(j) PROVE Goal
  BY <1>2, BufQueueLife DEF Goal, FL!Next
<1>3. ASSUME NEW c \in Ctxs, StartStreaming(c) PROVE Goal
  <2>1. CASE UNCHANGED job
    BY <1>1, <1>3, <2>1 DEF StartStreaming, hwVars
  <2>2. CASE job' = [j \in Jobs |-> IF j \in Pending(c) THEN "new" ELSE job[j]]
    <3>1. c # running BY <1>3, ConstantsOK DEF StartStreaming, FrameInv, QueueInv
    <3>2. UNCHANGED <<running, encoded>> BY <1>3 DEF StartStreaming, hwVars
    <3>3. FL!Return(Pending(c), "new") BY <2>2, <3>1, <3>2, ReturnLife
    <3>4. Pending(c) \in SUBSET Jobs BY DEF Pending
    <3> QED BY <3>3, <3>4 DEF Goal, FL!Next
  <2> QED BY <1>3, <2>1, <2>2 DEF StartStreaming
<1>4. ASSUME NEW c \in Ctxs, StopStreaming(c) PROVE Goal
  <2>1. UNCHANGED <<running, encoded>> /\ c # running
        /\ job' = [j \in Jobs |-> IF j \in Pending(c) THEN "error" ELSE job[j]]
    BY <1>4 DEF StopStreaming, hwVars
  <2>2. FL!Return(Pending(c), "error") BY <2>1, ReturnLife
  <2>3. Pending(c) \in SUBSET Jobs BY DEF Pending
  <2> QED BY <2>2, <2>3 DEF Goal, FL!Next
<1>5. ASSUME NEW c \in Ctxs, Dispatch(c) PROVE Goal
  BY <1>5, DispatchLife DEF Goal, FL!Next
<1>6. ASSUME NEW j \in Jobs, DeviceRun(j) PROVE Goal
  <2>1. CASE PowerUpFails(j) \/ ClockOnFails(j)
    <3>1. Claiming(j) /\ M2mFinish(Owner[j], "error") /\ UNCHANGED encoded
      BY <2>1 DEF PowerUpFails, ClockOnFails, RunTo, Claiming, hwVars
    <3>2. running # NoCtx /\ j = Head BY <3>1, ClaimingAlone
    <3>3. Owner[j] = running BY <3>2, HeadUnderWay
    <3>4. Head \in Jobs /\ FL!Complete(Head)
      BY <3>1, <3>2, <3>3, CompleteLife DEF Outcomes
    <3> QED BY <3>4 DEF Goal, FL!Next
  <2>2. CASE PowerUp(j) \/ ClockOn(j) \/ Claim(j) \/ ClearStatus(j) \/ ArmWatchdog(j)
             \/ Kick(j)
    BY <1>1, <2>2 DEF PowerUp, ClockOn, Claim, ClearStatus, ArmWatchdog, Kick,
       m2mVars, hwVars
  <2> QED BY <1>6, <2>1, <2>2 DEF DeviceRun
<1>7. ASSUME Core PROVE Goal
  <2>1. CASE HwFinish BY <2>1, FinishLife DEF Goal, FL!Next
  <2>2. CASE HwSlice \/ HwLateDone \/ HwError \/ RuntimeSuspend
    BY <1>1, <2>2 DEF HwSlice, HwLateDone, HwError, RuntimeSuspend, ResetCore, m2mVars
  <2> QED BY <1>7, <2>1, <2>2 DEF Core
<1>8. ASSUME NEW f \in Finishers, Finish(f) PROVE Goal
  <2>1. CASE FinishM2m(f)
    <3>1. pc[f] = "m2m" /\ M2mFinish(fctx[f], fst[f]) /\ UNCHANGED encoded
      BY <2>1 DEF FinishM2m, StepTo, hwVars
    <3>2. /\ fctx[f] = running /\ running # NoCtx /\ fst[f] \in Outcomes
          /\ fst[f] = "done" => Head \in encoded
      BY <3>1, HandsBack
    <3>3. Head \in Jobs /\ FL!Complete(Head) BY <3>1, <3>2, CompleteLife
    <3> QED BY <3>3 DEF Goal, FL!Next
  <2>2. CASE FinishRelease(f) \/ FinishDetach(f)
    BY <1>1, <2>2 DEF FinishRelease, FinishDetach, m2mVars, hwVars
  <2> QED BY <1>8, <2>1, <2>2 DEF Finish
<1>9. ASSUME RemoveCancel \/ HardIrq \/ Thread \/ Watchdog \/ UNCHANGED vars
      PROVE  Goal
  <2>1. UNCHANGED <<job, running, encoded>>
    BY <1>9 DEF RemoveCancel, HardIrq, IrqTake, IrqNoJob, IrqJob, Thread, ThreadLoad,
       ThreadCancel, ThreadJudge, SoftReset, Watchdog, WatchdogFire, WatchdogLoad,
       WatchdogReset, ResetCore, vars, m2mVars, hwVars
  <2> QED BY <1>1, <2>1
<1>10. Goal
  BY <1>2, <1>3, <1>4, <1>5, <1>6, <1>7, <1>8, <1>9 DEF Next, User
<1> QED BY <1>10 DEF Goal

(* The encoder driver, with its interrupts, watchdog and power management,
   implements the life of frames that FrameLife promises until its first
   stray: one frame is encoded at a time, in the order of each context, and a
   frame comes back "done" only when its bitstream is complete. *)
THEOREM FramesRefinement == Spec => FramesLive
<1>1. Init => FL!Init BY InitLife
<1>2. Inv /\ (~strayed => FrameInv) /\ (Inv /\ (~strayed => FrameInv))' /\ [Next]_vars
      => [FL!Next \/ strayed']_<<Life, encoded>>
  <2> SUFFICES ASSUME Inv, ~strayed => FrameInv, (Inv /\ (~strayed => FrameInv))',
                      [Next]_vars, ~strayed'
               PROVE  [FL!Next]_<<Life, encoded>>
    OBVIOUS
  <2>1. ~strayed BY StrayStays
  <2>2. FrameInv /\ FrameInv' BY <2>1
  <2> QED BY <2>2, NextLife
<1> QED BY <1>1, <1>2, FrameInvariance, PTL DEF Spec, FramesLive
=============================================================================

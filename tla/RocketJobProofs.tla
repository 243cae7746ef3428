--------------------------- MODULE RocketJobProofs ---------------------------
(***************************************************************************)
(* Proofs about RocketJob for any number of jobs and any task counts.      *)
(***************************************************************************)
EXTENDS RocketJob, TLAPS

(* run_job has a job exactly while it is in the middle of something; until it
   arms the core, that job has started no task. *)
RunJobInv ==
  /\ rpc = "idle" <=> rjob = NoJob
  /\ rpc # "idle" => status[rjob] = "pending" /\ next[rjob] = 0
  /\ \A j \in Jobs : status[j] = "new" => next[j] = 0

(* job_lock is held over two steps exactly by these, and inFlight is theirs. *)
LockInv ==
  /\ lock = "run" <=> rpc = "arm"
  /\ lock = "thread" <=> tpc \in {"arm", "put"}
  /\ rpc = "arm" => inFlight = rjob
  /\ tpc = "arm" => inFlight # NoJob /\ next[inFlight] < Tasks[inFlight]
  /\ tpc = "put" => inFlight # NoJob

(* A job in flight is one the scheduler waits for, until the thread has
   signalled its fence; the next job comes only then. *)
InFlightInv ==
  /\ inFlight # NoJob =>
       status[inFlight] \in IF tpc = "put" THEN Ended \cup {"detached"}
                                           ELSE {"pending", "detached"}
  /\ rpc \in {"resume", "attach", "submit"} => inFlight = NoJob \/ tpc = "put"

(* The reset stops the scheduler, and with it run_job, before it detaches;
   once it has released the job nothing is in flight. *)
WorkerInv ==
  /\ stopped <=> wpc \notin {"idle", "pause"}
  /\ wpc \notin {"idle", "pause", "stop"} => rpc = "idle" /\ Idle
  /\ wpc \in {"reset", "unpend", "start"} => inFlight = NoJob
  /\ \A j \in Jobs : status[j] = "detached" => stopped
  /\ wpc \notin {"idle", "start"} => pending
  /\ tpc = "arm" => wpc \in {"idle", "pause", "stop", "mask"}

(* The domain is that of the job about to be published or in flight. *)
DomainInv ==
  /\ attached => \/ rpc \in {"submit", "arm"}
                 \/ inFlight # NoJob /\ tpc # "put"
  /\ rpc \in {"resume", "attach"} => ~attached

(* A reference keeps the core resumed. *)
PoweredInv == pm > 0 => powered

(* The core runs the job in flight, or, masked, one that the reset has
   released and will stop next; it latches a completion when it stops. *)
CoreInv ==
  /\ hwJob # NoJob => \/ hwJob = inFlight /\ tpc # "put"
                      \/ wpc = "reset" /\ status[hwJob] = "detached"
  /\ raw => hwJob = NoJob

(* A completion on its way from the core to the threaded handler. *)
Served == hpc = "mask" \/ wake \/ tpc = "lock"

(* Until the first fault: an armed mask, a completion on its way and a started
   thread exclude each other, each belongs to a started task of the job in
   flight, and the reset leaves none of them behind synchronize_irq(). *)
CompletionInv ==
  ~faulted =>
    /\ ~fault
    /\ mask => /\ tpc = "idle" /\ ~wake
               /\ inFlight # NoJob /\ next[inFlight] > 0
               /\ wpc \in {"idle", "pause", "stop", "mask"}
    /\ Served => /\ inFlight # NoJob /\ next[inFlight] > 0
                 /\ hwJob = NoJob
                 /\ wpc \in {"idle", "pause", "stop", "mask", "sync"}
    /\ hpc = "mask" => ~wake /\ tpc = "idle"
    /\ wake => tpc = "idle"
    /\ tpc \in {"arm", "put"} =>
         hwJob = NoJob /\ wpc \in {"idle", "pause", "stop", "mask", "sync"}

(* Until then, too, a task counted in next_task_idx has run or is running,
   unless its job was stopped by a reset. *)
RanInv ==
  ~faulted =>
    /\ hwJob # NoJob => next[hwJob] > 0
    /\ \A j \in Jobs :
         /\ status[j] \notin {"detached", "cancelled"} =>
              ran[j] = next[j] - (IF hwJob = j THEN 1 ELSE 0)
         /\ status[j] = "done" => next[j] = Tasks[j]

RocketInv == /\ TypeOK /\ PmBalanced
             /\ RunJobInv /\ LockInv /\ InFlightInv /\ WorkerInv /\ DomainInv
             /\ PoweredInv /\ CoreInv /\ CompletionInv /\ RanInv /\ NoSError

(* The two halves of TypeOK. *)
FlagTypes ==
  /\ stopped \in BOOLEAN /\ pending \in BOOLEAN /\ attached \in BOOLEAN
  /\ powered \in BOOLEAN /\ mask \in BOOLEAN /\ raw \in BOOLEAN
  /\ fault \in BOOLEAN /\ faulted \in BOOLEAN /\ serror \in BOOLEAN
  /\ wake \in BOOLEAN

ValueTypes ==
  /\ status \in [Jobs -> {"new", "pending", "detached"} \cup Ended]
  /\ listed \in SUBSET Jobs
  /\ inFlight \in Jobs \cup {NoJob} /\ hwJob \in Jobs \cup {NoJob}
  /\ rjob \in Jobs \cup {NoJob}
  /\ next \in [Jobs -> Nat] /\ \A j \in Jobs : next[j] <= Tasks[j]
  /\ pm \in Nat /\ ran \in [Jobs -> Nat]
  /\ lock \in {"none", "run", "thread"}
  /\ rpc \in {"idle", "resume", "attach", "submit", "arm"}
  /\ hpc \in {"idle", "mask"} /\ tpc \in {"idle", "lock", "arm", "put"}
  /\ wpc \in WorkerSteps

(* NoJob is not a job. *)
LEMMA NoJobOutside == NoJob \notin Jobs
BY DEF NoJob, Jobs

(* The scheduler hands over a job. *)
LEMMA StepRunJob ==
  ASSUME NEW j \in Jobs, RocketInv, RunJob(j)
  PROVE  RocketInv'
<1> USE DEF RocketInv, RunJob, coreVars, pmVars, hwVars, irqVars, faultVars
<1>1. TypeOK' BY DEF TypeOK
<1>2. PmBalanced' BY DEF PmBalanced
<1>3. RunJobInv' BY NoJobOutside DEF RunJobInv, TypeOK
<1>4. LockInv' BY DEF LockInv
<1>5. InFlightInv' BY DEF InFlightInv, Ended, Idle, WorkerInv, TypeOK
<1>6. WorkerInv' BY DEF WorkerInv, Idle
<1>7. DomainInv' BY DEF DomainInv, Idle, WorkerInv, InFlightInv, TypeOK
<1>8. CoreInv' BY DEF CoreInv
<1>9. RanInv' BY DEF RanInv
<1>10. PoweredInv' /\ CompletionInv' /\ NoSError'
  BY DEF PoweredInv, CompletionInv, Served, NoSError
<1> QED BY <1>1, <1>2, <1>3, <1>4, <1>5, <1>6, <1>7, <1>8, <1>9, <1>10

(* A reference for the job, or an error. *)
LEMMA StepRunResume ==
  ASSUME RocketInv, RunResume
  PROVE  RocketInv'
<1> USE DEF RocketInv, RunResume, RunFails, coreVars, pmVars, hwVars, irqVars,
      faultVars
<1>1. TypeOK'
  <2>1. FlagTypes' BY DEF TypeOK, FlagTypes
  <2>2. ValueTypes' BY DEF TypeOK, ValueTypes, Ended
  <2> QED BY <2>1, <2>2 DEF TypeOK, FlagTypes, ValueTypes
<1>2. PmBalanced' BY DEF PmBalanced
<1>3. RunJobInv' BY DEF RunJobInv, TypeOK
<1>4. LockInv' BY DEF LockInv
<1>5. InFlightInv' BY DEF InFlightInv, Ended, TypeOK
<1>6. WorkerInv' BY DEF WorkerInv, Idle, TypeOK
<1>7. DomainInv' BY DEF DomainInv
<1>8. PoweredInv' BY DEF PoweredInv
<1>9. CoreInv' BY DEF CoreInv, RunJobInv, TypeOK
<1>10. RanInv' BY DEF RanInv, RunJobInv, TypeOK
<1>11. CompletionInv' /\ NoSError'
  BY DEF CompletionInv, Served, NoSError
<1> QED BY <1>1, <1>2, <1>3, <1>4, <1>5, <1>6, <1>7, <1>8, <1>9, <1>10, <1>11

(* The domain of the job, or an error that puts the reference. *)
LEMMA StepRunAttach ==
  ASSUME RocketInv, RunAttach
  PROVE  RocketInv'
<1> USE DEF RocketInv, RunAttach, RunFails, hwVars, irqVars, faultVars
<1>1. TypeOK'
  <2>1. FlagTypes' BY DEF TypeOK, FlagTypes
  <2>2. ValueTypes' BY DEF TypeOK, ValueTypes, PmBalanced, Ended
  <2> QED BY <2>1, <2>2 DEF TypeOK, FlagTypes, ValueTypes
<1>2. PmBalanced' BY DEF PmBalanced
<1>3. RunJobInv' BY DEF RunJobInv, TypeOK
<1>4. LockInv' BY DEF LockInv
<1>5. InFlightInv' BY DEF InFlightInv, Ended, TypeOK
<1>6. WorkerInv' BY DEF WorkerInv, Idle, TypeOK
<1>7. DomainInv' BY DEF DomainInv
<1>8. PoweredInv' BY DEF PoweredInv, TypeOK
<1>9. CoreInv' BY DEF CoreInv, RunJobInv, TypeOK
<1>10. RanInv' BY DEF RanInv, RunJobInv, TypeOK
<1>11. CompletionInv' /\ NoSError'
  BY DEF CompletionInv, Served, NoSError
<1> QED BY <1>1, <1>2, <1>3, <1>4, <1>5, <1>6, <1>7, <1>8, <1>9, <1>10, <1>11

(* The job is published. *)
LEMMA StepRunSubmit ==
  ASSUME RocketInv, RunSubmit
  PROVE  RocketInv'
<1> USE DEF RocketInv, RunSubmit, schedVars, pmVars, hwVars, irqVars,
      faultVars
<1>1. TypeOK' BY DEF TypeOK
<1>2. PmBalanced' BY DEF PmBalanced, RunJobInv, InFlightInv, LockInv
<1>3. RunJobInv' BY DEF RunJobInv
<1>4. LockInv' BY DEF LockInv
<1>5. InFlightInv' BY DEF InFlightInv, Ended, RunJobInv, LockInv
<1>6. WorkerInv' BY DEF WorkerInv, Idle
<1>7. DomainInv' BY DEF DomainInv, RunJobInv, LockInv
<1>8. CoreInv' BY DEF CoreInv, InFlightInv
<1>9. CompletionInv' BY DEF CompletionInv, Served, InFlightInv
<1>10. PoweredInv' /\ RanInv' /\ NoSError'
  BY DEF PoweredInv, RanInv, NoSError
<1> QED BY <1>1, <1>2, <1>3, <1>4, <1>5, <1>6, <1>7, <1>8, <1>9, <1>10

(* The first task of a job starts. *)
LEMMA StepRunArm ==
  ASSUME RocketInv, RunArm
  PROVE  RocketInv'
<1> USE DEF RocketInv, RunArm, HwSubmit, Touch, schedVars, pmVars, faultVars,
      irqVars
<1>1. TypeOK'
  <2>1. FlagTypes' BY DEF TypeOK, FlagTypes
  <2>2. ValueTypes'
    <3>1. rjob \in Jobs /\ next[rjob] = 0
      BY DEF RunJobInv, TypeOK
    <3>2. \A k \in Jobs : Tasks[k] \in Nat /\ Tasks[k] > 0
      BY RocketConstantsOK
    <3>3. /\ next \in [Jobs -> Nat] /\ \A k \in Jobs : next[k] <= Tasks[k]
          /\ next' = [next EXCEPT ![rjob] = next[rjob] + 1]
      BY DEF TypeOK
    <3>4. next' \in [Jobs -> Nat] /\ \A k \in Jobs : next'[k] <= Tasks[k]
      BY <3>1, <3>2, <3>3
    <3> QED
      BY <3>1, <3>4 DEF TypeOK, ValueTypes
  <2> QED BY <2>1, <2>2 DEF TypeOK, FlagTypes, ValueTypes
<1>2. PmBalanced' BY DEF PmBalanced
<1>3. RunJobInv' BY DEF RunJobInv
<1>4. LockInv' BY DEF LockInv
<1>5. InFlightInv' BY DEF InFlightInv, Ended
<1>6. WorkerInv' BY DEF WorkerInv, Idle
<1>7. DomainInv' BY DEF DomainInv, RunJobInv, LockInv
<1>8. CoreInv' BY DEF CoreInv, LockInv
<1>9. CompletionInv'
  BY DEF CompletionInv, Served, WorkerInv, RunJobInv, LockInv, TypeOK
<1>10. RanInv' BY NoJobOutside DEF RanInv, CoreInv, RunJobInv, LockInv, TypeOK
<1>11. NoSError'
  BY DEF NoSError, PoweredInv, PmBalanced, RunJobInv, LockInv, TypeOK
<1>12. PoweredInv'
  BY DEF PoweredInv
<1> QED BY <1>1, <1>2, <1>3, <1>4, <1>5, <1>6, <1>7, <1>8, <1>9, <1>10, <1>11,
      <1>12

(* A task ends. *)
LEMMA StepTaskEnds ==
  ASSUME RocketInv, TaskEnds
  PROVE  RocketInv'
<1> USE DEF RocketInv, TaskEnds, schedVars, coreVars, pmVars, faultVars,
      irqVars, runVars
<1>1. TypeOK' BY DEF TypeOK
<1>2. CoreInv' BY DEF CoreInv
<1>3. CompletionInv' BY DEF CompletionInv, Served
<1>4. RanInv' BY NoJobOutside DEF RanInv, TypeOK
<1>5. PmBalanced' /\ RunJobInv' /\ LockInv' /\ InFlightInv' /\ WorkerInv' /\
      DomainInv' /\ PoweredInv' /\ NoSError'
  BY DEF PmBalanced, RunJobInv, LockInv, InFlightInv, Ended, WorkerInv, Idle,
     DomainInv, PoweredInv, NoSError
<1> QED BY <1>1, <1>2, <1>3, <1>4, <1>5

(* The IOMMU reports a fault. *)
LEMMA StepFaultRaised ==
  ASSUME RocketInv, FaultRaised
  PROVE  RocketInv'
<1> USE DEF RocketInv, FaultRaised, schedVars, coreVars, pmVars, irqVars,
      runVars
<1>1. TypeOK' BY DEF TypeOK
<1>2. CompletionInv' BY DEF CompletionInv, Served
<1>3. RanInv' BY DEF RanInv
<1>4. NoSError' BY DEF NoSError
<1>5. PmBalanced' /\ RunJobInv' /\ LockInv' /\ InFlightInv' /\ WorkerInv' /\
      DomainInv' /\ PoweredInv' /\ CoreInv'
  BY DEF PmBalanced, RunJobInv, LockInv, InFlightInv, Ended, WorkerInv, Idle,
     DomainInv, PoweredInv, CoreInv
<1> QED BY <1>1, <1>2, <1>3, <1>4, <1>5

(* The IOMMU driver has dealt with it. *)
LEMMA StepFaultServed ==
  ASSUME RocketInv, FaultServed
  PROVE  RocketInv'
<1> USE DEF RocketInv, FaultServed, schedVars, coreVars, pmVars, irqVars,
      runVars
<1>1. TypeOK'
  <2>1. FlagTypes' BY DEF TypeOK, FlagTypes
  <2>2. ValueTypes' BY DEF TypeOK, ValueTypes
  <2> QED BY <2>1, <2>2 DEF TypeOK, FlagTypes, ValueTypes
<1>2. CompletionInv' BY DEF CompletionInv, Served
<1>3. PmBalanced' /\ RunJobInv' /\ LockInv' /\ InFlightInv' /\ WorkerInv' /\
      DomainInv' /\ PoweredInv' /\ CoreInv' /\ RanInv' /\ NoSError'
  BY DEF PmBalanced, RunJobInv, LockInv, InFlightInv, Ended, WorkerInv, Idle,
     DomainInv, PoweredInv, CoreInv, RanInv, NoSError
<1> QED BY <1>1, <1>2, <1>3

(* The hard handler looks at the raw status. *)
LEMMA StepHardRead ==
  ASSUME RocketInv, HardRead
  PROVE  RocketInv'
<1> USE DEF RocketInv, HardRead, Touch, schedVars, coreVars, pmVars, hwVars,
      runVars, faultVars
<1>1. TypeOK' BY DEF TypeOK
<1>2. CompletionInv' BY DEF CompletionInv, Served, CoreInv
<1>3. NoSError' BY DEF NoSError, CompletionInv, PoweredInv, PmBalanced, TypeOK
<1>4. PmBalanced' /\ RunJobInv' /\ LockInv' /\ InFlightInv' /\ WorkerInv' /\
      DomainInv' /\ PoweredInv' /\ CoreInv' /\ RanInv'
  BY DEF PmBalanced, RunJobInv, LockInv, InFlightInv, Ended, WorkerInv, Idle,
     DomainInv, PoweredInv, CoreInv, RanInv
<1> QED BY <1>1, <1>2, <1>3, <1>4

(* The hard handler masks the block and wakes the thread. *)
LEMMA StepHardMask ==
  ASSUME RocketInv, HardMask
  PROVE  RocketInv'
<1> USE DEF RocketInv, HardMask, Touch, schedVars, coreVars, pmVars,
      faultVars, runVars
<1>1. TypeOK'
  <2>1. FlagTypes' BY DEF TypeOK, FlagTypes
  <2>2. ValueTypes' BY DEF TypeOK, ValueTypes
  <2> QED BY <2>1, <2>2 DEF TypeOK, FlagTypes, ValueTypes
<1>2. WorkerInv' BY DEF WorkerInv, Idle
<1>3. CompletionInv' BY DEF CompletionInv, Served
<1>4. NoSError'
  BY DEF NoSError, CompletionInv, PoweredInv, PmBalanced, Served, TypeOK
<1>5. PmBalanced' /\ RunJobInv' /\ LockInv' /\ InFlightInv' /\ DomainInv' /\
      PoweredInv' /\ CoreInv' /\ RanInv'
  BY DEF PmBalanced, RunJobInv, LockInv, InFlightInv, Ended, DomainInv,
     PoweredInv, CoreInv, RanInv
<1> QED BY <1>1, <1>2, <1>3, <1>4, <1>5

(* The thread starts. *)
LEMMA StepThreadEnter ==
  ASSUME RocketInv, ThreadEnter
  PROVE  RocketInv'
<1> USE DEF RocketInv, ThreadEnter, schedVars, coreVars, pmVars, hwVars,
      runVars, faultVars
<1>1. TypeOK'
  <2>1. FlagTypes' BY DEF TypeOK, FlagTypes
  <2>2. ValueTypes' BY DEF TypeOK, ValueTypes
  <2> QED BY <2>1, <2>2 DEF TypeOK, FlagTypes, ValueTypes
<1>2. LockInv' BY DEF LockInv
<1>3. InFlightInv' BY DEF InFlightInv, Ended
<1>4. WorkerInv' BY DEF WorkerInv, Idle
<1>5. DomainInv' BY DEF DomainInv
<1>6. CoreInv' BY DEF CoreInv
<1>7. CompletionInv' BY DEF CompletionInv, Served
<1>8. PmBalanced' /\ RunJobInv' /\ PoweredInv' /\ RanInv' /\ NoSError'
  BY DEF PmBalanced, RunJobInv, PoweredInv, RanInv, NoSError
<1> QED BY <1>1, <1>2, <1>3, <1>4, <1>5, <1>6, <1>7, <1>8

(* The thread stops the block and decides under the lock. *)
LEMMA StepThreadStop ==
  ASSUME RocketInv, ThreadStop
  PROVE  RocketInv'
<1> USE DEF RocketInv, ThreadStop, NextLocked, Signal, Touch, pmVars,
      faultVars, runVars
<1>1. TypeOK'
  <2>1. FlagTypes' BY DEF TypeOK, FlagTypes
  <2>2. ValueTypes' BY DEF TypeOK, ValueTypes, Ended
  <2> QED BY <2>1, <2>2 DEF TypeOK, FlagTypes, ValueTypes
<1>2. RunJobInv' BY RocketConstantsOK DEF RunJobInv, TypeOK
<1>3. LockInv' BY DEF LockInv
<1>4. InFlightInv' BY DEF InFlightInv, Ended, TypeOK
<1>5. WorkerInv' BY DEF WorkerInv, Idle, TypeOK
<1>6. DomainInv' BY DEF DomainInv
<1>7. CoreInv' BY DEF CoreInv
<1>8. CompletionInv' BY DEF CompletionInv, Served
<1>9. RanInv' BY DEF RanInv, CompletionInv, Served, TypeOK
<1>10. NoSError'
  BY DEF NoSError, CompletionInv, PoweredInv, PmBalanced, Served, TypeOK
<1>11. PmBalanced' /\ PoweredInv'
  BY DEF PmBalanced, PoweredInv
<1> QED BY <1>1, <1>2, <1>3, <1>4, <1>5, <1>6, <1>7, <1>8, <1>9, <1>10, <1>11

(* The thread starts the next task. *)
LEMMA StepThreadArm ==
  ASSUME RocketInv, ThreadArm
  PROVE  RocketInv'
<1> USE DEF RocketInv, ThreadArm, HwSubmit, Touch, schedVars, pmVars,
      faultVars, runVars
<1>1. TypeOK'
  <2>1. FlagTypes' BY DEF TypeOK, FlagTypes
  <2>2. ValueTypes'
    <3>1. inFlight \in Jobs /\ next[inFlight] < Tasks[inFlight]
      BY DEF LockInv, TypeOK
    <3>2. \A k \in Jobs : Tasks[k] \in Nat /\ Tasks[k] > 0
      BY RocketConstantsOK
    <3>3. /\ next \in [Jobs -> Nat] /\ \A k \in Jobs : next[k] <= Tasks[k]
          /\ next' = [next EXCEPT ![inFlight] = next[inFlight] + 1]
      BY DEF TypeOK
    <3>4. next' \in [Jobs -> Nat] /\ \A k \in Jobs : next'[k] <= Tasks[k]
      BY <3>1, <3>2, <3>3
    <3> QED
      BY <3>1, <3>4 DEF TypeOK, ValueTypes
  <2> QED BY <2>1, <2>2 DEF TypeOK, FlagTypes, ValueTypes
<1>2. RunJobInv' BY DEF RunJobInv, InFlightInv, LockInv, TypeOK
<1>3. LockInv' BY DEF LockInv
<1>4. InFlightInv' BY DEF InFlightInv, Ended
<1>5. WorkerInv' BY DEF WorkerInv, Idle
<1>6. DomainInv' BY DEF DomainInv
<1>7. CoreInv' BY DEF CoreInv
<1>8. CompletionInv' BY DEF CompletionInv, Served, WorkerInv, LockInv, TypeOK
<1>9. RanInv' BY NoJobOutside DEF RanInv, CompletionInv, LockInv, TypeOK
<1>10. NoSError' BY DEF NoSError, PoweredInv, PmBalanced, LockInv, TypeOK
<1>11. PmBalanced' /\ PoweredInv'
  BY DEF PmBalanced, PoweredInv
<1> QED BY <1>1, <1>2, <1>3, <1>4, <1>5, <1>6, <1>7, <1>8, <1>9, <1>10, <1>11

(* The thread retires the job. *)
LEMMA StepThreadPut ==
  ASSUME RocketInv, ThreadPut
  PROVE  RocketInv'
<1> USE DEF RocketInv, ThreadPut, schedVars, hwVars, runVars, faultVars
<1>1. TypeOK' BY DEF TypeOK, PmBalanced, LockInv
<1>2. PmBalanced' BY DEF PmBalanced, LockInv
<1>3. LockInv' BY DEF LockInv
<1>4. InFlightInv' BY DEF InFlightInv, Ended
<1>5. WorkerInv' BY DEF WorkerInv, Idle
<1>6. DomainInv' BY DEF DomainInv
<1>7. PoweredInv' BY DEF PoweredInv, TypeOK
<1>8. CoreInv' BY DEF CoreInv
<1>9. CompletionInv' BY DEF CompletionInv, Served
<1>10. RunJobInv' /\ RanInv' /\ NoSError'
  BY DEF RunJobInv, RanInv, NoSError
<1> QED BY <1>1, <1>2, <1>3, <1>4, <1>5, <1>6, <1>7, <1>8, <1>9, <1>10

(* The job timer expires. *)
LEMMA StepTimedout ==
  ASSUME RocketInv, Timedout
  PROVE  RocketInv'
<1> USE DEF RocketInv, Timedout, schedVars, pmVars, hwVars, irqVars, runVars,
      faultVars
<1>1. TypeOK' BY DEF TypeOK, WorkerSteps
<1>2. RunJobInv' BY DEF RunJobInv
<1>3. InFlightInv' BY DEF InFlightInv, Ended
<1>4. WorkerInv' BY DEF WorkerInv, Idle
<1>5. CoreInv' BY DEF CoreInv
<1>6. CompletionInv' BY DEF CompletionInv, Served
<1>7. PmBalanced' /\ LockInv' /\ DomainInv' /\ PoweredInv' /\ RanInv' /\
      NoSError'
  BY DEF PmBalanced, LockInv, DomainInv, PoweredInv, RanInv, NoSError
<1> QED BY <1>1, <1>2, <1>3, <1>4, <1>5, <1>6, <1>7

(* No new job may start. *)
LEMMA StepSchedPause ==
  ASSUME RocketInv, SchedPause
  PROVE  RocketInv'
<1> USE DEF RocketInv, SchedPause, coreVars, pmVars, hwVars, irqVars, runVars,
      faultVars
<1>1. TypeOK' BY DEF TypeOK, WorkerSteps
<1>2. WorkerInv' BY DEF WorkerInv, Idle
<1>3. CoreInv' BY DEF CoreInv
<1>4. CompletionInv' BY DEF CompletionInv, Served
<1>5. PmBalanced' /\ RunJobInv' /\ LockInv' /\ InFlightInv' /\ DomainInv' /\
      PoweredInv' /\ RanInv' /\ NoSError'
  BY DEF PmBalanced, RunJobInv, LockInv, InFlightInv, Ended, DomainInv,
     PoweredInv, RanInv, NoSError
<1> QED BY <1>1, <1>2, <1>3, <1>4, <1>5

(* Every pending job is detached from its fence. *)
LEMMA StepSchedStop ==
  ASSUME RocketInv, SchedStop
  PROVE  RocketInv'
<1> USE DEF RocketInv, SchedStop, coreVars, pmVars, hwVars, irqVars, runVars,
      faultVars
<1>1. TypeOK' BY DEF TypeOK, WorkerSteps
<1>2. RunJobInv' BY DEF RunJobInv
<1>3. InFlightInv' BY DEF InFlightInv, Ended, TypeOK
<1>4. WorkerInv' BY DEF WorkerInv, Idle
<1>5. CoreInv' BY DEF CoreInv
<1>6. CompletionInv' BY DEF CompletionInv, Served
<1>7. RanInv' BY DEF RanInv
<1>8. PmBalanced' /\ LockInv' /\ DomainInv' /\ PoweredInv' /\ NoSError'
  BY DEF PmBalanced, LockInv, DomainInv, PoweredInv, NoSError
<1> QED BY <1>1, <1>2, <1>3, <1>4, <1>5, <1>6, <1>7, <1>8

(* The reset masks the block, if it is powered. *)
LEMMA StepResetMask ==
  ASSUME RocketInv, ResetMask
  PROVE  RocketInv'
<1> USE DEF RocketInv, ResetMask, schedVars, coreVars, pmVars, faultVars,
      irqVars, runVars
<1>1. TypeOK'
  <2>1. FlagTypes' BY DEF TypeOK, FlagTypes
  <2>2. ValueTypes' BY DEF TypeOK, ValueTypes, WorkerSteps
  <2> QED BY <2>1, <2>2 DEF TypeOK, FlagTypes, ValueTypes
<1>2. WorkerInv' BY DEF WorkerInv, Idle, LockInv
<1>3. CoreInv' BY DEF CoreInv
<1>4. CompletionInv' BY DEF CompletionInv, Served, PoweredInv, PmBalanced
<1>5. PmBalanced' /\ RunJobInv' /\ LockInv' /\ InFlightInv' /\ DomainInv' /\
      PoweredInv' /\ RanInv' /\ NoSError'
  BY DEF PmBalanced, RunJobInv, LockInv, InFlightInv, Ended, DomainInv,
     PoweredInv, RanInv, NoSError
<1> QED BY <1>1, <1>2, <1>3, <1>4, <1>5

(* No handler is left. *)
LEMMA StepResetSync ==
  ASSUME RocketInv, ResetSync
  PROVE  RocketInv'
<1> USE DEF RocketInv, ResetSync, schedVars, coreVars, pmVars, hwVars,
      irqVars, runVars, faultVars
<1>1. TypeOK' BY DEF TypeOK, WorkerSteps
<1>2. WorkerInv' BY DEF WorkerInv, Idle
<1>3. CoreInv' BY DEF CoreInv
<1>4. CompletionInv' BY DEF CompletionInv, Served
<1>5. PmBalanced' /\ RunJobInv' /\ LockInv' /\ InFlightInv' /\ DomainInv' /\
      PoweredInv' /\ RanInv' /\ NoSError'
  BY DEF PmBalanced, RunJobInv, LockInv, InFlightInv, Ended, DomainInv,
     PoweredInv, RanInv, NoSError
<1> QED BY <1>1, <1>2, <1>3, <1>4, <1>5

(* The reset releases the stuck job. *)
LEMMA StepResetRelease ==
  ASSUME RocketInv, ResetRelease
  PROVE  RocketInv'
<1> USE DEF RocketInv, ResetRelease, schedVars, hwVars, irqVars, runVars,
      faultVars
<1>1. TypeOK'
  <2>1. FlagTypes' BY DEF TypeOK, FlagTypes
  <2>2. ValueTypes' BY DEF TypeOK, ValueTypes, PmBalanced, WorkerSteps
  <2> QED BY <2>1, <2>2 DEF TypeOK, FlagTypes, ValueTypes
<1>2. PmBalanced' BY DEF PmBalanced
<1>3. LockInv' BY DEF LockInv
<1>4. InFlightInv' BY DEF InFlightInv, Ended
<1>5. WorkerInv' BY DEF WorkerInv, Idle
<1>6. DomainInv' BY DEF DomainInv
<1>7. PoweredInv' BY DEF PoweredInv, TypeOK
<1>8. CoreInv' BY DEF CoreInv, Idle, WorkerInv, InFlightInv, TypeOK
<1>9. CompletionInv' BY DEF CompletionInv, Served
<1>10. RunJobInv' /\ RanInv' /\ NoSError'
  BY DEF RunJobInv, RanInv, NoSError
<1> QED BY <1>1, <1>2, <1>3, <1>4, <1>5, <1>6, <1>7, <1>8, <1>9, <1>10

(* The reset stops the block. *)
LEMMA StepCoreReset ==
  ASSUME RocketInv, CoreReset
  PROVE  RocketInv'
<1> USE DEF RocketInv, CoreReset, schedVars, coreVars, pmVars, faultVars,
      irqVars, runVars
<1>1. TypeOK' BY DEF TypeOK, WorkerSteps, WorkerInv, LockInv
<1>2. WorkerInv' BY DEF WorkerInv, Idle
<1>3. CoreInv' BY DEF CoreInv
<1>4. CompletionInv' BY DEF CompletionInv, Served
<1>5. RanInv' BY NoJobOutside DEF RanInv, CoreInv, WorkerInv
<1>6. PmBalanced' /\ RunJobInv' /\ LockInv' /\ InFlightInv' /\ DomainInv' /\
      PoweredInv' /\ NoSError'
  BY DEF PmBalanced, RunJobInv, LockInv, InFlightInv, Ended, DomainInv,
     PoweredInv, NoSError
<1> QED BY <1>1, <1>2, <1>3, <1>4, <1>5, <1>6

(* Work is accepted again. *)
LEMMA StepResetUnpend ==
  ASSUME RocketInv, ResetUnpend
  PROVE  RocketInv'
<1> USE DEF RocketInv, ResetUnpend, schedVars, pmVars, hwVars, irqVars,
      runVars, faultVars
<1>1. TypeOK'
  BY RocketConstantsOK, NoJobOutside DEF TypeOK, CompletionInv, DomainInv,
     Ended, WorkerSteps, Served, WorkerInv, RunJobInv, InFlightInv, LockInv
<1>2. RunJobInv' BY DEF RunJobInv
<1>3. InFlightInv' BY DEF InFlightInv, Ended
<1>4. WorkerInv' BY DEF WorkerInv, Idle
<1>5. CoreInv' BY DEF CoreInv
<1>6. CompletionInv' BY DEF CompletionInv, Served
<1>7. PmBalanced' /\ LockInv' /\ DomainInv' /\ PoweredInv' /\ RanInv' /\
      NoSError'
  BY DEF PmBalanced, LockInv, DomainInv, PoweredInv, RanInv, NoSError
<1> QED BY <1>1, <1>2, <1>3, <1>4, <1>5, <1>6, <1>7

(* Detached jobs are cancelled. *)
LEMMA StepSchedStart ==
  ASSUME RocketInv, SchedStart
  PROVE  RocketInv'
<1> USE DEF RocketInv, SchedStart, coreVars, pmVars, hwVars, irqVars, runVars,
      faultVars
<1>1. TypeOK'
  <2>1. FlagTypes' BY DEF TypeOK, FlagTypes
  <2>2. ValueTypes'
    <3>1. status' \in [Jobs -> {"new", "pending", "detached"} \cup Ended]
      BY DEF TypeOK, Ended
    <3> QED
      BY <3>1 DEF TypeOK, ValueTypes, WorkerSteps
  <2> QED BY <2>1, <2>2 DEF TypeOK, FlagTypes, ValueTypes
<1>2. RunJobInv' BY DEF RunJobInv, TypeOK
<1>3. InFlightInv' BY DEF InFlightInv, Ended, WorkerInv
<1>4. WorkerInv' BY DEF WorkerInv, Idle
<1>5. CoreInv' BY DEF CoreInv
<1>6. CompletionInv' BY DEF CompletionInv, Served
<1>7. RanInv' BY DEF RanInv
<1>8. PmBalanced' /\ LockInv' /\ DomainInv' /\ PoweredInv' /\ NoSError'
  BY DEF PmBalanced, LockInv, DomainInv, PoweredInv, NoSError
<1> QED BY <1>1, <1>2, <1>3, <1>4, <1>5, <1>6, <1>7, <1>8

(* An ended job is freed. *)
LEMMA StepFreeJob ==
  ASSUME NEW j \in Jobs, RocketInv, FreeJob(j)
  PROVE  RocketInv'
<1> USE DEF RocketInv, FreeJob, coreVars, pmVars, hwVars, irqVars, runVars,
      faultVars
<1>1. TypeOK' BY DEF TypeOK
<1>2. PmBalanced' /\ RunJobInv' /\ LockInv' /\ InFlightInv' /\ WorkerInv' /\
      DomainInv' /\ PoweredInv' /\ CoreInv' /\ CompletionInv' /\ RanInv' /\
      NoSError'
  BY DEF PmBalanced, RunJobInv, LockInv, InFlightInv, Ended, WorkerInv, Idle,
     DomainInv, PoweredInv, CoreInv, CompletionInv, Served, RanInv, NoSError
<1> QED BY <1>1, <1>2

(* The core is powered down. *)
LEMMA StepRuntimeSuspend ==
  ASSUME RocketInv, RuntimeSuspend
  PROVE  RocketInv'
<1> USE DEF RocketInv, RuntimeSuspend, schedVars, coreVars, hwVars, irqVars,
      runVars, faultVars
<1>1. TypeOK'
  <2>1. FlagTypes' BY DEF TypeOK, FlagTypes
  <2>2. ValueTypes' BY DEF TypeOK, ValueTypes
  <2> QED BY <2>1, <2>2 DEF TypeOK, FlagTypes, ValueTypes
<1>2. PoweredInv' BY DEF PoweredInv
<1>3. PmBalanced' /\ RunJobInv' /\ LockInv' /\ InFlightInv' /\ WorkerInv' /\
      DomainInv' /\ CoreInv' /\ CompletionInv' /\ RanInv' /\ NoSError'
  BY DEF PmBalanced, RunJobInv, LockInv, InFlightInv, Ended, WorkerInv, Idle,
     DomainInv, CoreInv, CompletionInv, Served, RanInv, NoSError
<1> QED BY <1>1, <1>2, <1>3

(* The driver starts with nothing in flight. *)
LEMMA InitRocket == Init => RocketInv
<1> SUFFICES ASSUME Init PROVE RocketInv
  OBVIOUS
<1>1. TypeOK
  <2>1. \A j \in Jobs : 0 <= Tasks[j]
    BY RocketConstantsOK
  <2>2. next \in [Jobs -> Nat] /\ \A j \in Jobs : next[j] <= Tasks[j]
    BY <2>1 DEF Init
  <2> QED BY <2>2 DEF Init, TypeOK, Ended, WorkerSteps
<1>2. PmBalanced /\ RunJobInv /\ LockInv /\ DomainInv /\ PoweredInv /\ NoSError
  BY DEF Init, PmBalanced, RunJobInv, LockInv, DomainInv, PoweredInv, NoSError
<1>3. InFlightInv /\ WorkerInv /\ CoreInv /\ CompletionInv
  BY DEF Init, InFlightInv, WorkerInv, CoreInv, CompletionInv, Served
<1>4. RanInv
  BY NoJobOutside DEF Init, RanInv
<1> QED BY <1>1, <1>2, <1>3, <1>4 DEF RocketInv

(* A stuttering step changes nothing the invariant speaks of. *)
LEMMA StutterRocket ==
  ASSUME RocketInv, UNCHANGED vars
  PROVE  RocketInv'
<1>1. TypeOK'
  BY DEF RocketInv, TypeOK, vars, schedVars, coreVars, pmVars, hwVars,
     faultVars, irqVars, runVars
<1>2. /\ PmBalanced' /\ RunJobInv' /\ LockInv' /\ InFlightInv' /\ DomainInv'
      /\ PoweredInv' /\ CoreInv' /\ NoSError'
  BY DEF RocketInv, PmBalanced, RunJobInv, LockInv, InFlightInv, DomainInv,
     PoweredInv, CoreInv, NoSError, vars, schedVars, coreVars, pmVars, hwVars,
     faultVars, irqVars, runVars
<1>3. WorkerInv' /\ CompletionInv' /\ RanInv'
  BY DEF RocketInv, WorkerInv, Idle, CompletionInv, Served, RanInv, vars,
     schedVars, coreVars, pmVars, hwVars, faultVars, irqVars, runVars
<1> QED BY <1>1, <1>2, <1>3 DEF RocketInv

(* One step of any actor preserves the invariant. *)
LEMMA StepRocket == RocketInv /\ [Next]_vars => RocketInv'
<1> SUFFICES ASSUME RocketInv, [Next]_vars PROVE RocketInv'
  OBVIOUS
<1>1. ASSUME NEW j \in Jobs, RunJob(j) \/ FreeJob(j) PROVE RocketInv'
  BY <1>1, StepRunJob, StepFreeJob
<1>2. CASE Run
  BY <1>2, StepRunResume, StepRunAttach, StepRunSubmit, StepRunArm DEF Run
<1>3. CASE Irq
  BY <1>3, StepHardRead, StepHardMask DEF Irq
<1>4. CASE Thread
  BY <1>4, StepThreadEnter, StepThreadStop, StepThreadArm, StepThreadPut
     DEF Thread
<1>5. CASE Timedout
  BY <1>5, StepTimedout
<1>6. CASE Reset
  BY <1>6, StepSchedPause, StepSchedStop, StepResetMask, StepResetSync,
     StepResetRelease, StepCoreReset, StepResetUnpend, StepSchedStart
     DEF Reset
<1>7. CASE RuntimeSuspend
  BY <1>7, StepRuntimeSuspend
<1>8. CASE TaskEnds \/ FaultRaised \/ FaultServed
  BY <1>8, StepTaskEnds, StepFaultRaised, StepFaultServed
<1>9. CASE UNCHANGED vars
  BY <1>9, StutterRocket
<1> QED
  BY <1>1, <1>2, <1>3, <1>4, <1>5, <1>6, <1>7, <1>8, <1>9 DEF Next

(* The invariant holds in every reachable state: run_job, the interrupt, its
   thread and the reset keep the core, the job and its references together. *)
THEOREM RocketInvariance == Spec => []RocketInv
<1> QED BY InitRocket, StepRocket, PTL DEF Spec

-----------------------------------------------------------------------------
(* The properties of RocketJob, for every number of jobs and tasks *)

(* Every variable keeps its type: next_task_idx never passes task_count and
   the PM count never goes below zero. *)
THEOREM TypeTheorem == Spec => []TypeOK
<1>1. RocketInv => TypeOK
  BY DEF RocketInv
<1> QED BY <1>1, RocketInvariance, PTL

(* rocket_job_run(), the threaded handler and the reset put exactly the
   runtime PM references that were taken. *)
THEOREM PmTheorem == Spec => []PmBalanced
<1>1. RocketInv => PmBalanced
  BY DEF RocketInv
<1> QED BY <1>1, RocketInvariance, PTL

(* rocket_job_run() never meets the domain of an earlier job. *)
THEOREM DomainTheorem == Spec => []DomainFree
<1>1. RocketInv => DomainFree
  BY DEF RocketInv, DomainInv, DomainFree
<1> QED BY <1>1, RocketInvariance, PTL

(* The core never executes a task of a job user space has seen end. *)
THEOREM EndTheorem == Spec => []NoRunAfterEnd
<1>1. RocketInv => NoRunAfterEnd
  BY DEF RocketInv, CoreInv, InFlightInv, NoRunAfterEnd
<1> QED BY <1>1, RocketInvariance, PTL

(* No register access meets a suspended core before the first fault. *)
THEOREM SErrorTheorem == Spec => []NoSError
<1>1. RocketInv => NoSError
  BY DEF RocketInv
<1> QED BY <1>1, RocketInvariance, PTL

(* A job reported done has had every task executed: it is not on the core,
   and each of the tasks next_task_idx counts has run. *)
THEOREM DoneTheorem == Spec => []DoneMeansRan
<1>1. ASSUME RocketInv, ~faulted, NEW j \in Jobs, status[j] = "done"
      PROVE  ran[j] = Tasks[j]
  <2>1. hwJob # j
    BY <1>1, NoJobOutside DEF RocketInv, CoreInv, InFlightInv
  <2>2. ran[j] = next[j] - 0 /\ next[j] = Tasks[j]
    BY <1>1, <2>1 DEF RocketInv, RanInv
  <2> QED BY <1>1, <2>2 DEF RocketInv, TypeOK
<1>2. RocketInv => DoneMeansRan
  BY <1>1 DEF DoneMeansRan
<1> QED BY <1>2, RocketInvariance, PTL

(* Past synchronize_irq() the threaded handler neither runs nor is woken,
   which is what rocket_reset() relies on to drop the job unlocked. *)
THEOREM QuietTheorem == Spec => []QuietAfterSync
<1>1. RocketInv => QuietAfterSync
  <2> SUFFICES ASSUME RocketInv, ~faulted, wpc \in {"release", "reset"}
               PROVE  tpc = "idle" /\ ~wake
    BY DEF QuietAfterSync
  <2>1. ~Served /\ tpc \notin {"arm", "put"}
    BY DEF RocketInv, CompletionInv
  <2> QED BY <2>1 DEF Served, RocketInv, TypeOK
<1> QED BY <1>1, RocketInvariance, PTL

(* The zero in OPERATION_ENABLE meets no running task before the first fault. *)
THEOREM NoTaskStoppedTheorem == Spec => NoTaskStopped
<1>1. RocketInv /\ [Next]_vars =>
        [~faulted /\ tpc = "lock" /\ tpc' # "lock" => hwJob = NoJob]_vars
  BY DEF RocketInv, CompletionInv, Served
<1> QED BY <1>1, RocketInvariance, PTL DEF Spec, NoTaskStopped
=============================================================================

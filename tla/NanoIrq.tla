------------------------------ MODULE NanoIrq ------------------------------
(***************************************************************************)
(* The interrupt half of the nano driver (replayer/nano_driver/gr_irq.c)   *)
(* and the interrupt lines of the GPU it serves.                           *)
(*                                                                         *)
(* The GPU has one job slot in use (GR_JS, "job slot is always 1"), so     *)
(* JOB_IRQ_RAWSTAT is the set of that slot's bits that are up, and         *)
(* JOB_IRQ_MASK says whether the slot is unmasked.  Of GPU_IRQ_RAWSTAT the *)
(* two bits the replayer looks at are kept.  Every register access of a    *)
(* handler is a step of its own: the replay thread and the GPU run between *)
(* any two of them.                                                        *)
(***************************************************************************)
EXTENDS Naturals

VARIABLES
    jobActive,   \* the job slot is executing a job chain
    jobRaw,      \* JOB_IRQ_RAWSTAT, a set of JobBits
    jobMask,     \* JOB_IRQ_MASK, TRUE when the slot is unmasked
    jobIrq,      \* where gr_job_irq_handler is
    jobDone,     \* its local variable "done"
    isJobIrq,    \* atomic_t is_job_irq
    gpuRaw,      \* GPU_IRQ_RAWSTAT, a set of GpuBits
    gpuMask,     \* GPU_IRQ_MASK, a set of GpuBits
    gpuIrq,      \* where gr_gpu_irq_handler is
    gpuVal,      \* its local variable "val"
    isGpuIrq     \* atomic_t is_gpu_irq

jobVars == <<jobActive, jobRaw, jobMask, jobIrq, jobDone, isJobIrq>>
gpuVars == <<gpuRaw, gpuMask, gpuIrq, gpuVal, isGpuIrq>>

JobBits == {"done", "fail"}
GpuBits == {"RESET_COMPLETED", "CLEAN_CACHES_COMPLETED"}

JobIrqPcs == {"idle", "status", "clear", "rawstat", "inc"}
GpuIrqPcs == {"idle", "status", "clear", "inc"}

IrqTypeOK ==
    /\ jobActive \in BOOLEAN
    /\ jobRaw \in SUBSET JobBits
    /\ jobMask \in BOOLEAN
    /\ jobIrq \in JobIrqPcs
    /\ jobDone \in SUBSET JobBits
    /\ isJobIrq \in Nat
    /\ gpuRaw \in SUBSET GpuBits
    /\ gpuMask \in SUBSET GpuBits
    /\ gpuIrq \in GpuIrqPcs
    /\ gpuVal \in SUBSET GpuBits
    /\ isGpuIrq \in Nat

(* The device as gr_open and GR_IOCTL_IRQ_SETUP leave it: pending bits     *)
(* cleared, every interrupt unmasked, both event counters zero.            *)
IrqInit ==
    /\ jobActive = FALSE /\ jobRaw = {} /\ jobMask = TRUE
    /\ jobIrq = "idle" /\ jobDone = {} /\ isJobIrq = 0
    /\ gpuRaw = {} /\ gpuMask = GpuBits
    /\ gpuIrq = "idle" /\ gpuVal = {} /\ isGpuIrq = 0

-----------------------------------------------------------------------------
(* JOB_IRQ_STATUS and GPU_IRQ_STATUS: the raw bits that are unmasked.      *)
JobIrqStatus == IF jobMask THEN jobRaw ELSE {}
GpuIrqStatus == gpuRaw \cap gpuMask

(* The job chain ends, well or badly; either way the slot raises a bit.    *)
JobFinish ==
    /\ jobActive
    /\ \E b \in JobBits : jobRaw' = jobRaw \cup {b}
    /\ jobActive' = FALSE
    /\ UNCHANGED <<jobMask, jobIrq, jobDone, isJobIrq>>

(* Faulty variant: the event is counted where the wake-up is, on entry.    *)
JobIrqEnterCounts ==
    /\ jobIrq = "idle"
    /\ JobIrqStatus # {}
    /\ jobIrq' = "status"
    /\ isJobIrq' = isJobIrq + 1
    /\ UNCHANGED <<jobActive, jobRaw, jobMask, jobDone>>

(* gr_job_irq_handler: the line is level triggered and the handler is not  *)
(* reentrant.  wake_up_interruptible comes first; nobody sleeps on the     *)
(* queue (the poll timeout is 0), so it changes nothing.                   *)
JobIrqEnter ==
    /\ jobIrq = "idle"
    /\ JobIrqStatus # {}
    /\ jobIrq' = "status"
    /\ UNCHANGED <<jobActive, jobRaw, jobMask, jobDone, isJobIrq>>

(* done = JOB_IRQ_STATUS.                                                  *)
JobIrqReadStatus ==
    /\ jobIrq = "status"
    /\ jobDone' = JobIrqStatus
    /\ jobIrq' = IF jobDone' = {} THEN "inc" ELSE "clear"
    /\ UNCHANGED <<jobActive, jobRaw, jobMask, isJobIrq>>

(* JOB_IRQ_CLEAR of the done and failed bits seen for the slot.            *)
JobIrqClear ==
    /\ jobIrq = "clear"
    /\ jobRaw' = jobRaw \ jobDone
    /\ jobIrq' = "rawstat"
    /\ UNCHANGED <<jobActive, jobMask, jobDone, isJobIrq>>

(* done = JOB_IRQ_RAWSTAT, and round the loop while it is not 0.           *)
JobIrqReadRawstat ==
    /\ jobIrq = "rawstat"
    /\ jobDone' = jobRaw
    /\ jobIrq' = IF jobRaw = {} THEN "inc" ELSE "clear"
    /\ UNCHANGED <<jobActive, jobRaw, jobMask, isJobIrq>>

(* Faulty variant: the handler returns without counting the event.         *)
JobIrqReturnOnly ==
    /\ jobIrq = "inc"
    /\ jobIrq' = "idle"
    /\ UNCHANGED <<jobActive, jobRaw, jobMask, jobDone, isJobIrq>>

(* atomic_inc(&is_job_irq); return IRQ_HANDLED.                            *)
JobIrqInc ==
    /\ jobIrq = "inc"
    /\ isJobIrq' = isJobIrq + 1
    /\ jobIrq' = "idle"
    /\ UNCHANGED <<jobActive, jobRaw, jobMask, jobDone>>

JobIrqHandler ==
    JobIrqEnter \/ JobIrqReadStatus \/ JobIrqClear \/ JobIrqReadRawstat \/ JobIrqInc

(* Faulty variant: the event is reported but not taken.                    *)
JobIrqPollKeeps ==
    /\ isJobIrq > 0
    /\ UNCHANGED <<jobActive, jobRaw, jobMask, jobIrq, jobDone, isJobIrq>>

(* Faulty variant: the counter is decremented without being read.          *)
JobIrqPollUnchecked ==
    /\ isJobIrq' = isJobIrq - 1
    /\ UNCHANGED <<jobActive, jobRaw, jobMask, jobIrq, jobDone>>

(* job_irq_poll: reports POLLIN, and takes one event, when there is one.   *)
(* There is one poller, so the read and the decrement are one step.        *)
JobIrqPoll ==
    /\ isJobIrq > 0
    /\ isJobIrq' = isJobIrq - 1
    /\ UNCHANGED <<jobActive, jobRaw, jobMask, jobIrq, jobDone>>

-----------------------------------------------------------------------------
(* gr_gpu_irq_handler: read the status, clear what was read, count.        *)
GpuIrqEnter ==
    /\ gpuIrq = "idle"
    /\ GpuIrqStatus # {}
    /\ gpuIrq' = "status"
    /\ UNCHANGED <<gpuRaw, gpuMask, gpuVal, isGpuIrq>>

GpuIrqReadStatus ==
    /\ gpuIrq = "status"
    /\ gpuVal' = GpuIrqStatus
    /\ gpuIrq' = "clear"
    /\ UNCHANGED <<gpuRaw, gpuMask, isGpuIrq>>

GpuIrqClear ==
    /\ gpuIrq = "clear"
    /\ gpuRaw' = gpuRaw \ gpuVal
    /\ gpuIrq' = "inc"
    /\ UNCHANGED <<gpuMask, gpuVal, isGpuIrq>>

GpuIrqInc ==
    /\ gpuIrq = "inc"
    /\ isGpuIrq' = isGpuIrq + 1
    /\ gpuIrq' = "idle"
    /\ UNCHANGED <<gpuRaw, gpuMask, gpuVal>>

GpuIrqHandler == GpuIrqEnter \/ GpuIrqReadStatus \/ GpuIrqClear \/ GpuIrqInc
=============================================================================

----------------------------- MODULE NanoDevice -----------------------------
(***************************************************************************)
(* The device file /dev/gr of the nano driver (nano_driver/gr_main.c) over *)
(* its whole life: replayer processes open it, set up their interrupt      *)
(* descriptors, replay, and close it or are killed, while the GPU and the  *)
(* job interrupt handler (module NanoIrq) go on.                           *)
(*                                                                         *)
(* misc_open runs gr_open under a mutex and gr_release runs under none, so *)
(* a release may overlap the next open.  Of a replay this module keeps the *)
(* soft reset it begins with, the unmasking that follows and its jobs; the *)
(* rest is in GrReplay.  Of the GPU interrupt line it keeps the mask; the  *)
(* MMU line is served by a handler that leaves everything as it was.       *)
(***************************************************************************)
EXTENDS NanoIrq, FiniteSets

CONSTANTS
    Procs,        \* replayer processes
    Nobody,       \* not a process
    MaxStarts,    \* how often each is started
    MaxJobs,      \* jobs of a recording
    Uses          \* how the processes use the device, to choose from:
                  \*   "serial"   a process is started when the device is closed
                  \*   "killed"   so too, and processes may be killed
                  \*   "overlap"  they may be killed, and started at any time

ASSUME StartAssumption == MaxStarts \in Nat /\ MaxJobs \in Nat \ {0}
ASSUME ProcsAssumption == IsFiniteSet(Procs) /\ Nobody \notin Procs
ASSUME UseAssumption == Uses \subseteq {"serial", "killed", "overlap"}

VARIABLES
    use,         \* which of Uses
    ppc,         \* where each process is
    starts,      \* starts each process has left
    jobs,        \* jobs left in its replay
    inUse,       \* int in_use
    registered,  \* the job interrupt's actions, each named by who requested it
    refused,     \* whose request_irq failed, which the driver prints and forgets
    passes,      \* actions of the current interrupt still to be run
    jobOwner     \* whose job chain the slot executes

procVars == <<use, ppc, starts, jobs>>
vars     == <<procVars, inUse, registered, refused, passes, jobOwner, jobVars, gpuVars>>

OpeningPcs   == {"clear", "unmask", "install"}
OpenPcs      == {"setup", "reset", "enable", "ready", "wait"}
HoldingPcs   == OpeningPcs \cup OpenPcs \cup {"release"}
ReleasingPcs == {"mask", "relclear", "free"}
ProcPcs      == {"off"} \cup HoldingPcs \cup ReleasingPcs

TypeOK ==
    /\ IrqTypeOK
    /\ use \in Uses
    /\ ppc \in [Procs -> ProcPcs]
    /\ starts \in [Procs -> 0..MaxStarts]
    /\ jobs \in [Procs -> 0..MaxJobs]
    /\ inUse \in Nat
    /\ registered \in SUBSET Procs
    /\ refused \in SUBSET Procs
    /\ passes \in Nat
    /\ jobOwner \in Procs \cup {Nobody}

(* The module as it is loaded: nothing unmasked, no handler installed.     *)
Init ==
    /\ jobActive = FALSE /\ jobRaw = {} /\ jobMask = FALSE
    /\ jobIrq = "idle" /\ jobDone = {} /\ isJobIrq = 0
    /\ gpuRaw = {} /\ gpuMask = {}
    /\ gpuIrq = "idle" /\ gpuVal = {} /\ isGpuIrq = 0
    /\ use \in Uses
    /\ ppc = [p \in Procs |-> "off"]
    /\ starts = [p \in Procs |-> MaxStarts]
    /\ jobs = [p \in Procs |-> 0]
    /\ inUse = 0 /\ registered = {} /\ refused = {} /\ passes = 0 /\ jobOwner = Nobody

Goto(p, label) == ppc' = [ppc EXCEPT ![p] = label] /\ UNCHANGED use

-----------------------------------------------------------------------------
(* gr_open.                                                                *)

MayStart(p) ==
    /\ ppc[p] = "off" /\ starts[p] > 0
    /\ use # "overlap" => \A q \in Procs : ppc[q] = "off"

(* Faulty variant: in_use is not looked at.                                *)
OpenUnchecked(p) ==
    /\ MayStart(p)
    /\ starts' = [starts EXCEPT ![p] = @ - 1]
    /\ inUse' = inUse + 1
    /\ Goto(p, "clear")
    /\ UNCHANGED <<jobs, registered, refused, passes, jobOwner, jobVars, gpuVars>>

(* With the device in use the open fails with EBUSY and the process aborts *)
(* (gr_manager_init); otherwise it takes the device.                       *)
Open(p) ==
    /\ MayStart(p)
    /\ starts' = [starts EXCEPT ![p] = @ - 1]
    /\ IF inUse # 0 THEN UNCHANGED <<use, ppc, inUse>>
                    ELSE inUse' = inUse + 1 /\ Goto(p, "clear")
    /\ UNCHANGED <<jobs, registered, refused, passes, jobOwner, jobVars, gpuVars>>

(* GPU_IRQ_CLEAR, GPU_IRQ_MASK, JOB_IRQ_CLEAR, in that order ...           *)
OpenClear(p) ==
    /\ ppc[p] = "clear"
    /\ gpuRaw' = {} /\ gpuMask' = GpuBits
    /\ jobRaw' = {}
    /\ Goto(p, "unmask")
    /\ UNCHANGED <<starts, jobs, inUse, registered, refused, passes, jobOwner>>
    /\ UNCHANGED <<jobActive, jobMask, jobIrq, jobDone, isJobIrq, gpuIrq, gpuVal, isGpuIrq>>

(* ... then JOB_IRQ_MASK.                                                  *)
OpenUnmask(p) ==
    /\ ppc[p] = "unmask"
    /\ jobMask' = TRUE
    /\ Goto(p, "install")
    /\ UNCHANGED <<starts, jobs, inUse, registered, refused, passes, jobOwner>>
    /\ UNCHANGED <<jobActive, jobRaw, jobIrq, jobDone, isJobIrq, gpuVars>>

(* gr_install_interrupts.  The line is requested IRQF_SHARED with the      *)
(* device as cookie, so a second registration of it is accepted.  When     *)
(* request_irq fails, that is printed and the open succeeds all the same.  *)
OpenInstall(p) ==
    /\ ppc[p] = "install"
    /\ \/ registered' = registered \cup {p} /\ UNCHANGED refused
       \/ refused' = refused \cup {p} /\ UNCHANGED registered
    /\ Goto(p, "setup")
    /\ UNCHANGED <<starts, jobs, inUse, passes, jobOwner, jobVars, gpuVars>>

-----------------------------------------------------------------------------
(* A process that has the device open.                                     *)

(* GR_IOCTL_IRQ_SETUP: job_irq_init and gpu_irq_init zero the counters.    *)
IrqSetup(p) ==
    /\ ppc[p] = "setup"
    /\ isJobIrq' = 0 /\ isGpuIrq' = 0
    /\ jobs' = [jobs EXCEPT ![p] = MaxJobs]
    /\ Goto(p, "reset")
    /\ UNCHANGED <<starts, inUse, registered, refused, passes, jobOwner>>
    /\ UNCHANGED <<jobActive, jobRaw, jobMask, jobIrq, jobDone, gpuRaw, gpuMask, gpuIrq, gpuVal>>

(* The replayed soft reset stops the slot and masks every interrupt, ...   *)
SoftReset(p) ==
    /\ ppc[p] = "reset"
    /\ jobActive' = FALSE /\ jobRaw' = {} /\ jobMask' = FALSE /\ jobOwner' = Nobody
    /\ gpuRaw' = {} /\ gpuMask' = {"RESET_COMPLETED"}
    /\ Goto(p, "enable")
    /\ UNCHANGED <<starts, jobs, inUse, registered, refused, passes>>
    /\ UNCHANGED <<jobIrq, jobDone, isJobIrq, gpuIrq, gpuVal, isGpuIrq>>

(* ... and the recorded JOB_IRQ_MASK write unmasks the slot again.         *)
Enable(p) ==
    /\ ppc[p] = "enable"
    /\ jobMask' = TRUE
    /\ Goto(p, "ready")
    /\ UNCHANGED <<starts, jobs, inUse, registered, refused, passes, jobOwner>>
    /\ UNCHANGED <<jobActive, jobRaw, jobIrq, jobDone, isJobIrq, gpuVars>>

Submit(p) ==
    /\ ppc[p] = "ready" /\ jobs[p] > 0
    /\ jobActive' = TRUE /\ jobOwner' = p
    /\ jobs' = [jobs EXCEPT ![p] = @ - 1]
    /\ Goto(p, "wait")
    /\ UNCHANGED <<starts, inUse, registered, refused, passes>>
    /\ UNCHANGED <<jobRaw, jobMask, jobIrq, jobDone, isJobIrq, gpuVars>>

(* gr_wait_job_irq.                                                        *)
Wait(p) ==
    /\ ppc[p] = "wait"
    /\ JobIrqPoll
    /\ Goto(p, "ready")
    /\ UNCHANGED <<starts, jobs, inUse, registered, refused, passes, jobOwner, gpuVars>>

(* gr_manager_term closes the file at the end of the replay; the kernel    *)
(* closes it when the process is killed or aborts.                         *)
Close(p) ==
    /\ \/ ppc[p] = "ready" /\ jobs[p] = 0
       \/ use # "serial" /\ ppc[p] \in OpenPcs
    /\ jobs' = [jobs EXCEPT ![p] = 0]
    /\ Goto(p, "release")
    /\ UNCHANGED <<starts, inUse, registered, refused, passes, jobOwner, jobVars, gpuVars>>

-----------------------------------------------------------------------------
(* gr_release: in_use goes down first, ...                                 *)
ReleaseDec(p) ==
    /\ ppc[p] = "release"
    /\ inUse' = inUse - 1
    /\ Goto(p, "mask")
    /\ UNCHANGED <<starts, jobs, registered, refused, passes, jobOwner, jobVars, gpuVars>>

(* Faulty variant: the job interrupt is left unmasked.                     *)
ReleaseMaskGpuOnly(p) ==
    /\ ppc[p] = "mask"
    /\ gpuRaw' = {} /\ gpuMask' = {}
    /\ Goto(p, "relclear")
    /\ UNCHANGED <<starts, jobs, inUse, registered, refused, passes, jobOwner>>
    /\ UNCHANGED <<jobVars, gpuIrq, gpuVal, isGpuIrq>>

(* ... then the interrupts are masked, ...                                 *)
ReleaseMask(p) ==
    /\ ppc[p] = "mask"
    /\ gpuRaw' = {} /\ gpuMask' = {}
    /\ jobMask' = FALSE
    /\ Goto(p, "relclear")
    /\ UNCHANGED <<starts, jobs, inUse, registered, refused, passes, jobOwner>>
    /\ UNCHANGED <<jobActive, jobRaw, jobIrq, jobDone, isJobIrq, gpuIrq, gpuVal, isGpuIrq>>

(* ... the pending bits cleared, ...                                       *)
ReleaseClear(p) ==
    /\ ppc[p] = "relclear"
    /\ jobRaw' = {}
    /\ Goto(p, "free")
    /\ UNCHANGED <<starts, jobs, inUse, registered, refused, passes, jobOwner>>
    /\ UNCHANGED <<jobActive, jobMask, jobIrq, jobDone, isJobIrq, gpuVars>>

(* Faulty variant: the handler stays registered.                           *)
ReleaseFreeForgets(p) ==
    /\ ppc[p] = "free"
    /\ refused' = refused \ {p}
    /\ Goto(p, "off")
    /\ UNCHANGED <<starts, jobs, inUse, registered, passes, jobOwner, jobVars, gpuVars>>

(* ... and gr_release_interrupts removes an action, when no handler runs   *)
(* (free_irq waits for that).  All actions have the same cookie: it does   *)
(* not matter which one goes, and a process whose request failed removes   *)
(* that of another, if there is one.                                       *)
ReleaseFree(p) ==
    /\ ppc[p] = "free"
    /\ jobIrq = "idle" /\ passes = 0
    /\ \/ registered = {} /\ UNCHANGED registered
       \/ \E q \in registered : (p \in registered => q = p) /\ registered' = registered \ {q}
    /\ refused' = refused \ {p}
    /\ Goto(p, "off")
    /\ UNCHANGED <<starts, jobs, inUse, passes, jobOwner, jobVars, gpuVars>>

-----------------------------------------------------------------------------
(* An interrupt runs gr_job_irq_handler once for every registered action:  *)
(* the first pass needs the line up, the others follow whatever it is.     *)
HandlerFirst ==
    /\ registered # {} /\ passes = 0
    /\ JobIrqEnter
    /\ passes' = Cardinality(registered) - 1
    /\ UNCHANGED <<procVars, inUse, registered, refused, jobOwner, gpuVars>>

HandlerAgain ==
    /\ jobIrq = "idle" /\ passes > 0
    /\ jobIrq' = "status" /\ passes' = passes - 1
    /\ UNCHANGED <<procVars, inUse, registered, refused, jobOwner>>
    /\ UNCHANGED <<jobActive, jobRaw, jobMask, jobDone, isJobIrq, gpuVars>>

HandlerStep ==
    /\ JobIrqReadStatus \/ JobIrqClear \/ JobIrqReadRawstat \/ JobIrqInc
    /\ UNCHANGED <<procVars, inUse, registered, refused, passes, jobOwner, gpuVars>>

Handler == HandlerFirst \/ HandlerAgain \/ HandlerStep

JobEnds ==
    /\ JobFinish
    /\ jobOwner' = Nobody
    /\ UNCHANGED <<procVars, inUse, registered, refused, passes, gpuVars>>

-----------------------------------------------------------------------------
Process(p) ==
    \/ Open(p) \/ OpenClear(p) \/ OpenUnmask(p) \/ OpenInstall(p)
    \/ IrqSetup(p) \/ SoftReset(p) \/ Enable(p) \/ Submit(p) \/ Wait(p) \/ Close(p)
    \/ ReleaseDec(p) \/ ReleaseMask(p) \/ ReleaseClear(p) \/ ReleaseFree(p)

AllOff == \A p \in Procs : ppc[p] = "off"

(* gr_wait_job_irq polls without end when no handler was installed.        *)
PollForever ==
    /\ \E p \in refused : ppc[p] = "wait"
    /\ isJobIrq = 0
    /\ UNCHANGED vars

(* Every process has used up its starts.                                   *)
Finished == AllOff /\ (\A p \in Procs : starts[p] = 0) /\ UNCHANGED vars

Next == (\E p \in Procs : Process(p)) \/ Handler \/ JobEnds \/ PollForever \/ Finished

Spec == Init /\ [][Next]_vars

(* Processes are scheduled, the GPU finishes its job and an asserted       *)
(* interrupt is served.                                                    *)
FairSpec ==
    /\ Spec
    /\ \A p \in Procs : WF_vars(Process(p))
    /\ WF_vars(Handler) /\ WF_vars(JobEnds)

-----------------------------------------------------------------------------
Holders == {p \in Procs : ppc[p] \in HoldingPcs}

(* in_use (gr_main.c:34): however opens, releases and kills overlap, at    *)
(* most one process is between its successful open and the start of its    *)
(* release, and in_use counts it.                                          *)
ExclusiveOwner ==
    /\ \A p, q \in Holders : p = q
    /\ inUse = IF Holders = {} THEN 0 ELSE 1

(* A closed device is silent: once every process is gone, whatever the     *)
(* order their releases and opens interleaved in, the interrupts are       *)
(* masked, no handler is registered and none is running.                   *)
QuietWhenClosed ==
    AllOff => ~jobMask /\ gpuMask = {} /\ registered = {} /\ jobIrq = "idle" /\ passes = 0

(* What makes QuietWhenClosed inductive: who is registered, and that the   *)
(* unmasked line and a running handler have a process to undo them.        *)
InstalledPcs == OpenPcs \cup {"release"} \cup ReleasingPcs
Installed    == {p \in Procs : ppc[p] \in InstalledPcs}

RegisteredInv == registered \subseteq Installed

UnmaskedInv ==
    jobMask \/ gpuMask # {} => \E p \in Procs : ppc[p] \in HoldingPcs \cup {"mask"}

HandlerInv == jobIrq # "idle" \/ passes > 0 => registered # {}

DeviceInv == ExclusiveOwner /\ RegisteredInv /\ UnmaskedInv /\ HandlerInv

(* A replaying process has the interrupts it was given: its slot is        *)
(* unmasked and one handler, not two, is registered for it unless its      *)
(* request_irq failed, from its first job to its last, also when the       *)
(* process before it was killed (gr_install_interrupts,                    *)
(* gr_release_interrupts).  A release that overlaps the next open takes    *)
(* both away from the new owner.                                           *)
OwnerHasInterrupts ==
    use # "overlap" =>
        \A p \in Procs :
            ppc[p] \in {"ready", "wait"} => jobMask /\ registered = {p} \ refused

(* "after write the next command, we wait for the interrupt"               *)
(* (gr_replay.c:220): a process that has waited for its job is not told    *)
(* before the job is over.                                                 *)
WaitMeansOver == \A p \in Procs : ppc[p] = "ready" => jobOwner # p

(* So it is when no process before it was killed.                          *)
WaitedForJob == use = "serial" => WaitMeansOver

(* What makes OwnerHasInterrupts inductive: without overlapping opens one  *)
(* process at a time has anything to do with the device.                   *)
AloneInv ==
    use # "overlap" =>
        /\ \A p, q \in Procs : ppc[p] # "off" /\ ppc[q] # "off" => p = q
        /\ \A p \in Procs : ppc[p] \in {"ready", "wait"} => jobMask
        /\ refused \subseteq Installed
        /\ registered = Installed \ refused

(* What makes WaitedForJob inductive: the one job in flight is the one its *)
(* process waits for, and how far its interrupt has got; outside the wait  *)
(* nothing is left of a job.                                               *)
SerialInv ==
    use = "serial" =>
        /\ passes = 0
        /\ (\A p \in Procs : ppc[p] # "wait") =>
              ~jobActive /\ jobRaw = {} /\ jobIrq = "idle" /\ isJobIrq = 0
        /\ jobOwner # Nobody => jobActive /\ ppc[jobOwner] = "wait"
        /\ jobActive => jobRaw = {} /\ jobIrq = "idle" /\ isJobIrq = 0
        /\ jobRaw # {} => jobIrq \in {"idle", "status", "clear"} /\ isJobIrq = 0
        /\ jobIrq # "idle" => isJobIrq = 0
        /\ jobIrq = "clear" => jobDone = jobRaw
        /\ isJobIrq \in {0, 1}

(* Every process that opens the device eventually leaves it, as the event  *)
(* of each of its jobs arrives, unless its request_irq failed: then the    *)
(* poll of its first job goes on for ever.                                 *)
EveryReplayEnds ==
    \A p \in Procs :
        use = "serial" /\ ppc[p] # "off" ~> ppc[p] = "off" \/ p \in refused
=============================================================================

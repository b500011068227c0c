------------------------------ MODULE GrReplay ------------------------------
(***************************************************************************)
(* gr_replay_run (replayer/gr_replay.c): the thread that feeds a recorded  *)
(* register history to the GPU and waits for the job interrupt after every *)
(* job it starts, beside the GPU and the nano driver's interrupt handlers  *)
(* (module NanoIrq).                                                       *)
(*                                                                         *)
(* A recording is a sequence of register accesses [rw, reg, val].  Only    *)
(* the registers that gr_replay_run tells apart, and those the interrupt   *)
(* logic needs, have names; all others are "OTHER".  The address of a job  *)
(* chain is a pair <<hi, lo>>.  Of the GPU's memory the model keeps the    *)
(* status word of each job chain, and whether the GPU's caches hold data   *)
(* that memory does not.                                                   *)
(***************************************************************************)
EXTENDS NanoIrq, Sequences

CONSTANTS
    Recordings,      \* the recorded histories to choose from
    Words,           \* halves of job chain addresses
    NumIter,         \* how often the caller runs the replay (num_iter)
    MaxLoops,        \* turns of a wait loop before it gives up
    CheckpointModes, \* the values of config->test_checkpoint to choose from
    Prompt,          \* the GPU answers before a wait loop gives up
    Cleanable        \* the job chains that gr_clean_used_atom recognises

HeadRegs == {"JS_HEAD_NEXT_LO", "JS_HEAD_NEXT_HI"}

OtherRegs == {"LATEST_FLUSH", "AS_STATUS", "JS_COMMAND_NEXT", "JS_FLUSH_ID_NEXT",
              "JS_CONFIG_NEXT", "AS_TRANSTAB", "AS_COMMAND", "GPU_COMMAND", "JOB_IRQ_CLEAR",
              "JOB_IRQ_MASK", "GPU_IRQ_CLEAR", "GPU_IRQ_MASK", "OTHER"}

Values == {"none", "all", "ACTIVE", "INACTIVE", "FLUSH_MEM", "SOFT_RESET",
           "CLEAN_INV_CACHES", "recorded"}

RegIo == [rw : {"W"}, reg : HeadRegs, val : Words]
            \cup [rw : {"R", "W"}, reg : OtherRegs, val : Values]

JobChain == Words \X Words
NoChain  == <<"none", "none">>

ASSUME RecordingsAssumption == Recordings \subseteq Seq(RegIo)
ASSUME BoundsAssumption == NumIter \in Nat \ {0} /\ MaxLoops \in Nat \ {0}
ASSUME ConfigAssumption ==
    CheckpointModes \subseteq BOOLEAN /\ Prompt \in BOOLEAN /\ Cleanable \subseteq JobChain

VARIABLES
    rec,            \* rctx->list
    testCheckpoint, \* config->test_checkpoint
    i,              \* index of cur_io in it
    iter,           \* runs completed by the caller
    pc,             \* where gr_replay_run is
    loops,          \* turns left in the wait loop
    val,            \* the bits the wait loop read last
    flushId,        \* static latest_flush_id, by the register it was read from
    jcLo,           \* static jc_lo of gr_js_tune
    ckptCount,      \* static count of gr_write_checkpoint
    head,           \* the JS_HEAD_NEXT register pair, <<hi, lo>>
    jobHead,        \* JS_HEAD: the job chain the slot took from it
    jsFlush,        \* JS_CONFIG_NEXT lets the GPU flush its caches around jobs
    transtab,       \* the AS_TRANSTAB register: whose page table
    asActive,       \* AS_STATUS_AS_ACTIVE
    cleaning,       \* a cache clean started by GPU_COMMAND is under way
    resetting,      \* a soft reset is under way
    dirty,          \* the GPU's caches hold data that memory does not
    atom            \* status word of each job chain

loopVars   == <<loops, val>>
staticVars == <<flushId, jcLo, ckptCount>>
config     == <<rec, testCheckpoint>>
threadVars == <<config, i, iter, pc, loopVars, staticVars>>
slotVars   == <<head, jobHead, jsFlush, transtab>>
busyVars   == <<asActive, cleaning, resetting>>
memVars    == <<dirty, atom>>
devVars    == <<slotVars, busyVars, memVars>>
vars       == <<threadVars, devVars, jobVars, gpuVars>>

Pcs == {"io", "aswait", "ckcmd", "ckpoll", "ckmask", "ckclear", "asflush", "aspoll",
        "ckwrite", "submit", "wait", "rstmask", "done", "aborted"}
PollBits == GpuBits \cup {"AS_ACTIVE"}

ThreadTypeOK ==
    /\ rec \in Recordings
    /\ testCheckpoint \in CheckpointModes
    /\ i \in Nat \ {0}
    /\ iter \in 0..NumIter
    /\ pc \in Pcs
    /\ loops \in 0..MaxLoops
    /\ val \in SUBSET PollBits
    /\ flushId \in {"none", "LATEST_FLUSH", "AS_STATUS"}
    /\ jcLo \in Words \cup {"none"}
    /\ ckptCount \in Nat

DevTypeOK ==
    /\ head \in (Words \cup {"none"}) \X (Words \cup {"none"})
    /\ jobHead \in (Words \cup {"none"}) \X (Words \cup {"none"})
    /\ transtab \in {"none", "new"}
    /\ {jsFlush, asActive, cleaning, resetting, dirty} \subseteq BOOLEAN
    /\ atom \in [JobChain -> {"unused", "used"}]

TypeOK == IrqTypeOK /\ ThreadTypeOK /\ DevTypeOK

Init ==
    /\ IrqInit
    /\ rec \in Recordings /\ testCheckpoint \in CheckpointModes
    /\ i = 1 /\ iter = 0 /\ pc = "io" /\ loops = 0 /\ val = {}
    /\ flushId = "none" /\ jcLo = "none" /\ ckptCount = 0
    /\ head = NoChain /\ jobHead = NoChain /\ jsFlush = TRUE /\ transtab = "none"
    /\ asActive = FALSE /\ cleaning = FALSE /\ resetting = FALSE
    /\ dirty = FALSE /\ atom = [jc \in JobChain |-> "unused"]

-----------------------------------------------------------------------------
(* The loop of gr_replay_run: one recorded access per turn.                *)

AtIo(rw, regs) ==
    /\ pc = "io" /\ i \in 1..Len(rec)
    /\ rec[i].rw = rw /\ rec[i].reg \in regs

Goto(label) == pc' = label /\ UNCHANGED <<config, i, iter>>
NextIo      == i' = i + 1 /\ pc' = "io" /\ UNCHANGED <<config, iter>>

(* A loop that reads a busy flag with n turns left: a prompt GPU is no     *)
(* longer busy when the turns run out.                                     *)
MayRead(busy, n) == Prompt /\ n <= 2 => ~busy

(* case LATEST_FLUSH of the read switch.                                   *)
ReadLatestFlush ==
    /\ AtIo("R", {"LATEST_FLUSH"})
    /\ flushId' = "LATEST_FLUSH"
    /\ NextIo
    /\ UNCHANGED <<loopVars, jcLo, ckptCount, devVars, jobVars, gpuVars>>

(* case AS_STATUS: there is no break, so the value read from AS_STATUS     *)
(* becomes latest_flush_id too.                                            *)
ReadAsStatus ==
    /\ AtIo("R", {"AS_STATUS"})
    /\ rec[i].val # "ACTIVE"
    /\ flushId' = "AS_STATUS"
    /\ NextIo
    /\ UNCHANGED <<loopVars, jcLo, ckptCount, devVars, jobVars, gpuVars>>

(* If the recorded value was ACTIVE the thread first waits until it reads  *)
(* INACTIVE (reg_read_wait) ...                                            *)
ReadAsActive ==
    /\ AtIo("R", {"AS_STATUS"})
    /\ rec[i].val = "ACTIVE"
    /\ loops' = MaxLoops
    /\ Goto("aswait")
    /\ UNCHANGED <<val, staticVars, devVars, jobVars, gpuVars>>

(* ... one read per turn.  "--max_loops" is tested before the value, so    *)
(* what the last read returns is not looked at and the program aborts.     *)
AsStatusWait ==
    /\ pc = "aswait"
    /\ loops > 0 /\ MayRead(asActive, loops)
    /\ loops' = loops - 1
    /\ val' = IF asActive THEN {"AS_ACTIVE"} ELSE {}
    /\ \/ loops' = 0 /\ Goto("aborted") /\ UNCHANGED flushId
       \/ loops' > 0 /\ val' = {} /\ NextIo /\ flushId' = "AS_STATUS"
       \/ loops' > 0 /\ val' # {} /\ Goto("aswait") /\ UNCHANGED flushId
    /\ UNCHANGED <<jcLo, ckptCount, devVars, jobVars, gpuVars>>

(* Reads of any other register, and writes with no effect kept here.       *)
OtherIo ==
    /\ \/ AtIo("R", OtherRegs \ {"LATEST_FLUSH", "AS_STATUS"})
       \/ AtIo("W", {"LATEST_FLUSH", "AS_STATUS", "OTHER"})
    /\ NextIo
    /\ UNCHANGED <<loopVars, staticVars, devVars, jobVars, gpuVars>>

(* JS_HEAD_NEXT_LO: gr_js_tune keeps the low half, then it is written.     *)
WriteHeadLo ==
    /\ AtIo("W", {"JS_HEAD_NEXT_LO"})
    /\ jcLo' = rec[i].val
    /\ head' = <<head[1], rec[i].val>>
    /\ NextIo
    /\ UNCHANGED <<loopVars, flushId, ckptCount, jobHead, jsFlush, transtab>>
    /\ UNCHANGED <<busyVars, memVars, jobVars, gpuVars>>

(* Faulty variant: the atom status is not reset.                           *)
WriteHeadHiNoTune ==
    /\ AtIo("W", {"JS_HEAD_NEXT_HI"})
    /\ head' = <<rec[i].val, head[2]>>
    /\ NextIo
    /\ UNCHANGED <<loopVars, staticVars, jobHead, jsFlush, transtab>>
    /\ UNCHANGED <<busyVars, memVars, jobVars, gpuVars>>

(* JS_HEAD_NEXT_HI: gr_js_tune clears the status word of the atom at the   *)
(* address the two halves make, then the high half is written.             *)
WriteHeadHi ==
    /\ AtIo("W", {"JS_HEAD_NEXT_HI"})
    /\ atom' = [jc \in JobChain |-> IF jc = <<rec[i].val, jcLo>> THEN "unused" ELSE atom[jc]]
    /\ head' = <<rec[i].val, head[2]>>
    /\ NextIo
    /\ UNCHANGED <<loopVars, staticVars, jobHead, jsFlush, transtab>>
    /\ UNCHANGED <<busyVars, dirty, jobVars, gpuVars>>

(* JS_FLUSH_ID_NEXT gets latest_flush_id instead of the recorded id;       *)
(* JS_CONFIG_NEXT, with checkpoints on, START_FLUSH_NO_ACTION (0), so that *)
(* the GPU no longer flushes around a job; AS_TRANSTAB_LO/HI the page      *)
(* table of the replayer.                                                  *)
WriteReplaced ==
    /\ AtIo("W", {"JS_FLUSH_ID_NEXT", "JS_CONFIG_NEXT", "AS_TRANSTAB"})
    /\ jsFlush' = IF rec[i].reg = "JS_CONFIG_NEXT" THEN ~testCheckpoint ELSE jsFlush
    /\ transtab' = IF rec[i].reg = "AS_TRANSTAB" THEN "new" ELSE transtab
    /\ NextIo
    /\ UNCHANGED <<loopVars, staticVars, head, jobHead, busyVars, memVars, jobVars, gpuVars>>

(* AS_COMMAND FLUSH_MEM and GPU_COMMAND CLEAN_INV_CACHES keep the GPU busy *)
(* for a while; other commands have no effect that is kept here.           *)
WriteCommand ==
    /\ AtIo("W", {"AS_COMMAND", "GPU_COMMAND"})
    /\ rec[i].val # "SOFT_RESET"
    /\ asActive' = IF rec[i].val = "FLUSH_MEM" THEN TRUE ELSE asActive
    /\ cleaning' = IF rec[i].val = "CLEAN_INV_CACHES" THEN TRUE ELSE cleaning
    /\ NextIo
    /\ UNCHANGED <<loopVars, staticVars, slotVars, resetting, memVars, jobVars, gpuVars>>

(* A soft reset stops the slot, masks every interrupt and forgets the      *)
(* programmed registers at once; RESET_COMPLETED follows when it ends.     *)
(* (The driver writes GPU_IRQ_MASK right after the command and counts on   *)
(* it, so the registers are live meanwhile.)                               *)
WriteSoftReset ==
    /\ AtIo("W", {"GPU_COMMAND"})
    /\ rec[i].val = "SOFT_RESET"
    /\ jobActive' = FALSE /\ jobRaw' = {} /\ jobMask' = FALSE
    /\ gpuRaw' = {} /\ gpuMask' = {}
    /\ head' = NoChain /\ jobHead' = NoChain /\ jsFlush' = TRUE /\ transtab' = "none"
    /\ asActive' = FALSE /\ cleaning' = FALSE /\ resetting' = TRUE /\ dirty' = FALSE
    /\ Goto("rstmask")
    /\ UNCHANGED <<loopVars, staticVars, atom, jobIrq, jobDone, isJobIrq, gpuIrq, gpuVal, isGpuIrq>>

(* ... after which the replayer unmasks RESET_COMPLETED itself.            *)
UnmaskReset ==
    /\ pc = "rstmask"
    /\ gpuMask' = {"RESET_COMPLETED"}
    /\ NextIo
    /\ UNCHANGED <<loopVars, staticVars, devVars, jobVars, gpuRaw, gpuIrq, gpuVal, isGpuIrq>>

(* The interrupt registers, as the recorded driver wrote them.             *)
WriteJobIrq ==
    /\ AtIo("W", {"JOB_IRQ_CLEAR", "JOB_IRQ_MASK"})
    /\ jobRaw' = IF rec[i].reg = "JOB_IRQ_CLEAR" /\ rec[i].val = "all" THEN {} ELSE jobRaw
    /\ jobMask' = IF rec[i].reg = "JOB_IRQ_MASK" THEN rec[i].val = "all" ELSE jobMask
    /\ NextIo
    /\ UNCHANGED <<loopVars, staticVars, devVars, jobActive, jobIrq, jobDone, isJobIrq, gpuVars>>

WriteGpuIrq ==
    /\ AtIo("W", {"GPU_IRQ_CLEAR", "GPU_IRQ_MASK"})
    /\ gpuRaw' = IF rec[i].reg = "GPU_IRQ_CLEAR" /\ rec[i].val = "all" THEN {} ELSE gpuRaw
    /\ gpuMask' = IF rec[i].reg = "GPU_IRQ_CLEAR" THEN gpuMask
                  ELSE IF rec[i].val = "all" THEN GpuBits ELSE {}
    /\ NextIo
    /\ UNCHANGED <<loopVars, staticVars, devVars, jobVars, gpuIrq, gpuVal, isGpuIrq>>

-----------------------------------------------------------------------------
(* JS_COMMAND_NEXT: with checkpoints on, the caches are cleaned and what   *)
(* the jobs before have written is saved first.                            *)

(* gr_cache_invalidate: unmask CLEAN_CACHES_COMPLETED,                     *)
CkUnmask ==
    /\ AtIo("W", {"JS_COMMAND_NEXT"})
    /\ testCheckpoint
    /\ gpuMask' = gpuMask \cup {"CLEAN_CACHES_COMPLETED"}
    /\ Goto("ckcmd")
    /\ UNCHANGED <<loopVars, staticVars, devVars, jobVars, gpuRaw, gpuIrq, gpuVal, isGpuIrq>>

(* start the clean,                                                        *)
CkCommand ==
    /\ pc = "ckcmd"
    /\ cleaning' = TRUE
    /\ loops' = MaxLoops
    /\ Goto("ckpoll")
    /\ UNCHANGED <<val, staticVars, slotVars, asActive, resetting, memVars, jobVars, gpuVars>>

(* Faulty variant: the loop has no bound.                                  *)
CkPollUnbounded ==
    /\ pc = "ckpoll"
    /\ val' = gpuRaw
    /\ IF val' # {} THEN Goto("ckmask") ELSE Goto("ckpoll")
    /\ UNCHANGED <<loops, staticVars, devVars, jobVars, gpuVars>>

(* read GPU_IRQ_RAWSTAT until either bit is up or the turns run out, which *)
(* of them is not looked at (gr_gpu_irq_handler may clear the bit first),  *)
CkPoll ==
    /\ pc = "ckpoll"
    /\ loops > 0 /\ MayRead(cleaning, loops)
    /\ loops' = loops - 1
    /\ val' = gpuRaw
    /\ IF val' # {} \/ loops' = 0 THEN Goto("ckmask") ELSE Goto("ckpoll")
    /\ UNCHANGED <<staticVars, devVars, jobVars, gpuVars>>

(* mask it again and clear the bits that were read.                        *)
CkMask ==
    /\ pc = "ckmask"
    /\ gpuMask' = gpuMask \ {"CLEAN_CACHES_COMPLETED"}
    /\ Goto("ckclear")
    /\ UNCHANGED <<loopVars, staticVars, devVars, jobVars, gpuRaw, gpuIrq, gpuVal, isGpuIrq>>

CkClear ==
    /\ pc = "ckclear"
    /\ gpuRaw' = gpuRaw \ val
    /\ Goto("asflush")
    /\ UNCHANGED <<loopVars, staticVars, devVars, jobVars, gpuMask, gpuIrq, gpuVal, isGpuIrq>>

(* gr_as_flush: lock, start FLUSH_MEM, wait while it is active.            *)
AsFlush ==
    /\ pc = "asflush"
    /\ asActive' = TRUE
    /\ loops' = MaxLoops
    /\ Goto("aspoll")
    /\ UNCHANGED <<val, staticVars, slotVars, cleaning, resetting, memVars, jobVars, gpuVars>>

(* Faulty variant: the status is read once and not waited for.             *)
AsFlushNoWait ==
    /\ pc = "aspoll"
    /\ Goto("ckwrite")
    /\ UNCHANGED <<loopVars, staticVars, devVars, jobVars, gpuVars>>

AsFlushWait ==
    /\ pc = "aspoll"
    /\ loops > 0 /\ MayRead(asActive, loops)
    /\ loops' = loops - 1
    /\ val' = IF asActive THEN {"AS_ACTIVE"} ELSE {}
    /\ IF val' = {} \/ loops' = 0 THEN Goto("ckwrite") ELSE Goto("aspoll")
    /\ UNCHANGED <<staticVars, devVars, jobVars, gpuVars>>

(* gr_write_checkpoint: only its first two calls copy the regions' pages.  *)
WriteCheckpoint ==
    /\ pc = "ckwrite"
    /\ ckptCount' = ckptCount + 1
    /\ Goto("submit")
    /\ UNCHANGED <<loopVars, flushId, jcLo, devVars, jobVars, gpuVars>>

(* Faulty variant: the thread goes on without the wait for the interrupt.  *)
SubmitJobAsync ==
    /\ \/ AtIo("W", {"JS_COMMAND_NEXT"}) /\ ~testCheckpoint
       \/ pc = "submit"
    /\ jobActive' = TRUE
    /\ jobHead' = head
    /\ NextIo
    /\ UNCHANGED <<loopVars, staticVars, head, jsFlush, transtab, busyVars, memVars>>
    /\ UNCHANGED <<jobRaw, jobMask, jobIrq, jobDone, isJobIrq, gpuVars>>

(* gr_reg_write(JS_COMMAND_NEXT): the slot takes the job chain.            *)
SubmitJob ==
    /\ \/ AtIo("W", {"JS_COMMAND_NEXT"}) /\ ~testCheckpoint
       \/ pc = "submit"
    /\ jobActive' = TRUE
    /\ jobHead' = head
    /\ Goto("wait")
    /\ UNCHANGED <<loopVars, staticVars, head, jsFlush, transtab, busyVars, memVars>>
    /\ UNCHANGED <<jobRaw, jobMask, jobIrq, jobDone, isJobIrq, gpuVars>>

(* gr_wait_job_irq: poll until the nano driver reports an event.           *)
WaitJobIrq ==
    /\ pc = "wait"
    /\ JobIrqPoll
    /\ NextIo
    /\ UNCHANGED <<loopVars, staticVars, devVars, gpuVars>>

(* The caller's loop (test_mnist.c): before the next run                   *)
(* gr_clean_used_atom resets the atoms it recognises.                      *)
NextIteration ==
    /\ pc = "io" /\ i > Len(rec)
    /\ iter' = iter + 1
    /\ \/ /\ iter' < NumIter
          /\ i' = 1 /\ pc' = "io"
          /\ atom' = [jc \in JobChain |-> IF jc \in Cleanable THEN "unused" ELSE atom[jc]]
       \/ /\ iter' = NumIter
          /\ pc' = "done" /\ UNCHANGED <<i, atom>>
    /\ UNCHANGED <<config, loopVars, staticVars, slotVars, busyVars, dirty, jobVars, gpuVars>>

-----------------------------------------------------------------------------
(* The GPU.  A job marks its atom used; unless the configuration flushes   *)
(* at its end, what it wrote may still be in the GPU's caches.             *)
JobEnds ==
    /\ JobFinish
    /\ atom' = [jc \in JobChain |-> IF jc = jobHead THEN "used" ELSE atom[jc]]
    /\ dirty' = IF jsFlush THEN dirty ELSE TRUE
    /\ UNCHANGED <<threadVars, slotVars, busyVars, gpuVars>>

CleanEnds ==
    /\ cleaning
    /\ cleaning' = FALSE /\ dirty' = FALSE
    /\ gpuRaw' = gpuRaw \cup {"CLEAN_CACHES_COMPLETED"}
    /\ UNCHANGED <<threadVars, slotVars, asActive, resetting, atom, jobVars>>
    /\ UNCHANGED <<gpuMask, gpuIrq, gpuVal, isGpuIrq>>

AsFlushEnds ==
    /\ asActive
    /\ asActive' = FALSE /\ dirty' = FALSE
    /\ UNCHANGED <<threadVars, slotVars, cleaning, resetting, atom, jobVars, gpuVars>>

ResetEnds ==
    /\ resetting
    /\ resetting' = FALSE
    /\ gpuRaw' = gpuRaw \cup {"RESET_COMPLETED"}
    /\ UNCHANGED <<threadVars, slotVars, asActive, cleaning, memVars, jobVars>>
    /\ UNCHANGED <<gpuMask, gpuIrq, gpuVal, isGpuIrq>>

-----------------------------------------------------------------------------
Read == ReadLatestFlush \/ ReadAsStatus \/ ReadAsActive \/ AsStatusWait \/ OtherIo

Write ==
    \/ WriteHeadLo \/ WriteHeadHi \/ WriteReplaced \/ WriteCommand
    \/ WriteSoftReset \/ UnmaskReset \/ WriteJobIrq \/ WriteGpuIrq

Checkpoint ==
    \/ CkUnmask \/ CkCommand \/ CkPoll \/ CkMask \/ CkClear
    \/ AsFlush \/ AsFlushWait \/ WriteCheckpoint

Replay == Read \/ Write \/ Checkpoint \/ SubmitJob \/ WaitJobIrq \/ NextIteration

JobIrqStep == JobIrqHandler /\ UNCHANGED <<threadVars, devVars, gpuVars>>
GpuIrqStep == GpuIrqHandler /\ UNCHANGED <<threadVars, devVars, jobVars>>

(* The replay is over, or the program has aborted.                         *)
Terminated == pc \in {"done", "aborted"} /\ UNCHANGED vars

Next ==
    \/ Replay \/ JobIrqStep \/ GpuIrqStep
    \/ JobEnds \/ CleanEnds \/ AsFlushEnds \/ ResetEnds
    \/ Terminated

Spec == Init /\ [][Next]_vars

(* The thread is scheduled, an asserted interrupt is served to its end,    *)
(* and the GPU finishes what it was told to do.                            *)
Fairness ==
    /\ WF_vars(Replay) /\ WF_vars(JobIrqStep) /\ WF_vars(GpuIrqStep)
    /\ WF_vars(JobEnds) /\ WF_vars(CleanEnds) /\ WF_vars(AsFlushEnds) /\ WF_vars(ResetEnds)

FairSpec == Spec /\ Fairness

-----------------------------------------------------------------------------
(* Nothing of a job is left outside the wait for it: the slot is idle, no  *)
(* bit is pending, the handler is out and no event is unconsumed.          *)
Quiet == ~jobActive /\ jobRaw = {} /\ jobIrq = "idle" /\ isJobIrq = 0

(* Synchronous replay (gr_replay.c:220): "after write the next command, we *)
(* wait for the interrupt".  The thread goes past a job only when that job *)
(* has ended and its interrupt is fully served, so the accesses recorded   *)
(* after it, and the next job, never meet a job that is still running or   *)
(* an event left over from it.                                             *)
JobSync == pc # "wait" => Quiet

(* An event stands for a job that is over: job_irq_poll never reports one  *)
(* while the slot runs or a bit is pending, and never holds two.           *)
EventMeansDone == isJobIrq > 0 => isJobIrq = 1 /\ ~jobActive /\ jobRaw = {}

(* What makes JobSync inductive: how far the interrupt of the one job in   *)
(* flight has got, from the running slot to the event the thread takes.    *)
StageInv ==
    /\ jobActive => jobRaw = {} /\ jobIrq = "idle" /\ isJobIrq = 0
    /\ jobRaw # {} => jobIrq \in {"idle", "status", "clear"} /\ isJobIrq = 0
    /\ jobIrq # "idle" => isJobIrq = 0
    /\ jobIrq = "status" => jobMask
    /\ jobIrq = "clear" => jobDone = jobRaw
    /\ isJobIrq \in {0, 1}

SyncInv == JobSync /\ StageInv

Writes(r, reg) == {k \in 1..Len(r) : r[k].rw = "W" /\ r[k].reg = reg}
Resets(r)      == {k \in Writes(r, "GPU_COMMAND") : r[k].val = "SOFT_RESET"}

(* The jobs of a recording: the positions of its JS_COMMAND_NEXT writes.   *)
Commands == Writes(rec, "JS_COMMAND_NEXT")

(* No position of S lies after a, up to n.                                 *)
NoneAfter(S, a, n) == \A k \in S : k <= a \/ k > n

(* After n accesses JS_HEAD_NEXT holds the halves written at lo and hi, in *)
(* this order, and no job has been started since.                          *)
HeadWritten(r, lo, hi, n) ==
    /\ lo \in Writes(r, "JS_HEAD_NEXT_LO") /\ hi \in Writes(r, "JS_HEAD_NEXT_HI")
    /\ lo < hi /\ hi <= n
    /\ NoneAfter(Writes(r, "JS_HEAD_NEXT_LO") \cup Resets(r), lo, n)
    /\ NoneAfter(Writes(r, "JS_HEAD_NEXT_HI") \cup Writes(r, "JS_COMMAND_NEXT"), hi, n)

(* After n accesses AS_TRANSTAB holds what was written at t.               *)
TableWritten(r, t, n) ==
    t \in Writes(r, "AS_TRANSTAB") /\ t <= n /\ NoneAfter(Resets(r), t, n)

(* What the driver does before it starts a job (kbase_job_hw_submit): it   *)
(* writes both halves of the job chain's address, the low one first, for   *)
(* this job, and the job's address space is set up since the last reset.   *)
ProgramsJobs(r) ==
    \A k \in Writes(r, "JS_COMMAND_NEXT") :
        /\ \E lo, hi \in 1..Len(r) : HeadWritten(r, lo, hi, k - 1)
        /\ \E t \in 1..Len(r) : TableWritten(r, t, k - 1)

(* Inside the handling of one access, which one it is.                     *)
PositionInv ==
    /\ pc = "aswait" => i \in 1..Len(rec) /\ rec[i].reg = "AS_STATUS"
    /\ pc = "rstmask" => i \in 1..Len(rec) /\ rec[i].reg = "GPU_COMMAND"
    /\ pc \notin {"aswait", "rstmask", "io", "done", "aborted"} => i \in Commands

(* gr_js_tune (gr_replay.c:107-110): a job chain that ran before, in this  *)
(* run or in an earlier one, starts with its status word cleared, and in   *)
(* the address space of the replayer.                                      *)
FreshJob == jobActive /\ jobHead \in JobChain => atom[jobHead] = "unused" /\ transtab = "new"

(* A checkpoint (gr_replay.c:183-189) copies memory that no job is writing *)
(* and that holds everything the jobs before it wrote.                     *)
CheckpointConsistent == pc = "ckwrite" /\ ckptCount < 2 => ~jobActive /\ ~dirty

(* What makes CheckpointConsistent inductive on a prompt GPU: nothing is   *)
(* dirty any more once the flush of gr_as_flush has ended.                 *)
FlushInv ==
    /\ pc = "aspoll" => asActive \/ ~dirty
    /\ pc = "ckwrite" => ~dirty

(* The accesses of this run that have reached the GPU.                     *)
Applied == IF pc \in {"rstmask", "wait"} THEN i ELSE i - 1

(* What makes FreshJob inductive: after every prefix of a recording the    *)
(* registers hold the last values written to them, and the job chain they  *)
(* name has been reset.                                                    *)
ProgrammedInv ==
    /\ \A lo \in Writes(rec, "JS_HEAD_NEXT_LO") :
          lo <= Applied /\ NoneAfter(Writes(rec, "JS_HEAD_NEXT_LO") \cup Resets(rec), lo, Applied)
            => jcLo = rec[lo].val /\ head[2] = rec[lo].val
    /\ \A lo, hi \in 1..Len(rec) :
          HeadWritten(rec, lo, hi, Applied)
            => head = <<rec[hi].val, rec[lo].val>> /\ atom[head] = "unused"
    /\ \A t \in 1..Len(rec) : TableWritten(rec, t, Applied) => transtab = "new"

(* JS_FLUSH_ID_NEXT always receives a value read from LATEST_FLUSH         *)
(* (gr_replay.c:162, "Keep this state for next reg write").                *)
FlushIdFromLatestFlush == AtIo("W", {"JS_FLUSH_ID_NEXT"}) => flushId = "LATEST_FLUSH"

(* The replay as its caller sees it.  A job runs while the slot does; it   *)
(* has ended, but the thread does not know, while the thread waits.        *)
Sync == INSTANCE SyncJobs WITH
    Rounds  <- NumIter,
    jobs    <- Commands,
    round   <- iter,
    over    <- {k \in Commands : k < i},
    phase   <- IF jobActive THEN "running" ELSE IF pc = "wait" THEN "ended" ELSE "idle",
    current <- IF pc = "wait" THEN i ELSE 0

(* gr_replay_run implements SyncJobs: whatever the handlers, the GPU and   *)
(* the checkpoints do in between, the recorded jobs run once each, in      *)
(* their order and one after the other (gr_replay.c:217-230).              *)
JobsInOrder == Sync!Spec

(* Every recorded access is replayed, NumIter times, when the GPU answers  *)
(* in time: no event is lost, and no wait loop of gr_replay_run can spin   *)
(* for ever on a bit that gr_gpu_irq_handler cleared.                      *)
ReplayCompletes == <>(pc = "done")
=============================================================================

--------------------------- MODULE GrReplayProof ---------------------------
(***************************************************************************)
(* Type correctness and synchronous replay of GrReplay, for every set of   *)
(* recordings, every number of iterations and every bound on the loops.    *)
(***************************************************************************)
EXTENDS GrReplay, TLAPS

USE DEF Writes

LEMMA RecordingIo ==
    ASSUME rec \in Recordings, i \in 1..Len(rec)
    PROVE  rec[i] \in RegIo
  BY RecordingsAssumption

LEMMA HeadWord ==
    ASSUME NEW io \in RegIo, io.reg \in HeadRegs
    PROVE  io.val \in Words
  BY DEF RegIo, HeadRegs, OtherRegs

(* Every variable keeps its type under every access a recording can hold.  *)
LEMMA TypeStep == TypeOK /\ [Next]_vars => TypeOK'
<1> SUFFICES ASSUME TypeOK, [Next]_vars PROVE TypeOK'
  OBVIOUS
<1> USE BoundsAssumption, ConfigAssumption
<1> USE DEF TypeOK, IrqTypeOK, ThreadTypeOK, DevTypeOK, Pcs, jobVars, gpuVars, threadVars,
        loopVars, staticVars, slotVars, busyVars, memVars, devVars, Goto, NextIo, config
<1>1. CASE Read
  <2>1. IrqTypeOK' /\ DevTypeOK'
    BY <1>1 DEF Read, ReadLatestFlush, ReadAsStatus, ReadAsActive, AsStatusWait, OtherIo
  <2>2. ThreadTypeOK'
    <3>1. CASE AsStatusWait
      <4>1. loops' \in 0..MaxLoops /\ val' \in SUBSET PollBits
        BY <3>1 DEF AsStatusWait, PollBits
      <4> QED BY <3>1, <4>1 DEF AsStatusWait
    <3>2. CASE ReadLatestFlush \/ ReadAsStatus \/ ReadAsActive \/ OtherIo
      BY <3>2 DEF ReadLatestFlush, ReadAsStatus, ReadAsActive, OtherIo, AtIo
    <3> QED BY <1>1, <3>1, <3>2 DEF Read
  <2> QED BY <2>1, <2>2
<1>2. CASE WriteHeadLo \/ WriteHeadHi
  <2>1. rec[i].val \in Words
    BY <1>2, RecordingIo, HeadWord DEF WriteHeadLo, WriteHeadHi, AtIo, HeadRegs
  <2>2. CASE WriteHeadLo
    BY <2>1, <2>2 DEF WriteHeadLo
  <2>3. CASE WriteHeadHi
    BY <2>1, <2>3 DEF WriteHeadHi
  <2> QED BY <1>2, <2>2, <2>3
<1>3. CASE WriteReplaced
  <2>1. testCheckpoint \in BOOLEAN /\ jsFlush \in BOOLEAN
    OBVIOUS
  <2>2. jsFlush' \in BOOLEAN
    BY <1>3, <2>1, Zenon DEF WriteReplaced
  <2> QED BY <1>3, <2>2 DEF WriteReplaced, AtIo
<1>4. CASE WriteCommand
  <2>1. {asActive', cleaning'} \subseteq BOOLEAN
    BY <1>4 DEF WriteCommand
  <2>2. IrqTypeOK' /\ DevTypeOK'
    BY <1>4, <2>1 DEF WriteCommand
  <2>3. ThreadTypeOK'
    BY <1>4 DEF WriteCommand, AtIo
  <2> QED BY <2>2, <2>3
<1>5. CASE WriteSoftReset
  BY <1>5 DEF WriteSoftReset, AtIo, NoChain
<1>6. CASE UnmaskReset
  BY <1>6 DEF UnmaskReset, GpuBits
<1>7. CASE WriteJobIrq
  <2>1. jobMask' \in BOOLEAN
    BY <1>7, Zenon DEF WriteJobIrq
  <2> QED BY <1>7, <2>1 DEF WriteJobIrq, AtIo
<1>8. CASE WriteGpuIrq
  <2>1. gpuRaw' \in SUBSET GpuBits /\ gpuMask' \in SUBSET GpuBits
    BY <1>8 DEF WriteGpuIrq
  <2> QED BY <1>8, <2>1 DEF WriteGpuIrq, AtIo
<1>9. CASE Checkpoint
  <2>1. CASE CkUnmask \/ CkMask \/ CkClear
    <3>1. gpuRaw' \in SUBSET GpuBits /\ gpuMask' \in SUBSET GpuBits
      BY <2>1 DEF CkUnmask, CkMask, CkClear, GpuBits
    <3> QED BY <2>1, <3>1 DEF CkUnmask, CkMask, CkClear, AtIo
  <2>2. CASE CkCommand
    BY <2>2 DEF CkCommand
  <2>3. CASE CkPoll
    BY <2>3 DEF CkPoll, PollBits
  <2>4. CASE AsFlush
    BY <2>4 DEF AsFlush
  <2>5. CASE AsFlushWait
    BY <2>5 DEF AsFlushWait, PollBits
  <2>6. CASE WriteCheckpoint
    BY <2>6 DEF WriteCheckpoint
  <2> QED BY <1>9, <2>1, <2>2, <2>3, <2>4, <2>5, <2>6 DEF Checkpoint
<1>10. CASE SubmitJob
  BY <1>10 DEF SubmitJob, AtIo
<1>11. CASE WaitJobIrq
  BY <1>11 DEF WaitJobIrq, JobIrqPoll
<1>12. CASE NextIteration
  BY <1>12 DEF NextIteration
<1>13. CASE JobIrqStep
  BY <1>13 DEF JobIrqStep, JobIrqHandler, JobIrqEnter, JobIrqReadStatus,
     JobIrqClear, JobIrqReadRawstat, JobIrqInc, JobIrqStatus, JobIrqPcs
<1>14. CASE GpuIrqStep
  BY <1>14 DEF GpuIrqStep, GpuIrqHandler, GpuIrqEnter, GpuIrqReadStatus,
     GpuIrqClear, GpuIrqInc, GpuIrqStatus, GpuIrqPcs
<1>15. CASE JobEnds \/ CleanEnds \/ AsFlushEnds \/ ResetEnds
  <2>1. ThreadTypeOK'
    BY <1>15 DEF JobEnds, CleanEnds, AsFlushEnds, ResetEnds
  <2>2. IrqTypeOK'
    <3>1. CASE JobEnds
      BY <3>1 DEF JobEnds, JobFinish
    <3>2. CASE CleanEnds \/ ResetEnds
      BY <3>2 DEF CleanEnds, ResetEnds, GpuBits
    <3>3. CASE AsFlushEnds
      BY <3>3 DEF AsFlushEnds
    <3> QED BY <1>15, <3>1, <3>2, <3>3
  <2>3. DevTypeOK'
    <3>1. CASE JobEnds
      BY <3>1 DEF JobEnds
    <3>2. CASE CleanEnds \/ AsFlushEnds \/ ResetEnds
      BY <3>2 DEF CleanEnds, AsFlushEnds, ResetEnds
    <3> QED BY <1>15, <3>1, <3>2
  <2> QED BY <2>1, <2>2, <2>3 DEF TypeOK
<1>16. CASE Terminated \/ UNCHANGED vars
  BY <1>16 DEF Terminated, vars
<1> QED
  BY <1>1, <1>2, <1>3, <1>4, <1>5, <1>6, <1>7, <1>8, <1>9, <1>10, <1>11, <1>12, <1>13,
     <1>14, <1>15, <1>16
  DEF Next, Replay, Write

(* TypeOK is an invariant: no recording drives a variable of the replayer, *)
(* of the driver or of the GPU out of its range, and in particular         *)
(* is_job_irq never goes below zero.                                       *)
THEOREM TypeCorrect == Spec => []TypeOK
<1>1. Init => TypeOK
  <2> SUFFICES ASSUME Init PROVE TypeOK
    OBVIOUS
  <2>1. IrqTypeOK
    BY DEF Init, IrqInit, IrqTypeOK, JobIrqPcs, GpuIrqPcs
  <2>2. /\ rec \in Recordings /\ testCheckpoint \in CheckpointModes /\ i \in Nat \ {0} /\ iter \in 0..NumIter
        /\ loops \in 0..MaxLoops /\ ckptCount \in Nat
    BY BoundsAssumption DEF Init
  <2>3. /\ pc \in Pcs /\ val \in SUBSET PollBits
        /\ flushId = "none" /\ jcLo = "none"
    BY DEF Init, Pcs
  <2>4. atom \in [JobChain -> {"unused", "used"}]
    BY DEF Init
  <2>5. DevTypeOK
    BY <2>4 DEF Init, DevTypeOK, NoChain
  <2> QED
    BY <2>1, <2>2, <2>3, <2>5 DEF TypeOK, ThreadTypeOK
<1> QED BY <1>1, TypeStep, PTL DEF Spec

-----------------------------------------------------------------------------
(* The steps that touch the job interrupt; all others leave jobVars alone  *)
(* and neither enter nor leave the wait.                                   *)
LEMMA OtherSteps ==
    ASSUME [Next]_vars,
           ~WriteSoftReset, ~WriteJobIrq, ~SubmitJob, ~WaitJobIrq, ~JobIrqStep, ~JobEnds
    PROVE  UNCHANGED jobVars /\ (pc' = "wait" <=> pc = "wait")
<1> USE DEF Goto, NextIo, threadVars
<1>1. CASE Read
  BY <1>1 DEF Read, ReadLatestFlush, ReadAsStatus, ReadAsActive, AsStatusWait, OtherIo, AtIo
<1>2. CASE Write
  BY <1>2 DEF Write, WriteHeadLo, WriteHeadHi, WriteReplaced, WriteCommand, UnmaskReset,
     WriteGpuIrq, AtIo
<1>3. CASE Checkpoint
  BY <1>3 DEF Checkpoint, CkUnmask, CkCommand, CkPoll, CkMask, CkClear,
     AsFlush, AsFlushWait, WriteCheckpoint, AtIo
<1>4. CASE NextIteration
  BY <1>4 DEF NextIteration
<1>5. CASE GpuIrqStep
  BY <1>5 DEF GpuIrqStep
<1>6. CASE CleanEnds \/ AsFlushEnds \/ ResetEnds
  BY <1>6 DEF CleanEnds, AsFlushEnds, ResetEnds
<1>7. CASE Terminated \/ UNCHANGED vars
  BY <1>7 DEF Terminated, vars
<1> QED
  BY <1>1, <1>2, <1>3, <1>4, <1>5, <1>6, <1>7 DEF Next, Replay

(* One step of anybody keeps the stages of the interrupt in their order.   *)
LEMMA SyncStep == TypeOK /\ SyncInv /\ [Next]_vars => SyncInv'
<1> SUFFICES ASSUME TypeOK, SyncInv, [Next]_vars PROVE SyncInv'
  OBVIOUS
<1> USE DEF SyncInv, JobSync, StageInv, Quiet, Goto, NextIo
<1>1. CASE WriteSoftReset
  BY <1>1 DEF WriteSoftReset, AtIo
<1>2. CASE WriteJobIrq
  BY <1>2 DEF WriteJobIrq, AtIo
<1>3. CASE SubmitJob
  BY <1>3 DEF SubmitJob, AtIo
<1>4. CASE WaitJobIrq
  BY <1>4 DEF WaitJobIrq, JobIrqPoll
<1>5. CASE JobIrqStep
  <2>1. pc' = pc
    BY <1>5 DEF JobIrqStep, threadVars
  <2>2. CASE JobIrqEnter
    BY <2>1, <2>2 DEF JobIrqEnter, JobIrqStatus
  <2>3. CASE JobIrqReadStatus
    BY <2>1, <2>3 DEF JobIrqReadStatus, JobIrqStatus
  <2>4. CASE JobIrqClear
    BY <2>1, <2>4 DEF JobIrqClear
  <2>5. CASE JobIrqReadRawstat
    BY <2>1, <2>5 DEF JobIrqReadRawstat
  <2>6. CASE JobIrqInc
    BY <2>1, <2>6 DEF JobIrqInc
  <2> QED BY <1>5, <2>2, <2>3, <2>4, <2>5, <2>6 DEF JobIrqStep, JobIrqHandler
<1>6. CASE JobEnds
  BY <1>6 DEF JobEnds, JobFinish, threadVars
<1>7. CASE ~(WriteSoftReset \/ WriteJobIrq \/ SubmitJob \/ WaitJobIrq \/ JobIrqStep \/ JobEnds)
  BY <1>7, OtherSteps DEF jobVars
<1> QED BY <1>1, <1>2, <1>3, <1>4, <1>5, <1>6, <1>7

LEMMA SyncInvariant == Spec => []SyncInv
<1>1. Init => SyncInv
  BY DEF Init, IrqInit, SyncInv, JobSync, StageInv, Quiet
<1> QED BY <1>1, SyncStep, TypeCorrect, PTL DEF Spec

(* Synchronous replay, for every recording: gr_replay_run never goes past  *)
(* a JS_COMMAND_NEXT write while the job runs, while its interrupt is      *)
(* being served or while an event of it is left.                           *)
THEOREM SynchronousReplay == Spec => []JobSync
<1>1. SyncInv => JobSync
  BY DEF SyncInv
<1> QED BY <1>1, SyncInvariant, PTL

(* is_job_irq is never more than 1, and never set before the job it stands *)
(* for has ended and its bits are cleared.                                 *)
THEOREM EventAfterCompletion == Spec => []EventMeansDone
<1>1. SyncInv => EventMeansDone
  BY DEF SyncInv, StageInv, EventMeansDone
<1> QED BY <1>1, SyncInvariant, PTL

-----------------------------------------------------------------------------
(* The refinement of SyncJobs.                                             *)

(* The labels inside the handling of an access are reached only from an    *)
(* access of that kind.                                                    *)
LEMMA PositionStep ==
    ASSUME TypeOK, PositionInv, [Next]_vars
    PROVE  PositionInv'
<1> USE DEF PositionInv, Goto, NextIo, threadVars, config, Commands, TypeOK, ThreadTypeOK
<1>1. CASE Read
  <2>1. CASE AsStatusWait
    BY <2>1 DEF AsStatusWait
  <2>2. CASE ReadLatestFlush \/ ReadAsStatus \/ ReadAsActive \/ OtherIo
    BY <2>2 DEF ReadLatestFlush, ReadAsStatus, ReadAsActive, OtherIo, AtIo
  <2> QED BY <1>1, <2>1, <2>2 DEF Read
<1>2. CASE Write
  <2>1. CASE WriteSoftReset \/ UnmaskReset
    BY <2>1 DEF WriteSoftReset, UnmaskReset, AtIo
  <2>2. CASE WriteHeadLo \/ WriteHeadHi \/ WriteReplaced \/ WriteCommand
    BY <2>2 DEF WriteHeadLo, WriteHeadHi, WriteReplaced, WriteCommand, AtIo
  <2>3. CASE WriteJobIrq \/ WriteGpuIrq
    BY <2>3 DEF WriteJobIrq, WriteGpuIrq, AtIo
  <2> QED BY <1>2, <2>1, <2>2, <2>3 DEF Write
<1>3. CASE Checkpoint
  <2>1. CASE CkUnmask
    BY <2>1 DEF CkUnmask, AtIo
  <2>2. CASE CkCommand \/ CkPoll \/ CkMask \/ CkClear
    BY <2>2 DEF CkCommand, CkPoll, CkMask, CkClear
  <2>3. CASE AsFlush \/ AsFlushWait \/ WriteCheckpoint
    BY <2>3 DEF AsFlush, AsFlushWait, WriteCheckpoint
  <2> QED BY <1>3, <2>1, <2>2, <2>3 DEF Checkpoint
<1>4. CASE SubmitJob
  BY <1>4 DEF SubmitJob, AtIo
<1>5. CASE WaitJobIrq
  BY <1>5 DEF WaitJobIrq
<1>6. CASE NextIteration
  BY <1>6 DEF NextIteration
<1>7. CASE JobIrqStep \/ GpuIrqStep \/ JobEnds \/ CleanEnds \/ AsFlushEnds \/ ResetEnds
  BY <1>7 DEF JobIrqStep, GpuIrqStep, JobEnds, CleanEnds, AsFlushEnds, ResetEnds
<1>8. CASE Terminated \/ UNCHANGED vars
  BY <1>8 DEF Terminated, vars
<1> QED
  BY <1>1, <1>2, <1>3, <1>4, <1>5, <1>6, <1>7, <1>8 DEF Next, Replay

LEMMA PositionInvariant == Spec => []PositionInv
<1>1. Init => PositionInv
  BY DEF Init, PositionInv
<1>2. TypeOK /\ PositionInv /\ [Next]_vars => PositionInv'
  BY PositionStep
<1> QED BY <1>1, <1>2, TypeCorrect, PTL DEF Spec

(* Going past an access that is no job.                                    *)
LEMMA PastOther ==
    ASSUME TypeOK, i \notin Commands, i' \in {i, i + 1}, rec' = rec
    PROVE  {k \in Commands : k < i}' = {k \in Commands : k < i}
  BY DEF TypeOK, ThreadTypeOK, Commands

(* Every step of gr_replay_run except the start of a job, the end of the   *)
(* wait for it and the end of a run is invisible to SyncJobs.              *)
LEMMA ThreadStutters ==
    ASSUME TypeOK, SyncInv, PositionInv, Read \/ Write \/ Checkpoint
    PROVE  UNCHANGED Sync!vars
<1> USE DEF Goto, NextIo, config
<1>1. rec' = rec /\ iter' = iter
  BY DEF Read, ReadLatestFlush, ReadAsStatus, ReadAsActive, AsStatusWait, OtherIo,
     Write, WriteHeadLo, WriteHeadHi, WriteReplaced, WriteCommand, WriteSoftReset,
     UnmaskReset, WriteJobIrq, WriteGpuIrq, Checkpoint, CkUnmask, CkCommand, CkPoll, CkMask,
     CkClear, AsFlush, AsFlushWait, WriteCheckpoint
<1>2. pc # "wait" /\ pc' # "wait"
  BY DEF Read, ReadLatestFlush, ReadAsStatus, ReadAsActive, AsStatusWait, OtherIo,
     Write, WriteHeadLo, WriteHeadHi, WriteReplaced, WriteCommand, WriteSoftReset,
     UnmaskReset, WriteJobIrq, WriteGpuIrq, Checkpoint, CkUnmask, CkCommand, CkPoll, CkMask,
     CkClear, AsFlush, AsFlushWait, WriteCheckpoint, AtIo
<1>3. ~jobActive
  BY <1>2 DEF SyncInv, JobSync, Quiet
<1>4. ~jobActive'
  <2>1. CASE WriteSoftReset
    BY <2>1 DEF WriteSoftReset
  <2>2. CASE Read
    BY <2>2, <1>3 DEF Read, ReadLatestFlush, ReadAsStatus, ReadAsActive, AsStatusWait, OtherIo,
       jobVars
  <2>3. CASE Checkpoint
    BY <2>3, <1>3 DEF Checkpoint, CkUnmask, CkCommand, CkPoll, CkMask, CkClear, AsFlush,
       AsFlushWait, WriteCheckpoint, jobVars
  <2>4. CASE Write /\ ~WriteSoftReset
    BY <2>4, <1>3 DEF Write, WriteHeadLo, WriteHeadHi, WriteReplaced, WriteCommand, UnmaskReset,
       WriteJobIrq, WriteGpuIrq, jobVars
  <2> QED BY <2>1, <2>2, <2>3, <2>4
<1>5. {k \in Commands : k < i}' = {k \in Commands : k < i}
  <2>1. CASE Checkpoint
    <3>1. i' = i
      BY <2>1 DEF Checkpoint, CkUnmask, CkCommand, CkPoll, CkMask, CkClear, AsFlush,
         AsFlushWait, WriteCheckpoint
    <3> QED BY <1>1, <3>1 DEF Commands
  <2>2. CASE Read
    <3>1. i' \in {i, i + 1}
      BY <2>2 DEF Read, ReadLatestFlush, ReadAsStatus, ReadAsActive, AsStatusWait, OtherIo
    <3>2. i \notin Commands
      BY <2>2 DEF Read, ReadLatestFlush, ReadAsStatus, ReadAsActive, AsStatusWait, OtherIo,
         AtIo, PositionInv, Commands, OtherRegs
    <3> QED BY <1>1, <3>1, <3>2, PastOther
  <2>3. CASE Write
    <3>1. i' \in {i, i + 1}
      BY <2>3 DEF Write, WriteHeadLo, WriteHeadHi, WriteReplaced, WriteCommand, WriteSoftReset,
         UnmaskReset, WriteJobIrq, WriteGpuIrq
    <3>2. i \notin Commands
      BY <2>3 DEF Write, WriteHeadLo, WriteHeadHi, WriteReplaced, WriteCommand, WriteSoftReset,
         UnmaskReset, WriteJobIrq, WriteGpuIrq, AtIo, PositionInv, Commands
    <3> QED BY <1>1, <3>1, <3>2, PastOther
  <2> QED BY <2>1, <2>2, <2>3
<1>6. Commands' = Commands
  BY <1>1 DEF Commands
<1> QED BY <1>1, <1>2, <1>3, <1>4, <1>5, <1>6 DEF Sync!vars

(* The handlers and the rest of the GPU are invisible too.                 *)
LEMMA DeviceStutters ==
    ASSUME JobIrqStep \/ GpuIrqStep \/ CleanEnds \/ AsFlushEnds \/ ResetEnds
           \/ Terminated \/ UNCHANGED vars
    PROVE  UNCHANGED Sync!vars
<1>1. UNCHANGED <<rec, i, iter, pc>>
  BY DEF JobIrqStep, GpuIrqStep, CleanEnds, AsFlushEnds, ResetEnds, Terminated, vars,
     threadVars, config
<1>2. UNCHANGED jobActive
  BY DEF JobIrqStep, JobIrqHandler, JobIrqEnter, JobIrqReadStatus, JobIrqClear,
     JobIrqReadRawstat, JobIrqInc, GpuIrqStep, CleanEnds, AsFlushEnds, ResetEnds, Terminated,
     vars, jobVars
<1> QED BY <1>1, <1>2 DEF Sync!vars, Commands

LEMMA SubmitStarts ==
    ASSUME TypeOK, SyncInv, PositionInv, SubmitJob
    PROVE  Sync!Start
<1>1. pc # "wait" /\ ~jobActive /\ i \in Commands
  BY DEF SubmitJob, AtIo, SyncInv, JobSync, Quiet, PositionInv, Commands
<1>2. pc' = "wait" /\ jobActive' /\ UNCHANGED <<rec, i, iter>>
  BY DEF SubmitJob, Goto, config
<1>3. Commands \subseteq Nat /\ Commands' = Commands /\ i \in Nat
  BY <1>1, <1>2 DEF Commands
<1>4. \A j \in Commands \ {k \in Commands : k < i} : i <= j
  BY <1>3
<1> QED BY <1>1, <1>2, <1>3, <1>4 DEF Sync!Start

LEMMA WaitNotes ==
    ASSUME TypeOK, SyncInv, PositionInv, WaitJobIrq
    PROVE  Sync!Note
<1>1. pc = "wait" /\ ~jobActive /\ ~jobActive' /\ i \in Commands
  BY DEF WaitJobIrq, JobIrqPoll, SyncInv, StageInv, PositionInv, TypeOK, IrqTypeOK
<1>2. pc' = "io" /\ i' = i + 1 /\ UNCHANGED <<rec, iter>>
  BY DEF WaitJobIrq, NextIo, config
<1>3. Commands \subseteq Nat /\ Commands' = Commands
  BY <1>2 DEF Commands
<1>4. {k \in Commands : k < i + 1} = {k \in Commands : k < i} \cup {i}
  <2>1. i \in Nat /\ \A k \in Commands : k \in Nat /\ (k < i + 1 <=> k < i \/ k = i)
    BY <1>1, <1>3
  <2> HIDE DEF Commands
  <2> QED BY <1>1, <2>1, Zenon
<1> QED BY <1>1, <1>2, <1>3, <1>4 DEF Sync!Note

LEMMA IterationIsRound ==
    ASSUME TypeOK, SyncInv, NextIteration
    PROVE  Sync!NextRound
<1>1. pc = "io" /\ pc' # "wait" /\ ~jobActive /\ ~jobActive'
  BY DEF NextIteration, SyncInv, JobSync, Quiet, jobVars
<1>2. rec' = rec /\ Commands' = Commands /\ Commands \subseteq 1..Len(rec)
  BY DEF NextIteration, config, Commands
<1>3. iter \in Nat /\ NumIter \in Nat /\ iter' = iter + 1
      /\ i > Len(rec) /\ i \in Nat /\ Len(rec) \in Nat
  BY BoundsAssumption, RecordingsAssumption DEF NextIteration, TypeOK, ThreadTypeOK
<1>4. {k \in Commands : k < i} = Commands
  <2>1. \A k \in Commands : k \in 1..Len(rec)
    BY <1>2, Zenon
  <2>2. \A k \in Commands : k < i
    BY <1>3, <2>1
  <2> QED BY <2>2, Zenon
<1>5. {k \in Commands : k < i}' = IF iter' < NumIter THEN {} ELSE Commands
  <2>1. CASE iter' < NumIter /\ i' = 1
    <3>1. \A k \in Commands : k \in 1..Len(rec)
      BY <1>2, Zenon
    <3>2. \A k \in Commands' : ~(k < i')
      BY <2>1, <1>2, <1>3, <3>1
    <3>3. {k \in Commands : k < i}' = {}
      BY <3>2, Zenon
    <3> QED BY <2>1, <3>3
  <2>2. CASE iter' = NumIter /\ i' = i
    BY <2>2, <1>2, <1>3, <1>4
  <2> QED BY <2>1, <2>2, <1>3 DEF NextIteration
<1>6. iter < NumIter
  BY <1>3 DEF NextIteration
<1> QED BY <1>1, <1>2, <1>3, <1>4, <1>5, <1>6 DEF Sync!NextRound

LEMMA EndIsEnd ==
    ASSUME SyncInv, JobEnds
    PROVE  Sync!End
<1>1. jobActive /\ ~jobActive' /\ pc = "wait"
  BY DEF JobEnds, JobFinish, SyncInv, JobSync, Quiet
<1>2. UNCHANGED <<rec, i, iter, pc>>
  BY DEF JobEnds, threadVars, config
<1> QED BY <1>1, <1>2 DEF Sync!End, Commands

(* gr_replay_run implements SyncJobs for every set of recordings: the jobs *)
(* run once per round, in their recorded order and one after the other.    *)
THEOREM ReplayImplementsSyncJobs == Spec => JobsInOrder
<1>1. Init => Sync!Init
  <2> SUFFICES ASSUME Init PROVE Sync!Init
    OBVIOUS
  <2>1. Commands \in SUBSET (Nat \ {0}) /\ {k \in Commands : k < i} = {}
    BY DEF Init, Commands
  <2> QED BY <2>1 DEF Init, IrqInit, Sync!Init
<1>2. TypeOK /\ SyncInv /\ PositionInv /\ [Next]_vars => [Sync!Next]_(Sync!vars)
  <2> SUFFICES ASSUME TypeOK, SyncInv, PositionInv, [Next]_vars
               PROVE  Sync!Next \/ UNCHANGED Sync!vars
    OBVIOUS
  <2>1. CASE Read \/ Write \/ Checkpoint
    BY <2>1, ThreadStutters
  <2>2. CASE SubmitJob
    BY <2>2, SubmitStarts DEF Sync!Next
  <2>3. CASE WaitJobIrq
    BY <2>3, WaitNotes DEF Sync!Next
  <2>4. CASE NextIteration
    BY <2>4, IterationIsRound DEF Sync!Next
  <2>5. CASE JobEnds
    BY <2>5, EndIsEnd DEF Sync!Next
  <2>6. CASE JobIrqStep \/ GpuIrqStep \/ CleanEnds \/ AsFlushEnds \/ ResetEnds
             \/ Terminated \/ UNCHANGED vars
    BY <2>6, DeviceStutters
  <2> QED BY <2>1, <2>2, <2>3, <2>4, <2>5, <2>6 DEF Next, Replay
<1> QED
  BY <1>1, <1>2, TypeCorrect, SyncInvariant, PositionInvariant, PTL
  DEF Spec, JobsInOrder, Sync!Spec
-----------------------------------------------------------------------------
(* Checkpoints.                                                            *)

(* Only the end of a job makes the GPU's caches dirty, and none is running *)
(* while a checkpoint is made; the flush that precedes the copy ends with  *)
(* clean caches, because a prompt GPU is no longer busy when the loop      *)
(* gives up.                                                               *)
LEMMA FlushStep ==
    ASSUME Prompt, TypeOK, SyncInv, FlushInv, [Next]_vars
    PROVE  FlushInv'
<1> USE DEF FlushInv, Goto, NextIo
<1>1. CASE AsFlushWait
  <2>1. loops \in Nat /\ loops > 0 /\ (loops' = 0 => loops = 1)
    BY <1>1, BoundsAssumption DEF AsFlushWait, TypeOK, ThreadTypeOK
  <2>2. pc = "aspoll" /\ UNCHANGED <<asActive, dirty>> /\ (pc' = "aspoll" \/ pc' = "ckwrite")
    BY <1>1 DEF AsFlushWait, devVars, busyVars, memVars
  <2>3. pc' = "ckwrite" => ~asActive
    BY <1>1, <2>1 DEF AsFlushWait, MayRead
  <2> QED BY <2>2, <2>3
<1>2. CASE AsFlush
  BY <1>2 DEF AsFlush
<1>3. CASE AsFlushEnds \/ CleanEnds
  BY <1>3 DEF AsFlushEnds, CleanEnds, threadVars
<1>4. CASE JobEnds
  BY <1>4 DEF JobEnds, JobFinish, SyncInv, JobSync, Quiet, threadVars
<1>5. CASE WriteSoftReset
  BY <1>5 DEF WriteSoftReset
<1>6. CASE ~(AsFlushWait \/ AsFlush \/ AsFlushEnds \/ CleanEnds \/ JobEnds \/ WriteSoftReset)
  <2>1. UNCHANGED dirty
        /\ (pc' \in {"aspoll", "ckwrite"} => pc' = pc /\ UNCHANGED asActive)
    <3> USE DEF devVars, slotVars, busyVars, memVars, threadVars
    <3>1. CASE Read
      BY <3>1 DEF Read, ReadLatestFlush, ReadAsStatus, ReadAsActive, AsStatusWait, OtherIo
    <3>2. CASE Write
      BY <1>6, <3>2 DEF Write, WriteHeadLo, WriteHeadHi, WriteReplaced, WriteCommand, UnmaskReset,
         WriteJobIrq, WriteGpuIrq
    <3>3. CASE Checkpoint
      BY <1>6, <3>3 DEF Checkpoint, CkUnmask, CkCommand, CkPoll, CkMask, CkClear, WriteCheckpoint
    <3>4. CASE SubmitJob \/ WaitJobIrq \/ NextIteration
      BY <3>4 DEF SubmitJob, WaitJobIrq, NextIteration
    <3>5. CASE JobIrqStep \/ GpuIrqStep \/ ResetEnds \/ Terminated \/ UNCHANGED vars
      BY <3>5 DEF JobIrqStep, GpuIrqStep, ResetEnds, Terminated, vars
    <3> QED BY <1>6, <3>1, <3>2, <3>3, <3>4, <3>5 DEF Next, Replay
  <2> QED BY <2>1
<1> QED BY <1>1, <1>2, <1>3, <1>4, <1>5, <1>6

(* On a GPU that answers before a loop gives up, every checkpoint that is  *)
(* written (gr_write_checkpoint) copies memory that no job is writing and  *)
(* that holds all the jobs before it wrote, whatever the recording.  (With *)
(* a slower GPU gr_as_flush gives up and the copy may miss data.)          *)
THEOREM CheckpointsConsistent == Prompt => (Spec => []CheckpointConsistent)
<1> SUFFICES ASSUME Prompt PROVE Spec => []CheckpointConsistent
  OBVIOUS
<1>1. Init => FlushInv
  BY DEF Init, FlushInv
<1>2. TypeOK /\ SyncInv /\ FlushInv /\ [Next]_vars => FlushInv'
  BY FlushStep
<1>3. SyncInv /\ FlushInv => CheckpointConsistent
  BY DEF SyncInv, JobSync, Quiet, FlushInv, CheckpointConsistent
<1> QED BY <1>1, <1>2, <1>3, TypeCorrect, SyncInvariant, PTL DEF Spec
-----------------------------------------------------------------------------
(* The job chain that a job runs.                                          *)

FreshInv == ProgrammedInv /\ FreshJob

(* What the registers of a job were last given.                            *)
JobRegs == <<head, jcLo, transtab, jobActive, jobHead, atom>>

HeadLo  == Writes(rec, "JS_HEAD_NEXT_LO")
HeadHi  == Writes(rec, "JS_HEAD_NEXT_HI")
Tables  == Writes(rec, "AS_TRANSTAB")

(* An access that FreshInv does not speak of.                              *)
Untracked(k) == k \notin HeadLo \cup HeadHi \cup Tables \cup Commands \cup Resets(rec)

LEMMA NoneAfterNext ==
    ASSUME NEW S, S \subseteq Nat, NEW a \in Nat, NEW n \in Nat, a <= n, NoneAfter(S, a, n + 1)
    PROVE  NoneAfter(S, a, n) /\ n + 1 \notin S
  BY DEF NoneAfter

LEMMA WritesNat ==
    ASSUME NEW r, r \in Seq(RegIo)
    PROVE  /\ \A reg : Writes(r, reg) \subseteq Nat /\ Writes(r, reg) \subseteq 1..Len(r)
           /\ Resets(r) \subseteq Nat /\ Len(r) \in Nat
  BY DEF Resets

(* A head that is written after n + 1 accesses, the last of which wrote    *)
(* neither half, was written after n.                                      *)
LEMMA HeadWrittenBefore ==
    ASSUME NEW r, r \in Seq(RegIo), NEW lo \in 1..Len(r), NEW hi \in 1..Len(r), NEW n \in Nat,
           HeadWritten(r, lo, hi, n + 1), hi # n + 1
    PROVE  /\ HeadWritten(r, lo, hi, n)
           /\ n + 1 \notin Writes(r, "JS_HEAD_NEXT_LO") \cup Writes(r, "JS_HEAD_NEXT_HI")
                            \cup Writes(r, "JS_COMMAND_NEXT") \cup Resets(r)
<1> DEFINE S == Writes(r, "JS_HEAD_NEXT_LO") \cup Resets(r)
           T == Writes(r, "JS_HEAD_NEXT_HI") \cup Writes(r, "JS_COMMAND_NEXT")
<1>1. S \subseteq Nat /\ T \subseteq Nat
  BY WritesNat
<1>2. lo < hi /\ hi <= n /\ lo <= n /\ NoneAfter(S, lo, n + 1) /\ NoneAfter(T, hi, n + 1)
  BY DEF HeadWritten
<1>3. NoneAfter(S, lo, n) /\ n + 1 \notin S /\ NoneAfter(T, hi, n) /\ n + 1 \notin T
  <2>1. lo \in Nat /\ hi \in Nat
    OBVIOUS
  <2> HIDE DEF S, T
  <2>2. NoneAfter(S, lo, n) /\ n + 1 \notin S
    BY <1>1, <1>2, <2>1, NoneAfterNext
  <2>3. NoneAfter(T, hi, n) /\ n + 1 \notin T
    BY <1>1, <1>2, <2>1, NoneAfterNext
  <2> QED BY <2>2, <2>3
<1> QED BY <1>2, <1>3 DEF HeadWritten

LEMMA TableWrittenBefore ==
    ASSUME NEW r, r \in Seq(RegIo), NEW t \in 1..Len(r), NEW n \in Nat,
           TableWritten(r, t, n + 1), t # n + 1
    PROVE  TableWritten(r, t, n) /\ n + 1 \notin Resets(r)
<1>1. Resets(r) \subseteq Nat /\ t <= n /\ NoneAfter(Resets(r), t, n + 1)
  BY WritesNat DEF TableWritten
<1>2. NoneAfter(Resets(r), t, n) /\ n + 1 \notin Resets(r)
  BY <1>1, NoneAfterNext
<1> QED BY <1>1, <1>2 DEF TableWritten

LEMMA RecordingFacts ==
    ASSUME TypeOK
    PROVE  /\ rec \in Seq(RegIo) /\ Applied \in Nat
           /\ HeadLo \cup HeadHi \cup Tables \cup Commands \subseteq 1..Len(rec)
           /\ Resets(rec) \subseteq 1..Len(rec) /\ Len(rec) \in Nat
           /\ HeadLo \cup Resets(rec) \subseteq Nat
  BY RecordingsAssumption
  DEF TypeOK, ThreadTypeOK, Applied, HeadLo, HeadHi, Tables, Commands, Resets

(* One access further, for what is left as it was.                         *)
LEMMA LoKept ==
    ASSUME TypeOK, ProgrammedInv, Applied + 1 \notin HeadLo, NEW lo \in HeadLo,
           lo <= Applied + 1, NoneAfter(HeadLo \cup Resets(rec), lo, Applied + 1)
    PROVE  /\ lo <= Applied /\ Applied + 1 \notin Resets(rec)
           /\ jcLo = rec[lo].val /\ head[2] = rec[lo].val
<1>1. lo \in Nat /\ Applied \in Nat /\ lo <= Applied /\ HeadLo \cup Resets(rec) \subseteq Nat
  BY RecordingFacts
<1>2. NoneAfter(HeadLo \cup Resets(rec), lo, Applied) /\ Applied + 1 \notin HeadLo \cup Resets(rec)
  BY <1>1, NoneAfterNext
<1> QED BY <1>1, <1>2 DEF ProgrammedInv, HeadLo

LEMMA HeadKept ==
    ASSUME TypeOK, ProgrammedInv, Applied + 1 \notin HeadHi, NEW lo \in 1..Len(rec),
           NEW hi \in 1..Len(rec), HeadWritten(rec, lo, hi, Applied + 1)
    PROVE  /\ head = <<rec[hi].val, rec[lo].val>> /\ atom[head] = "unused"
           /\ Applied + 1 \notin HeadLo \cup HeadHi \cup Commands \cup Resets(rec)
<1>1. hi # Applied + 1
  BY DEF HeadWritten, HeadHi
<1>2. HeadWritten(rec, lo, hi, Applied)
  BY <1>1, RecordingFacts, HeadWrittenBefore
<1>3. Applied + 1 \notin HeadLo \cup HeadHi \cup Commands \cup Resets(rec)
  BY <1>1, RecordingFacts, HeadWrittenBefore DEF HeadLo, HeadHi, Commands
<1> QED BY <1>2, <1>3 DEF ProgrammedInv

LEMMA TableKept ==
    ASSUME TypeOK, ProgrammedInv, Applied + 1 \notin Tables, NEW t \in 1..Len(rec),
           TableWritten(rec, t, Applied + 1)
    PROVE  transtab = "new" /\ Applied + 1 \notin Resets(rec)
<1>1. t # Applied + 1
  BY DEF TableWritten, Tables
<1>2. TableWritten(rec, t, Applied) /\ Applied + 1 \notin Resets(rec)
  BY <1>1, RecordingFacts, TableWrittenBefore
<1> QED BY <1>2 DEF ProgrammedInv

(* What has to be shown of a step that applies no access or the next one.  *)
LEMMA ProgrammedNext ==
    ASSUME rec' = rec,
           \A lo \in HeadLo :
              lo <= Applied' /\ NoneAfter(HeadLo \cup Resets(rec), lo, Applied')
                => jcLo' = rec[lo].val /\ head'[2] = rec[lo].val,
           \A lo, hi \in 1..Len(rec) :
              HeadWritten(rec, lo, hi, Applied')
                => head' = <<rec[hi].val, rec[lo].val>> /\ atom'[head'] = "unused",
           \A t \in 1..Len(rec) : TableWritten(rec, t, Applied') => transtab' = "new"
    PROVE  ProgrammedInv'
<1> USE DEF HeadLo
<1>1. \A lo \in Writes(rec', "JS_HEAD_NEXT_LO") :
         lo <= Applied' /\ NoneAfter(Writes(rec', "JS_HEAD_NEXT_LO") \cup Resets(rec'), lo, Applied')
           => jcLo' = rec'[lo].val /\ head'[2] = rec'[lo].val
  OBVIOUS
<1>2. \A lo, hi \in 1..Len(rec') :
         HeadWritten(rec', lo, hi, Applied')
           => head' = <<rec'[hi].val, rec'[lo].val>> /\ atom'[head'] = "unused"
  OBVIOUS
<1>3. \A t \in 1..Len(rec') : TableWritten(rec', t, Applied') => transtab' = "new"
  OBVIOUS
<1> QED BY <1>1, <1>2, <1>3 DEF ProgrammedInv

(* Steps that apply nothing, or an access that FreshInv is not about.      *)
LEMMA UntrackedStep ==
    ASSUME TypeOK, ProgrammedInv, UNCHANGED <<rec, head, jcLo, transtab, atom>>,
           Applied' = Applied \/ (Applied' = Applied + 1 /\ Untracked(Applied + 1))
    PROVE  ProgrammedInv'
<1>1. CASE Applied' = Applied
  BY <1>1, ProgrammedNext DEF ProgrammedInv, HeadLo
<1>2. CASE Applied' = Applied + 1 /\ Untracked(Applied + 1)
  <2> USE DEF Untracked
  <2>1. \A lo \in HeadLo :
           lo <= Applied' /\ NoneAfter(HeadLo \cup Resets(rec), lo, Applied')
             => jcLo' = rec[lo].val /\ head'[2] = rec[lo].val
    BY <1>2, LoKept
  <2>2. \A lo, hi \in 1..Len(rec) :
           HeadWritten(rec, lo, hi, Applied')
             => head' = <<rec[hi].val, rec[lo].val>> /\ atom'[head'] = "unused"
    BY <1>2, HeadKept
  <2>3. \A t \in 1..Len(rec) : TableWritten(rec, t, Applied') => transtab' = "new"
    BY <1>2, TableKept
  <2> QED BY <2>1, <2>2, <2>3, ProgrammedNext
<1> QED BY <1>1, <1>2

(* The steps that leave the registers of the job as they are.              *)
LEMMA UntrackedEffect ==
    ASSUME TypeOK, PositionInv, [Next]_vars,
           ~(WriteHeadLo \/ WriteHeadHi \/ WriteReplaced \/ WriteSoftReset \/ SubmitJob
             \/ NextIteration \/ JobEnds)
    PROVE  /\ UNCHANGED <<rec, JobRegs>>
           /\ Applied' = Applied \/ (Applied' = Applied + 1 /\ Untracked(Applied + 1))
<1> USE DEF Goto, NextIo, config, threadVars, devVars, slotVars, memVars, loopVars, staticVars,
        jobVars, JobRegs
<1> DEFINE Skips == UNCHANGED <<rec, JobRegs>> /\ Applied' = Applied
           Passes == /\ UNCHANGED <<rec, JobRegs>> /\ Untracked(i) /\ i' = i + 1 /\ pc' = "io"
                     /\ pc \notin {"rstmask", "wait"}
<1>0. i \in Nat
  BY DEF TypeOK, ThreadTypeOK
<1>1. Passes => UNCHANGED <<rec, JobRegs>> /\ Applied' = Applied + 1 /\ Untracked(Applied + 1)
  <2> SUFFICES ASSUME Passes PROVE Applied' = i /\ Applied + 1 = i
    OBVIOUS
  <2> QED BY <1>0 DEF Applied
<1>2. ASSUME UNCHANGED <<i, rec, JobRegs>>, pc' \in {"rstmask", "wait"} <=> pc \in {"rstmask", "wait"}
      PROVE  Skips
  BY <1>2 DEF Applied
<1>3. ASSUME UNCHANGED <<rec, JobRegs>>, i' = i + 1, pc' = "io", pc \in {"rstmask", "wait"}
      PROVE  Skips
  <2>1. Applied = i /\ Applied' = i' - 1
    BY <1>3 DEF Applied
  <2> QED BY <1>0, <1>3, <2>1
<1>4. CASE Read
  <2>1. CASE ReadLatestFlush \/ ReadAsStatus
    <3>1. Passes
      BY <2>1 DEF ReadLatestFlush, ReadAsStatus, AtIo, Untracked, HeadLo, HeadHi, Tables, Commands,
         Resets
    <3> QED BY <1>1, <3>1
  <2>2. CASE OtherIo
    <3>1. Passes
      BY <2>2 DEF OtherIo, AtIo, Untracked, HeadLo, HeadHi, Tables, Commands, Resets
    <3> QED BY <1>1, <3>1
  <2>3. CASE ReadAsActive
    BY <1>2, <2>3 DEF ReadAsActive, AtIo
  <2>4. CASE AsStatusWait
    <3>1. pc = "aswait" /\ UNCHANGED <<rec, JobRegs>>
      BY <2>4 DEF AsStatusWait
    <3>2. Untracked(i)
      BY <3>1 DEF PositionInv, Untracked, HeadLo, HeadHi, Tables, Commands, Resets
    <3>3. CASE pc' \in {"aswait", "aborted"} /\ i' = i
      BY <1>2, <3>1, <3>3
    <3>4. CASE pc' = "io" /\ i' = i + 1
      BY <1>1, <3>1, <3>2, <3>4
    <3> QED BY <2>4, <3>3, <3>4 DEF AsStatusWait
  <2> QED BY <1>4, <2>1, <2>2, <2>3, <2>4 DEF Read
<1>5. CASE WriteCommand
  <2>1. Passes
    BY <1>5 DEF WriteCommand, AtIo, Untracked, HeadLo, HeadHi, Tables, Commands, Resets
  <2> QED BY <1>1, <2>1
<1>6. CASE WriteJobIrq \/ WriteGpuIrq
  <2>1. Passes
    BY <1>6 DEF WriteJobIrq, WriteGpuIrq, AtIo, Untracked, HeadLo, HeadHi, Tables, Commands, Resets
  <2> QED BY <1>1, <2>1
<1>7. CASE UnmaskReset
  BY <1>3, <1>7 DEF UnmaskReset
<1>8. CASE Checkpoint
  BY <1>2, <1>8 DEF Checkpoint, CkUnmask, CkCommand, CkPoll, CkMask, CkClear, AsFlush,
     AsFlushWait, WriteCheckpoint, AtIo
<1>9. CASE WaitJobIrq
  BY <1>3, <1>9 DEF WaitJobIrq, JobIrqPoll
<1>10. CASE JobIrqStep
  BY <1>2, <1>10 DEF JobIrqStep, JobIrqHandler, JobIrqEnter, JobIrqReadStatus, JobIrqClear,
     JobIrqReadRawstat, JobIrqInc
<1>11. CASE GpuIrqStep \/ CleanEnds \/ AsFlushEnds \/ ResetEnds
  BY <1>2, <1>11 DEF GpuIrqStep, CleanEnds, AsFlushEnds, ResetEnds
<1>12. CASE Terminated \/ UNCHANGED vars
  BY <1>2, <1>12 DEF Terminated, vars
<1> QED
  BY <1>4, <1>5, <1>6, <1>7, <1>8, <1>9, <1>10, <1>11, <1>12 DEF Next, Replay, Write

(* The accesses that program a job, and a soft reset.                      *)
LEMMA ProgramStep ==
    ASSUME TypeOK, ProgrammedInv, WriteHeadLo \/ WriteHeadHi \/ WriteReplaced \/ WriteSoftReset
    PROVE  ProgrammedInv'
<1> USE DEF Goto, NextIo, config
<1> DEFINE n == Applied + 1
<1>1. /\ i \in 1..Len(rec) /\ rec[i].rw = "W" /\ rec' = rec
      /\ n = i /\ Applied' = n /\ n \in Nat
  <2>1. /\ pc = "io" /\ i \in 1..Len(rec) /\ rec[i].rw = "W" /\ rec' = rec
        /\ (pc' = "io" /\ i' = i + 1) \/ (pc' = "rstmask" /\ i' = i)
    BY DEF WriteHeadLo, WriteHeadHi, WriteReplaced, WriteSoftReset, AtIo
  <2>2. Applied = i - 1 /\ Applied' = i
    BY <2>1 DEF Applied
  <2> QED BY <2>1, <2>2
<1>2. rec[n] \in RegIo
  BY <1>1, RecordingIo DEF TypeOK, ThreadTypeOK
<1>3. CASE WriteHeadLo
  <2>1. /\ rec[n].reg = "JS_HEAD_NEXT_LO" /\ jcLo' = rec[n].val /\ head' = <<head[1], rec[n].val>>
        /\ UNCHANGED <<transtab, atom>>
    BY <1>1, <1>3 DEF WriteHeadLo, AtIo, memVars
  <2>2. n \in HeadLo /\ n \notin HeadHi /\ n \notin Tables
    BY <1>1, <2>1 DEF HeadLo, HeadHi, Tables
  <2>3. ASSUME NEW lo \in HeadLo, lo <= n, NoneAfter(HeadLo \cup Resets(rec), lo, n)
        PROVE  jcLo' = rec[lo].val /\ head'[2] = rec[lo].val
    <3>1. lo = n
      BY <1>1, <2>2, <2>3, RecordingFacts DEF NoneAfter
    <3> QED BY <2>1, <3>1
  <2>4. \A lo, hi \in 1..Len(rec) : ~HeadWritten(rec, lo, hi, n)
    BY <2>2, HeadKept
  <2>5. \A t \in 1..Len(rec) : TableWritten(rec, t, n) => transtab' = "new"
    BY <2>1, <2>2, TableKept
  <2> HIDE DEF n
  <2> QED BY <1>1, <2>3, <2>4, <2>5, ProgrammedNext
<1>4. CASE WriteHeadHi
  <2>1. /\ rec[n].reg = "JS_HEAD_NEXT_HI" /\ head' = <<rec[n].val, head[2]>>
        /\ atom' = [jc \in JobChain |-> IF jc = <<rec[n].val, jcLo>> THEN "unused" ELSE atom[jc]]
        /\ UNCHANGED <<transtab, jcLo>>
    BY <1>1, <1>4 DEF WriteHeadHi, AtIo, staticVars
  <2>2. n \notin HeadLo /\ n \in HeadHi /\ n \notin Tables /\ n \notin Resets(rec)
    BY <1>1, <2>1 DEF HeadLo, HeadHi, Tables, Resets
  <2>3. ASSUME NEW lo \in HeadLo, lo <= n, NoneAfter(HeadLo \cup Resets(rec), lo, n)
        PROVE  jcLo = rec[lo].val /\ head[2] = rec[lo].val
    BY <2>2, <2>3, LoKept
  <2>4. ASSUME NEW lo \in 1..Len(rec), NEW hi \in 1..Len(rec), HeadWritten(rec, lo, hi, n)
        PROVE  head' = <<rec[hi].val, rec[lo].val>> /\ atom'[head'] = "unused"
    <3>1. /\ lo \in HeadLo /\ hi \in HeadHi /\ lo < hi /\ hi <= n
          /\ NoneAfter(HeadLo \cup Resets(rec), lo, n) /\ NoneAfter(HeadHi \cup Commands, hi, n)
      BY <2>4 DEF HeadWritten, HeadLo, HeadHi, Commands
    <3>2. hi = n
      BY <1>1, <2>2, <3>1 DEF NoneAfter
    <3>3. lo <= n /\ jcLo = rec[lo].val /\ head[2] = rec[lo].val
      BY <1>1, <2>3, <3>1
    <3>4. rec[n].val \in Words /\ rec[lo].val \in Words
      <4>1. rec[lo] \in RegIo /\ rec[lo].reg = "JS_HEAD_NEXT_LO"
        BY <3>1, RecordingFacts DEF HeadLo
      <4> QED BY <1>2, <2>1, <4>1, HeadWord DEF HeadRegs
    <3>5. head' = <<rec[hi].val, rec[lo].val>> /\ head' \in JobChain /\ head' = <<rec[n].val, jcLo>>
      BY <2>1, <3>2, <3>3, <3>4 DEF JobChain
    <3>6. atom'[head'] = "unused"
      BY <2>1, <3>5
    <3> QED BY <3>5, <3>6
  <2>5. \A t \in 1..Len(rec) : TableWritten(rec, t, n) => transtab' = "new"
    BY <2>1, <2>2, TableKept
  <2>6. \A lo \in HeadLo :
           lo <= Applied' /\ NoneAfter(HeadLo \cup Resets(rec), lo, Applied')
             => jcLo' = rec[lo].val /\ head'[2] = rec[lo].val
    BY <1>1, <2>1, <2>3
  <2> HIDE DEF n
  <2> QED BY <1>1, <2>4, <2>5, <2>6, ProgrammedNext
<1>5. CASE WriteReplaced
  <2>1. /\ rec[n].reg \in {"JS_FLUSH_ID_NEXT", "JS_CONFIG_NEXT", "AS_TRANSTAB"}
        /\ transtab' = IF rec[n].reg = "AS_TRANSTAB" THEN "new" ELSE transtab
        /\ UNCHANGED <<head, jcLo, atom>>
    BY <1>1, <1>5 DEF WriteReplaced, AtIo, staticVars, memVars
  <2>2. n \notin HeadLo /\ n \notin HeadHi /\ (n \in Tables => transtab' = "new")
    BY <2>1 DEF HeadLo, HeadHi, Tables
  <2>3. \A lo \in HeadLo :
           lo <= n /\ NoneAfter(HeadLo \cup Resets(rec), lo, n)
             => jcLo' = rec[lo].val /\ head'[2] = rec[lo].val
    BY <2>1, <2>2, LoKept
  <2>4. \A lo, hi \in 1..Len(rec) :
           HeadWritten(rec, lo, hi, n) => head' = <<rec[hi].val, rec[lo].val>> /\ atom'[head'] = "unused"
    BY <2>1, <2>2, HeadKept
  <2>5. \A t \in 1..Len(rec) : TableWritten(rec, t, n) => transtab' = "new"
    BY <2>1, <2>2, TableKept
  <2> HIDE DEF n
  <2> QED BY <1>1, <2>3, <2>4, <2>5, ProgrammedNext
<1>6. CASE WriteSoftReset
  <2>1. rec[n].reg = "GPU_COMMAND" /\ rec[n].val = "SOFT_RESET"
    BY <1>1, <1>6 DEF WriteSoftReset, AtIo
  <2>2. n \in Resets(rec) /\ n \notin HeadLo /\ n \notin HeadHi /\ n \notin Tables
    BY <1>1, <2>1 DEF Resets, HeadLo, HeadHi, Tables
  <2>3. \A lo \in HeadLo : lo <= n => ~NoneAfter(HeadLo \cup Resets(rec), lo, n)
    BY <2>2, LoKept
  <2>4. \A lo, hi \in 1..Len(rec) : ~HeadWritten(rec, lo, hi, n)
    BY <2>2, HeadKept
  <2>5. \A t \in 1..Len(rec) : ~TableWritten(rec, t, n)
    BY <2>2, TableKept
  <2> HIDE DEF n
  <2> QED BY <1>1, <2>3, <2>4, <2>5, ProgrammedNext
<1> QED BY <1>3, <1>4, <1>5, <1>6

(* The start of a job: the registers are as its recording programs them.   *)
LEMMA SubmitFresh ==
    ASSUME TypeOK, SyncInv, PositionInv, FreshInv, ProgramsJobs(rec), SubmitJob
    PROVE  FreshInv'
<1> USE DEF FreshInv
<1> DEFINE n == Applied + 1
<1>1. /\ i \in Commands /\ pc \notin {"rstmask", "wait"} /\ pc' = "wait" /\ rec' = rec /\ i' = i
      /\ jobHead' = head /\ UNCHANGED <<head, jcLo, transtab, atom>>
  BY DEF SubmitJob, AtIo, PositionInv, Commands, Goto, config, staticVars, memVars
<1>2. i \in Nat /\ Applied = i - 1 /\ Applied' = i /\ n = i
  <2>1. Applied = i - 1 /\ Applied' = i
    BY <1>1 DEF Applied
  <2> QED BY <2>1 DEF TypeOK, ThreadTypeOK
<1>3. n \notin HeadLo /\ n \notin HeadHi /\ n \notin Tables /\ n \in Commands
  BY <1>1, <1>2 DEF Commands, HeadLo, HeadHi, Tables
<1>4. ProgrammedInv'
  <2>1. \A lo \in HeadLo :
           lo <= n /\ NoneAfter(HeadLo \cup Resets(rec), lo, n)
             => jcLo' = rec[lo].val /\ head'[2] = rec[lo].val
    BY <1>1, <1>3, LoKept
  <2>2. \A lo, hi \in 1..Len(rec) : ~HeadWritten(rec, lo, hi, n)
    BY <1>3, HeadKept
  <2>3. \A t \in 1..Len(rec) : TableWritten(rec, t, n) => transtab' = "new"
    BY <1>1, <1>3, TableKept
  <2> HIDE DEF n
  <2> QED BY <1>1, <1>2, <2>1, <2>2, <2>3, ProgrammedNext
<1>5. FreshJob'
  <2>1. /\ \E lo, hi \in 1..Len(rec) : HeadWritten(rec, lo, hi, Applied)
        /\ \E t \in 1..Len(rec) : TableWritten(rec, t, Applied)
    BY <1>1, <1>2 DEF ProgramsJobs, Commands
  <2>2. atom[head] = "unused" /\ transtab = "new"
    BY <2>1 DEF ProgrammedInv
  <2> QED BY <1>1, <2>2 DEF FreshJob
<1> QED BY <1>4, <1>5

LEMMA FreshStep ==
    ASSUME TypeOK, SyncInv, PositionInv, FreshInv, ProgramsJobs(rec), [Next]_vars
    PROVE  FreshInv'
<1> USE DEF FreshInv
<1>1. CASE WriteHeadLo \/ WriteHeadHi \/ WriteReplaced \/ WriteSoftReset
  <2>1. ~jobActive'
    BY <1>1 DEF WriteHeadLo, WriteHeadHi, WriteReplaced, WriteSoftReset, AtIo, SyncInv, JobSync,
       Quiet, jobVars
  <2> QED BY <1>1, <2>1, ProgramStep DEF FreshJob
<1>2. CASE SubmitJob
  BY <1>2, SubmitFresh
<1>3. CASE NextIteration
  <2>1. ~jobActive' /\ pc = "io" /\ UNCHANGED <<rec, head, jcLo, transtab>>
    BY <1>3 DEF NextIteration, SyncInv, JobSync, Quiet, config, slotVars, staticVars, jobVars
  <2>2. CASE i' = 1 /\ pc' = "io"
    <3>1. Applied' = 0
      BY <2>2 DEF Applied
    <3>2. /\ \A lo \in HeadLo : ~(lo <= 0)
          /\ \A lo, hi \in 1..Len(rec) : ~HeadWritten(rec, lo, hi, 0)
          /\ \A t \in 1..Len(rec) : ~TableWritten(rec, t, 0)
      BY RecordingFacts DEF HeadWritten, TableWritten
    <3>3. ProgrammedInv'
      BY <2>1, <3>1, <3>2, ProgrammedNext
    <3> QED BY <2>1, <3>3 DEF FreshJob
  <2>3. CASE pc' = "done" /\ UNCHANGED <<i, atom>>
    <3>1. Applied' = Applied
      BY <2>1, <2>3 DEF Applied
    <3>2. ProgrammedInv'
      BY <2>1, <2>3, <3>1, UntrackedStep
    <3> QED BY <2>1, <3>2 DEF FreshJob
  <2> QED BY <1>3, <2>2, <2>3 DEF NextIteration
<1>4. CASE JobEnds
  <2>1. /\ pc = "wait" /\ ~jobActive' /\ UNCHANGED <<rec, i, pc, head, jcLo, transtab>>
    BY <1>4 DEF JobEnds, JobFinish, SyncInv, JobSync, Quiet, threadVars, config, slotVars, staticVars
  <2>2. i \in Commands /\ Applied = i /\ Applied' = Applied
    BY <2>1 DEF PositionInv, Applied
  <2>3. \A lo, hi \in 1..Len(rec) : ~HeadWritten(rec, lo, hi, Applied)
    BY <2>2, RecordingFacts DEF HeadWritten, NoneAfter, Commands, HeadHi
  <2>4. ProgrammedInv'
    BY <2>1, <2>2, <2>3, ProgrammedNext DEF ProgrammedInv, HeadLo
  <2> QED BY <2>1, <2>4 DEF FreshJob
<1>5. CASE ~(WriteHeadLo \/ WriteHeadHi \/ WriteReplaced \/ WriteSoftReset \/ SubmitJob
             \/ NextIteration \/ JobEnds)
  <2>1. /\ UNCHANGED <<rec, JobRegs>>
        /\ Applied' = Applied \/ (Applied' = Applied + 1 /\ Untracked(Applied + 1))
    BY <1>5, UntrackedEffect
  <2>2. ProgrammedInv'
    BY <2>1, UntrackedStep DEF JobRegs
  <2> QED BY <2>1, <2>2 DEF FreshJob, JobRegs
<1> QED BY <1>1, <1>2, <1>3, <1>4, <1>5

(* Every job the replayer starts finds its job chain with a cleared status *)
(* word and the replayer's page table in place (gr_js_tune), in the first  *)
(* run and in every later one, whichever atoms gr_clean_used_atom knows:   *)
(* for all recordings whose jobs are programmed the way                    *)
(* kbase_job_hw_submit programs them.                                      *)
THEOREM JobsAreFresh ==
    (\A r \in Recordings : ProgramsJobs(r)) => (Spec => []FreshJob)
<1> SUFFICES ASSUME \A r \in Recordings : ProgramsJobs(r) PROVE Spec => []FreshJob
  OBVIOUS
<1>1. Init => FreshInv
  <2> SUFFICES ASSUME Init PROVE FreshInv
    OBVIOUS
  <2>1. rec \in Seq(RegIo) /\ Applied = 0 /\ ~jobActive
    BY RecordingsAssumption DEF Init, IrqInit, Applied
  <2>2. ProgrammedInv
    BY <2>1 DEF ProgrammedInv, HeadWritten, TableWritten
  <2> QED BY <2>1, <2>2 DEF FreshInv, FreshJob
<1>2. TypeOK /\ SyncInv /\ PositionInv /\ FreshInv /\ [Next]_vars => FreshInv'
  BY FreshStep DEF TypeOK, ThreadTypeOK
<1>3. FreshInv => FreshJob
  BY DEF FreshInv
<1> QED BY <1>1, <1>2, <1>3, TypeCorrect, SyncInvariant, PositionInvariant, PTL DEF Spec
=============================================================================

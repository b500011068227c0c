-------------------------- MODULE NanoDeviceProof --------------------------
(***************************************************************************)
(* Proofs about NanoDevice for any finite set of processes, any number of  *)
(* starts and jobs, overlapping or not, killed or not: the types, that the *)
(* device has one owner, and that a closed device is silent.               *)
(***************************************************************************)
EXTENDS NanoDevice, FiniteSetTheorems, TLAPS

USE DEF procVars, jobVars, gpuVars, Goto, MayStart,
        JobIrqStatus, JobBits, GpuBits, JobIrqPcs, GpuIrqPcs

ProcTypeOK ==
    /\ ppc \in [Procs -> ProcPcs]
    /\ starts \in [Procs -> 0..MaxStarts]
    /\ jobs \in [Procs -> 0..MaxJobs]
    /\ inUse \in Int
    /\ registered \in SUBSET Procs
    /\ refused \in SUBSET Procs
    /\ passes \in Nat
    /\ jobOwner \in Procs \cup {Nobody}

(* The types of the process state are preserved by every step of a process *)
(* (in_use is an int: that it never goes below zero takes ExclusiveOwner). *)
LEMMA ProcTypeStep ==
    ASSUME ProcTypeOK, NEW p \in Procs, Process(p)
    PROVE  ProcTypeOK'
<1> USE StartAssumption DEF ProcTypeOK, ProcPcs, HoldingPcs, OpeningPcs, OpenPcs, ReleasingPcs
<1>1. CASE Open(p) BY <1>1 DEF Open
<1>2. CASE OpenClear(p) BY <1>2 DEF OpenClear
<1>3. CASE OpenUnmask(p) BY <1>3 DEF OpenUnmask
<1>4. CASE OpenInstall(p) BY <1>4 DEF OpenInstall
<1>5. CASE IrqSetup(p) BY <1>5 DEF IrqSetup
<1>6. CASE SoftReset(p) BY <1>6 DEF SoftReset
<1>7. CASE Enable(p) BY <1>7 DEF Enable
<1>8. CASE Submit(p) BY <1>8 DEF Submit
<1>9. CASE Wait(p) BY <1>9 DEF Wait
<1>10. CASE Close(p) BY <1>10 DEF Close
<1>11. CASE ReleaseDec(p) BY <1>11 DEF ReleaseDec
<1>12. CASE ReleaseMask(p) BY <1>12 DEF ReleaseMask
<1>13. CASE ReleaseClear(p) BY <1>13 DEF ReleaseClear
<1>14. CASE ReleaseFree(p) BY <1>14 DEF ReleaseFree
<1> QED
  BY <1>1, <1>2, <1>3, <1>4, <1>5, <1>6, <1>7, <1>8, <1>9, <1>10, <1>11, <1>12, <1>13, <1>14
  DEF Process

(* Handler steps leave the processes alone and count their passes down.    *)
LEMMA HandlerTypeStep ==
    ASSUME ProcTypeOK, Handler
    PROVE  ProcTypeOK'
<1>1. CASE HandlerFirst
  <2>1. registered # {} /\ IsFiniteSet(registered)
    BY <1>1, ProcsAssumption, FS_Subset DEF HandlerFirst, ProcTypeOK
  <2>2. Cardinality(registered) \in Nat \ {0}
    BY <2>1, FS_CardinalityType, FS_EmptySet
  <2> QED BY <1>1, <2>2 DEF HandlerFirst, ProcTypeOK
<1>2. CASE HandlerAgain BY <1>2 DEF HandlerAgain, ProcTypeOK
<1>3. CASE HandlerStep BY <1>3 DEF HandlerStep, ProcTypeOK
<1> QED BY <1>1, <1>2, <1>3 DEF Handler

-----------------------------------------------------------------------------
(* A step of p that moves it within the holding labels, or outside them,   *)
(* leaves the holders as they are; the others add or remove p.             *)
LEMMA HoldersStep ==
    ASSUME ProcTypeOK, NEW p \in Procs, NEW l, ppc' = [ppc EXCEPT ![p] = l]
    PROVE  Holders' = IF l \in HoldingPcs THEN Holders \cup {p} ELSE Holders \ {p}
<1>1. ASSUME NEW q \in Procs PROVE ppc'[q] = IF q = p THEN l ELSE ppc[q]
  BY DEF ProcTypeOK
<1> QED BY <1>1 DEF Holders

LEMMA OwnerStep ==
    ASSUME ProcTypeOK, ExclusiveOwner, NEW p \in Procs, Process(p)
    PROVE  ExclusiveOwner'
<1> USE DEF OpeningPcs, OpenPcs, HoldingPcs
<1>1. ASSUME NEW l, ppc' = [ppc EXCEPT ![p] = l], inUse' = inUse,
             ppc[p] \in HoldingPcs <=> l \in HoldingPcs
      PROVE  ExclusiveOwner'
  <2>1. Holders' = Holders BY <1>1, HoldersStep DEF Holders
  <2> QED BY <1>1, <2>1 DEF ExclusiveOwner
<1>2. CASE Open(p)
  <2>1. CASE inUse # 0
    <3>1. Holders' = Holders BY <1>2, <2>1 DEF Open, Holders
    <3> QED BY <1>2, <2>1, <3>1 DEF Open, ExclusiveOwner
  <2>2. CASE inUse = 0
    <3>1. Holders = {} BY <2>2 DEF ExclusiveOwner
    <3>2. Holders' = {p} BY <1>2, <2>2, <3>1, HoldersStep DEF Open
    <3> QED BY <1>2, <2>2, <3>2 DEF Open, ExclusiveOwner
  <2> QED BY <2>1, <2>2
<1>3. CASE ReleaseDec(p)
  <2>1. p \in Holders BY <1>3 DEF ReleaseDec, Holders
  <2>2. Holders = {p} /\ inUse = 1 BY <2>1 DEF ExclusiveOwner
  <2>3. Holders' = {} BY <1>3, <2>2, HoldersStep DEF ReleaseDec
  <2> QED BY <1>3, <2>2, <2>3 DEF ReleaseDec, ExclusiveOwner
<1>4. CASE OpenClear(p) BY <1>1, <1>4 DEF OpenClear
<1>5. CASE OpenUnmask(p) BY <1>1, <1>5 DEF OpenUnmask
<1>6. CASE OpenInstall(p) BY <1>1, <1>6 DEF OpenInstall
<1>7. CASE IrqSetup(p) BY <1>1, <1>7 DEF IrqSetup
<1>8. CASE SoftReset(p) BY <1>1, <1>8 DEF SoftReset
<1>9. CASE Enable(p) BY <1>1, <1>9 DEF Enable
<1>10. CASE Submit(p) BY <1>1, <1>10 DEF Submit
<1>11. CASE Wait(p) BY <1>1, <1>11 DEF Wait
<1>12. CASE Close(p) BY <1>1, <1>12 DEF Close
<1>13. CASE ReleaseMask(p) BY <1>1, <1>13 DEF ReleaseMask
<1>14. CASE ReleaseClear(p) BY <1>1, <1>14 DEF ReleaseClear
<1>15. CASE ReleaseFree(p) BY <1>1, <1>15 DEF ReleaseFree
<1> QED
  BY <1>2, <1>3, <1>4, <1>5, <1>6, <1>7, <1>8, <1>9, <1>10, <1>11, <1>12, <1>13, <1>14, <1>15
  DEF Process

(* A step that changes neither the labels nor what an invariant reads.     *)
LEMMA OwnerOther ==
    ASSUME ExclusiveOwner, UNCHANGED <<ppc, inUse>>
    PROVE  ExclusiveOwner'
<1>1. Holders' = Holders BY DEF Holders
<1> QED BY <1>1 DEF ExclusiveOwner

-----------------------------------------------------------------------------
(* A step of p that moves it within the installed labels, or outside them, *)
(* leaves the installed as they are; the others add or remove p.           *)
LEMMA InstalledStep ==
    ASSUME ProcTypeOK, NEW p \in Procs, NEW l, ppc' = [ppc EXCEPT ![p] = l]
    PROVE  Installed' = IF l \in InstalledPcs THEN Installed \cup {p} ELSE Installed \ {p}
<1>1. ASSUME NEW q \in Procs PROVE ppc'[q] = IF q = p THEN l ELSE ppc[q]
  BY DEF ProcTypeOK
<1> QED BY <1>1 DEF Installed

(* Only gr_install_interrupts and gr_release_interrupts change who is      *)
(* installed and what is registered or refused.                            *)
LEMMA InstalledOther ==
    ASSUME ProcTypeOK, NEW p \in Procs, Process(p), ~OpenInstall(p), ~ReleaseFree(p)
    PROVE  UNCHANGED <<registered, refused, Installed>>
<1> USE DEF InstalledPcs, OpenPcs, ReleasingPcs
<1>1. UNCHANGED <<registered, refused>>
  BY DEF Process, Open, OpenClear, OpenUnmask, IrqSetup, SoftReset, Enable, Submit, Wait,
     Close, ReleaseDec, ReleaseMask, ReleaseClear
<1>2. ASSUME NEW l, ppc' = [ppc EXCEPT ![p] = l], ppc[p] \in InstalledPcs <=> l \in InstalledPcs
      PROVE  Installed' = Installed
  BY <1>2, InstalledStep DEF Installed
<1>3. CASE Open(p)
  <2>1. CASE inUse # 0 BY <1>3, <2>1 DEF Open, Installed
  <2>2. CASE inUse = 0 BY <1>1, <1>2, <1>3, <2>2 DEF Open
  <2> QED BY <1>1, <2>1, <2>2
<1>4. CASE OpenClear(p) BY <1>1, <1>2, <1>4 DEF OpenClear
<1>5. CASE OpenUnmask(p) BY <1>1, <1>2, <1>5 DEF OpenUnmask
<1>6. CASE IrqSetup(p) BY <1>1, <1>2, <1>6 DEF IrqSetup
<1>7. CASE SoftReset(p) BY <1>1, <1>2, <1>7 DEF SoftReset
<1>8. CASE Enable(p) BY <1>1, <1>2, <1>8 DEF Enable
<1>9. CASE Submit(p) BY <1>1, <1>2, <1>9 DEF Submit
<1>10. CASE Wait(p) BY <1>1, <1>2, <1>10 DEF Wait
<1>11. CASE Close(p) BY <1>1, <1>2, <1>11 DEF Close
<1>12. CASE ReleaseDec(p) BY <1>1, <1>2, <1>12 DEF ReleaseDec
<1>13. CASE ReleaseMask(p) BY <1>1, <1>2, <1>13 DEF ReleaseMask
<1>14. CASE ReleaseClear(p) BY <1>1, <1>2, <1>14 DEF ReleaseClear
<1> QED
  BY <1>3, <1>4, <1>5, <1>6, <1>7, <1>8, <1>9, <1>10, <1>11, <1>12, <1>13, <1>14 DEF Process

LEMMA RegisteredStep ==
    ASSUME ProcTypeOK, RegisteredInv, NEW p \in Procs, Process(p)
    PROVE  RegisteredInv'
<1> USE DEF RegisteredInv
<1>1. CASE OpenInstall(p)
  <2>1. Installed' = Installed \cup {p}
    BY <1>1, InstalledStep DEF OpenInstall, InstalledPcs, OpenPcs
  <2>2. registered' \in {registered, registered \cup {p}}
    BY <1>1 DEF OpenInstall
  <2> QED BY <2>1, <2>2
<1>2. CASE ReleaseFree(p)
  <2>1. Installed' = Installed \ {p}
    BY <1>2, InstalledStep DEF ReleaseFree, InstalledPcs, OpenPcs, ReleasingPcs
  <2>2. registered' \subseteq registered /\ p \notin registered'
    BY <1>2 DEF ReleaseFree
  <2> QED BY <2>1, <2>2
<1>3. CASE ~OpenInstall(p) /\ ~ReleaseFree(p)
  BY <1>3, InstalledOther
<1> QED BY <1>1, <1>2, <1>3

(* Only a process that will still mask the interrupts unmasks them.        *)
LEMMA UnmaskedStep ==
    ASSUME ProcTypeOK, UnmaskedInv, NEW p \in Procs, Process(p)
    PROVE  UnmaskedInv'
<1> DEFINE On == HoldingPcs \cup {"mask"}
<1> USE DEF OpeningPcs, OpenPcs, HoldingPcs, ReleasingPcs
<1>1. ASSUME NEW l \in On, ppc' = [ppc EXCEPT ![p] = l]
      PROVE  UnmaskedInv'
  BY <1>1 DEF UnmaskedInv, ProcTypeOK
<1>2. ASSUME NEW l, ppc' = [ppc EXCEPT ![p] = l], ppc[p] \notin On,
             UNCHANGED <<jobMask, gpuMask>>
      PROVE  UnmaskedInv'
  BY <1>2 DEF UnmaskedInv, ProcTypeOK
<1>3. CASE Open(p)
  <2>1. CASE inUse # 0 BY <1>3, <2>1 DEF Open, UnmaskedInv
  <2>2. CASE inUse = 0 BY <1>1, <1>3, <2>2 DEF Open
  <2> QED BY <2>1, <2>2
<1>4. CASE OpenClear(p) BY <1>1, <1>4 DEF OpenClear
<1>5. CASE OpenUnmask(p) BY <1>1, <1>5 DEF OpenUnmask
<1>6. CASE OpenInstall(p) BY <1>1, <1>6 DEF OpenInstall
<1>7. CASE IrqSetup(p) BY <1>1, <1>7 DEF IrqSetup
<1>8. CASE SoftReset(p) BY <1>1, <1>8 DEF SoftReset
<1>9. CASE Enable(p) BY <1>1, <1>9 DEF Enable
<1>10. CASE Submit(p) BY <1>1, <1>10 DEF Submit
<1>11. CASE Wait(p) BY <1>1, <1>11 DEF Wait
<1>12. CASE Close(p) BY <1>1, <1>12 DEF Close
<1>13. CASE ReleaseDec(p) BY <1>1, <1>13 DEF ReleaseDec
<1>14. CASE ReleaseMask(p) BY <1>14 DEF ReleaseMask, UnmaskedInv
<1>15. CASE ReleaseClear(p) BY <1>2, <1>15 DEF ReleaseClear
<1>16. CASE ReleaseFree(p) BY <1>2, <1>16 DEF ReleaseFree
<1> QED
  BY <1>3, <1>4, <1>5, <1>6, <1>7, <1>8, <1>9, <1>10, <1>11, <1>12, <1>13, <1>14, <1>15, <1>16
  DEF Process

(* No process step starts the handler, and free_irq waits for it.          *)
LEMMA HandlerInvStep ==
    ASSUME ProcTypeOK, HandlerInv, NEW p \in Procs, Process(p)
    PROVE  HandlerInv'
<1> USE DEF HandlerInv
<1>1. CASE ReleaseFree(p) BY <1>1 DEF ReleaseFree
<1>2. CASE OpenInstall(p) BY <1>2 DEF OpenInstall
<1>3. CASE ~ReleaseFree(p) /\ ~OpenInstall(p)
  <2>1. UNCHANGED <<jobIrq, passes, registered>>
    BY <1>3 DEF Process, Open, OpenClear, OpenUnmask, IrqSetup, SoftReset, Enable, Submit,
                Wait, JobIrqPoll, Close, ReleaseDec, ReleaseMask, ReleaseClear
  <2> QED BY <2>1
<1> QED BY <1>1, <1>2, <1>3

-----------------------------------------------------------------------------
(* ProcTypeOK and DeviceInv are inductive.                                 *)
THEOREM DeviceInvariant == Spec => [](ProcTypeOK /\ DeviceInv)
<1>1. Init => ProcTypeOK /\ DeviceInv
  <2> SUFFICES ASSUME Init PROVE ProcTypeOK /\ DeviceInv
    OBVIOUS
  <2>1. ProcTypeOK
    BY StartAssumption DEF Init, ProcTypeOK, ProcPcs
  <2>2. Holders = {}
    BY DEF Init, Holders, HoldingPcs, OpeningPcs, OpenPcs
  <2>3. ExclusiveOwner BY <2>2 DEF Init, ExclusiveOwner
  <2>4. RegisteredInv BY DEF Init, RegisteredInv
  <2>5. UnmaskedInv /\ HandlerInv BY DEF Init, UnmaskedInv, HandlerInv
  <2> QED BY <2>1, <2>3, <2>4, <2>5 DEF DeviceInv
<1>2. ProcTypeOK /\ DeviceInv /\ [Next]_vars => (ProcTypeOK /\ DeviceInv)'
  <2> SUFFICES ASSUME ProcTypeOK, DeviceInv, [Next]_vars PROVE (ProcTypeOK /\ DeviceInv)'
    OBVIOUS
  <2>1. CASE \E p \in Procs : Process(p)
    BY <2>1, ProcTypeStep, OwnerStep, RegisteredStep, UnmaskedStep, HandlerInvStep DEF DeviceInv
  <2>2. CASE Handler
    <3>1. UNCHANGED <<ppc, inUse, registered, refused, jobMask, gpuMask>>
      BY <2>2 DEF Handler, HandlerFirst, HandlerAgain, HandlerStep,
                  JobIrqEnter, JobIrqReadStatus, JobIrqClear, JobIrqReadRawstat, JobIrqInc
    <3>2. ExclusiveOwner' BY <3>1, OwnerOther DEF DeviceInv
    <3>3. RegisteredInv' /\ UnmaskedInv'
      BY <3>1 DEF DeviceInv, RegisteredInv, Installed, UnmaskedInv
    <3>4. HandlerInv'
      <4>1. CASE HandlerFirst BY <4>1 DEF HandlerFirst, HandlerInv
      <4>2. CASE HandlerAgain BY <4>2 DEF HandlerAgain, HandlerInv, DeviceInv
      <4>3. CASE HandlerStep
        BY <4>3 DEF HandlerStep, HandlerInv, DeviceInv,
                    JobIrqReadStatus, JobIrqClear, JobIrqReadRawstat, JobIrqInc
      <4> QED BY <2>2, <4>1, <4>2, <4>3 DEF Handler
    <3> QED BY <2>2, <3>2, <3>3, <3>4, HandlerTypeStep DEF DeviceInv
  <2>3. CASE JobEnds \/ PollForever \/ Finished \/ UNCHANGED vars
    <3>1. UNCHANGED <<procVars, inUse, registered, refused, passes, jobMask, gpuMask, jobIrq>>
      BY <2>3 DEF JobEnds, JobFinish, PollForever, Finished, vars
    <3>2. jobOwner' \in {jobOwner, Nobody} BY <2>3 DEF JobEnds, PollForever, Finished, vars
    <3>3. ProcTypeOK' BY <3>1, <3>2 DEF ProcTypeOK
    <3>4. ExclusiveOwner' BY <3>1, OwnerOther DEF DeviceInv
    <3>5. RegisteredInv' /\ UnmaskedInv' /\ HandlerInv'
      BY <3>1 DEF DeviceInv, RegisteredInv, Installed, UnmaskedInv, HandlerInv
    <3> QED BY <3>3, <3>4, <3>5 DEF DeviceInv
  <2> QED BY <2>1, <2>2, <2>3 DEF Next
<1> QED BY <1>1, <1>2, PTL DEF Spec

(* At most one process has the device, and in_use counts it (gr_open,      *)
(* gr_release), however opens, releases and kills overlap.                 *)
THEOREM OneOwner == Spec => []ExclusiveOwner
<1>1. DeviceInv => ExclusiveOwner BY DEF DeviceInv
<1> QED BY <1>1, DeviceInvariant, PTL

(* When no process is left the interrupts are masked and no handler is     *)
(* registered or running (gr_release), in whatever order the releases and  *)
(* opens before it ran.                                                    *)
THEOREM ClosedIsQuiet == Spec => []QuietWhenClosed
<1>1. ProcTypeOK /\ DeviceInv => QuietWhenClosed
  <2> SUFFICES ASSUME ProcTypeOK, DeviceInv, AllOff
               PROVE  ~jobMask /\ gpuMask = {} /\ registered = {} /\ jobIrq = "idle" /\ passes = 0
    BY DEF QuietWhenClosed
  <2>1. \A p \in Procs : ppc[p] \notin HoldingPcs \cup ReleasingPcs
    BY DEF AllOff, HoldingPcs, OpeningPcs, OpenPcs, ReleasingPcs
  <2>2. registered = {}
    BY <2>1 DEF DeviceInv, RegisteredInv, Installed, InstalledPcs, HoldingPcs
  <2>3. ~jobMask /\ gpuMask = {}
    BY <2>1 DEF DeviceInv, UnmaskedInv, ReleasingPcs
  <2>4. jobIrq = "idle" /\ passes = 0
    BY <2>2 DEF DeviceInv, HandlerInv, ProcTypeOK
  <2> QED BY <2>2, <2>3, <2>4
<1> QED BY <1>1, DeviceInvariant, PTL

-----------------------------------------------------------------------------
(* Type correctness.                                                       *)

LEMMA IrqTypeStep ==
    ASSUME IrqTypeOK, use \in Uses, [Next]_vars
    PROVE  IrqTypeOK' /\ use' \in Uses
<1> USE DEF IrqTypeOK
<1>1. ASSUME NEW p \in Procs, Process(p) PROVE IrqTypeOK' /\ use' \in Uses
  <2>1. CASE Open(p) BY <2>1 DEF Open
  <2>2. CASE OpenClear(p) BY <2>2 DEF OpenClear
  <2>3. CASE OpenUnmask(p) BY <2>3 DEF OpenUnmask
  <2>4. CASE OpenInstall(p) BY <2>4 DEF OpenInstall
  <2>5. CASE IrqSetup(p) BY <2>5 DEF IrqSetup
  <2>6. CASE SoftReset(p) BY <2>6 DEF SoftReset
  <2>7. CASE Enable(p) BY <2>7 DEF Enable
  <2>8. CASE Submit(p) BY <2>8 DEF Submit
  <2>9. CASE Wait(p)
    <3>1. isJobIrq' \in Nat BY <2>9 DEF Wait, JobIrqPoll
    <3> QED BY <2>9, <3>1 DEF Wait, JobIrqPoll
  <2>10. CASE Close(p) BY <2>10 DEF Close
  <2>11. CASE ReleaseDec(p) BY <2>11 DEF ReleaseDec
  <2>12. CASE ReleaseMask(p) BY <2>12 DEF ReleaseMask
  <2>13. CASE ReleaseClear(p) BY <2>13 DEF ReleaseClear
  <2>14. CASE ReleaseFree(p) BY <2>14 DEF ReleaseFree
  <2> QED
    BY <1>1, <2>1, <2>2, <2>3, <2>4, <2>5, <2>6, <2>7, <2>8, <2>9, <2>10, <2>11, <2>12, <2>13,
       <2>14 DEF Process
<1>2. CASE Handler
  <2>1. UNCHANGED <<use, jobActive, jobMask, gpuVars>>
    BY <1>2 DEF Handler, HandlerFirst, HandlerAgain, HandlerStep, JobIrqEnter, JobIrqReadStatus,
       JobIrqClear, JobIrqReadRawstat, JobIrqInc
  <2>2. jobIrq' \in JobIrqPcs /\ isJobIrq' \in Nat
    BY <1>2 DEF Handler, HandlerFirst, HandlerAgain, HandlerStep, JobIrqEnter, JobIrqReadStatus,
       JobIrqClear, JobIrqReadRawstat, JobIrqInc
  <2>3. jobRaw' \in SUBSET JobBits /\ jobDone' \in SUBSET JobBits
    BY <1>2 DEF Handler, HandlerFirst, HandlerAgain, HandlerStep, JobIrqEnter, JobIrqReadStatus,
       JobIrqClear, JobIrqReadRawstat, JobIrqInc
  <2> QED BY <2>1, <2>2, <2>3
<1>3. CASE JobEnds
  BY <1>3 DEF JobEnds, JobFinish
<1>4. CASE PollForever \/ Finished \/ UNCHANGED vars
  BY <1>4 DEF PollForever, Finished, vars
<1> QED BY <1>1, <1>2, <1>3, <1>4 DEF Next

LEMMA IrqTypes == Spec => [](IrqTypeOK /\ use \in Uses)
<1>1. Init => IrqTypeOK /\ use \in Uses
  <2> SUFFICES ASSUME Init PROVE IrqTypeOK /\ use \in Uses
    OBVIOUS
  <2>1. IrqTypeOK
    BY DEF Init, IrqTypeOK
  <2> QED BY <2>1 DEF Init
<1>2. IrqTypeOK /\ use \in Uses /\ [Next]_vars => (IrqTypeOK /\ use \in Uses)'
  BY IrqTypeStep
<1> QED BY <1>1, <1>2, PTL DEF Spec

(* TypeOK is an invariant, kills and overlaps included: in particular      *)
(* in_use and is_job_irq never go below zero, which no check in gr_release *)
(* or job_irq_poll sees to by itself.                                      *)
THEOREM TypeCorrect == Spec => []TypeOK
<1>1. ProcTypeOK /\ DeviceInv /\ IrqTypeOK /\ use \in Uses => TypeOK
  BY DEF ProcTypeOK, DeviceInv, ExclusiveOwner, TypeOK
<1> QED BY <1>1, DeviceInvariant, IrqTypes, PTL

-----------------------------------------------------------------------------
(* One process at a time.                                                  *)

(* The steps that unmask or mask the slot, or lead a process to its jobs.  *)
LEMMA AloneStep ==
    ASSUME ProcTypeOK, AloneInv, [Next]_vars
    PROVE  AloneInv'
<1> SUFFICES ASSUME use # "overlap"
             PROVE  AloneInv'
  <2>1. use' = use
    <3>1. ASSUME NEW p \in Procs, Process(p) PROVE use' = use
      BY <3>1 DEF Process, Open, OpenClear, OpenUnmask, OpenInstall, IrqSetup, SoftReset, Enable,
         Submit, Wait, Close, ReleaseDec, ReleaseMask, ReleaseClear, ReleaseFree
    <3> QED BY <3>1 DEF Next, Handler, HandlerFirst, HandlerAgain, HandlerStep, JobEnds, PollForever,
         Finished, vars
  <2> QED BY <2>1 DEF AloneInv
<1> USE DEF AloneInv
<1>1. ASSUME NEW p \in Procs, NEW l, ppc[p] # "off", ppc' = [ppc EXCEPT ![p] = l],
             l \in {"ready", "wait"} => jobMask',
             refused' \subseteq Installed', registered' = Installed' \ refused'
      PROVE  AloneInv'
  <2>1. ASSUME NEW q \in Procs PROVE ppc'[q] = IF q = p THEN l ELSE ppc[q]
    BY <1>1 DEF ProcTypeOK
  <2>2. \A q \in Procs : q # p => ppc'[q] = "off"
    BY <1>1, <2>1
  <2> QED BY <1>1, <2>1, <2>2
<1>2. ASSUME NEW p \in Procs, Process(p) PROVE AloneInv'
  <2>0. ~OpenInstall(p) /\ ~ReleaseFree(p)
            => refused' \subseteq Installed' /\ registered' = Installed' \ refused'
    BY <1>2, InstalledOther
  <2>1. CASE Open(p)
    <3>0. refused' \subseteq Installed' /\ registered' = Installed' \ refused'
      BY <2>0, <2>1 DEF Open, OpenInstall, ReleaseFree
    <3>1. CASE inUse # 0 BY <2>1, <3>0, <3>1 DEF Open
    <3>2. CASE inUse = 0
      <4>1. ASSUME NEW q \in Procs
            PROVE  ppc[q] = "off" /\ ppc'[q] = IF q = p THEN "clear" ELSE "off"
        BY <2>1, <3>2 DEF Open, ProcTypeOK
      <4> QED BY <3>0, <4>1
    <3> QED BY <3>1, <3>2
  <2>2. CASE OpenClear(p) BY <1>1, <2>0, <2>2 DEF OpenClear, OpenInstall, ReleaseFree
  <2>3. CASE OpenUnmask(p) BY <1>1, <2>0, <2>3 DEF OpenUnmask, OpenInstall, ReleaseFree
  <2>4. CASE OpenInstall(p)
    <3>1. Installed' = Installed \cup {p} /\ p \notin Installed
      BY <2>4, InstalledStep
      DEF OpenInstall, Installed, InstalledPcs, OpenPcs, ReleasingPcs
    <3>2. refused' \subseteq Installed' /\ registered' = Installed' \ refused'
      BY <2>4, <3>1 DEF OpenInstall
    <3> QED BY <1>1, <2>4, <3>2 DEF OpenInstall
  <2>5. CASE IrqSetup(p) BY <1>1, <2>0, <2>5 DEF IrqSetup, OpenInstall, ReleaseFree
  <2>6. CASE SoftReset(p) BY <1>1, <2>0, <2>6 DEF SoftReset, OpenInstall, ReleaseFree
  <2>7. CASE Enable(p) BY <1>1, <2>0, <2>7 DEF Enable, OpenInstall, ReleaseFree
  <2>8. CASE Submit(p) BY <1>1, <2>0, <2>8 DEF Submit, OpenInstall, ReleaseFree
  <2>9. CASE Wait(p) BY <1>1, <2>0, <2>9 DEF Wait, JobIrqPoll, OpenInstall, ReleaseFree
  <2>10. CASE Close(p)
    <3>1. ppc[p] # "off" /\ ppc' = [ppc EXCEPT ![p] = "release"]
      BY <2>10 DEF Close, OpenPcs
    <3>2. ~OpenInstall(p) /\ ~ReleaseFree(p)
      BY <2>10 DEF Close, OpenPcs, OpenInstall, ReleaseFree
    <3> QED BY <1>1, <2>0, <3>1, <3>2
  <2>11. CASE ReleaseDec(p) BY <1>1, <2>0, <2>11 DEF ReleaseDec, OpenInstall, ReleaseFree
  <2>12. CASE ReleaseMask(p) BY <1>1, <2>0, <2>12 DEF ReleaseMask, OpenInstall, ReleaseFree
  <2>13. CASE ReleaseClear(p) BY <1>1, <2>0, <2>13 DEF ReleaseClear, OpenInstall, ReleaseFree
  <2>14. CASE ReleaseFree(p)
    <3>0. ppc[p] \in InstalledPcs
      BY <2>14 DEF ReleaseFree, InstalledPcs, ReleasingPcs
    <3>1. Installed = {p}
      <4>1. p \in Installed
        BY <3>0 DEF Installed
      <4>2. ppc[p] # "off"
        BY <2>14 DEF ReleaseFree
      <4>3. \A q \in Installed : q \in Procs /\ ppc[q] # "off"
        BY DEF Installed, InstalledPcs, OpenPcs, ReleasingPcs
      <4>4. \A q \in Installed : q = p
        BY <4>2, <4>3
      <4> QED BY <4>1, <4>4
    <3>2. Installed' = {}
      <4>1. ppc' = [ppc EXCEPT ![p] = "off"] /\ "off" \notin InstalledPcs
        BY <2>14 DEF ReleaseFree, InstalledPcs, OpenPcs, ReleasingPcs
      <4>2. Installed' = Installed \ {p}
        BY <4>1, InstalledStep
      <4> QED BY <3>1, <4>2
    <3>3. registered \subseteq {p} /\ refused \subseteq {p}
      BY <3>1
    <3>4. registered' = {} /\ refused' = {}
      BY <2>14, <3>3 DEF ReleaseFree
    <3> QED BY <1>1, <2>14, <3>2, <3>4 DEF ReleaseFree
  <2> QED
    BY <1>2, <2>1, <2>2, <2>3, <2>4, <2>5, <2>6, <2>7, <2>8, <2>9, <2>10, <2>11, <2>12, <2>13,
       <2>14 DEF Process
<1>3. CASE Handler \/ JobEnds \/ PollForever \/ Finished \/ UNCHANGED vars
  <2>1. UNCHANGED <<use, ppc, registered, refused, jobMask>>
    BY <1>3 DEF Handler, HandlerFirst, HandlerAgain, HandlerStep, JobIrqEnter, JobIrqReadStatus,
       JobIrqClear, JobIrqReadRawstat, JobIrqInc, JobEnds, JobFinish, PollForever, Finished, vars
  <2> QED BY <2>1 DEF Installed
<1> QED BY <1>2, <1>3 DEF Next

LEMMA AloneInvariant == Spec => []AloneInv
<1>1. Init => AloneInv
  BY DEF Init, AloneInv, Installed, InstalledPcs, OpenPcs, ReleasingPcs
<1>2. ProcTypeOK /\ AloneInv /\ [Next]_vars => AloneInv'
  BY AloneStep
<1> QED BY <1>1, <1>2, DeviceInvariant, PTL DEF Spec

(* A process that replays has its slot unmasked and its handler, and only  *)
(* its handler, registered unless request_irq failed for it, also when a   *)
(* process before it was killed at any point or had no handler (gr_open,   *)
(* gr_release), for any number of processes.                               *)
THEOREM ReplayHasInterrupts == Spec => []OwnerHasInterrupts
<1>1. AloneInv => OwnerHasInterrupts
  <2> SUFFICES ASSUME AloneInv, use # "overlap",
                      NEW p \in Procs, ppc[p] \in {"ready", "wait"}
               PROVE  jobMask /\ registered = {p} \ refused
    BY DEF OwnerHasInterrupts
  <2>1. Installed = {p}
    BY DEF AloneInv, Installed, InstalledPcs, OpenPcs, ReleasingPcs
  <2> QED BY <2>1 DEF AloneInv
<1> QED BY <1>1, AloneInvariant, PTL

-----------------------------------------------------------------------------
(* One process at a time, none of them killed: the job it waits for.       *)

JobQuiet == ~jobActive /\ jobRaw = {} /\ jobIrq = "idle" /\ isJobIrq = 0

(* A process that is not at the wait has the device for itself, and        *)
(* nothing is left of a job.                                               *)
LEMMA SerialQuiet ==
    ASSUME AloneInv, SerialInv, use = "serial",
           NEW p \in Procs, ppc[p] \notin {"off", "wait"} \/ \A q \in Procs : ppc[q] = "off"
    PROVE  (\A q \in Procs : ppc[q] # "wait") /\ JobQuiet /\ jobOwner = Nobody /\ passes = 0
<1>1. \A q \in Procs : ppc[q] # "wait"
  BY DEF AloneInv
<1> QED BY <1>1 DEF SerialInv, JobQuiet

(* What is left to show when a step leaves the device quiet.               *)
LEMMA SerialStaysQuiet ==
    ASSUME JobQuiet', jobOwner' = Nobody, passes' = 0
    PROVE  SerialInv'
  BY DEF SerialInv, JobQuiet

LEMMA SerialProcess ==
    ASSUME ProcTypeOK, AloneInv, SerialInv, use = "serial", NEW p \in Procs, Process(p)
    PROVE  SerialInv'
<1>1. ASSUME ppc[p] \notin {"off", "wait"} \/ \A q \in Procs : ppc[q] = "off",
             jobActive' = jobActive \/ ~jobActive', jobRaw' = jobRaw \/ jobRaw' = {},
             jobIrq' = jobIrq, isJobIrq' = isJobIrq \/ isJobIrq' = 0,
             jobOwner' = jobOwner \/ jobOwner' = Nobody, passes' = passes
      PROVE  SerialInv'
  <2>1. JobQuiet /\ jobOwner = Nobody /\ passes = 0
    BY <1>1, SerialQuiet
  <2>2. JobQuiet' /\ jobOwner' = Nobody /\ passes' = 0
    BY <1>1, <2>1 DEF JobQuiet
  <2> QED BY <2>2, SerialStaysQuiet
<1>2. CASE Open(p)
  BY <1>1, <1>2 DEF Open
<1>3. CASE OpenClear(p) BY <1>1, <1>3 DEF OpenClear
<1>4. CASE OpenUnmask(p) BY <1>1, <1>4 DEF OpenUnmask
<1>5. CASE OpenInstall(p) BY <1>1, <1>5 DEF OpenInstall
<1>6. CASE IrqSetup(p) BY <1>1, <1>6 DEF IrqSetup
<1>7. CASE SoftReset(p) BY <1>1, <1>7 DEF SoftReset
<1>8. CASE Enable(p) BY <1>1, <1>8 DEF Enable
<1>9. CASE Submit(p)
  <2>1. JobQuiet /\ passes = 0
    BY <1>9, SerialQuiet DEF Submit
  <2>2. /\ jobActive' /\ jobOwner' = p /\ ppc'[p] = "wait"
        /\ UNCHANGED <<jobRaw, jobIrq, isJobIrq, passes>>
    BY <1>9 DEF Submit, ProcTypeOK
  <2> QED BY <2>1, <2>2 DEF SerialInv, JobQuiet
<1>10. CASE Wait(p)
  <2>1. isJobIrq > 0 /\ isJobIrq' = isJobIrq - 1 /\ UNCHANGED <<jobActive, jobRaw, jobIrq, passes, jobOwner>>
    BY <1>10 DEF Wait, JobIrqPoll
  <2>2. isJobIrq = 1 /\ ~jobActive /\ jobRaw = {} /\ jobIrq = "idle" /\ jobOwner = Nobody /\ passes = 0
    BY <2>1 DEF SerialInv
  <2> QED BY <2>1, <2>2, SerialStaysQuiet DEF JobQuiet
<1>11. CASE Close(p) BY <1>1, <1>11 DEF Close
<1>12. CASE ReleaseDec(p) BY <1>1, <1>12 DEF ReleaseDec
<1>13. CASE ReleaseMask(p) BY <1>1, <1>13 DEF ReleaseMask
<1>14. CASE ReleaseClear(p) BY <1>1, <1>14 DEF ReleaseClear
<1>15. CASE ReleaseFree(p) BY <1>1, <1>15 DEF ReleaseFree
<1> QED
  BY <1>2, <1>3, <1>4, <1>5, <1>6, <1>7, <1>8, <1>9, <1>10, <1>11, <1>12, <1>13, <1>14, <1>15
  DEF Process

LEMMA SerialHandler ==
    ASSUME ProcTypeOK, DeviceInv, AloneInv, SerialInv, use = "serial", Handler
    PROVE  SerialInv'
<1>0. UNCHANGED <<ppc, use, jobActive, jobOwner, registered>>
  BY DEF Handler, HandlerFirst, HandlerAgain, HandlerStep, JobIrqEnter, JobIrqReadStatus,
     JobIrqClear, JobIrqReadRawstat, JobIrqInc
<1>1. ~HandlerAgain
  BY DEF HandlerAgain, SerialInv
<1>2. CASE HandlerFirst
  <2>1. jobMask /\ jobRaw # {} /\ jobIrq = "idle" /\ jobIrq' = "status"
        /\ UNCHANGED <<jobRaw, isJobIrq, jobDone>>
    BY <1>2 DEF HandlerFirst, JobIrqEnter
  <2>2. PICK p \in Procs : ppc[p] = "wait"
    BY <2>1 DEF SerialInv
  <2>3. registered = {p}
    <3>1. Installed = {p}
      BY <2>2 DEF AloneInv, Installed, InstalledPcs, OpenPcs, ReleasingPcs
    <3> QED BY <1>2, <3>1 DEF AloneInv, HandlerFirst
  <2>4. passes' = 0
    <3>1. Cardinality({p}) = 1
      BY FS_Singleton
    <3> QED BY <1>2, <2>3, <3>1 DEF HandlerFirst
  <2> QED BY <1>0, <2>1, <2>2, <2>4 DEF SerialInv
<1>3. CASE HandlerStep
  <2>0. passes' = passes
    BY <1>3 DEF HandlerStep
  <2>1. jobIrq # "idle"
    BY <1>3 DEF HandlerStep, JobIrqReadStatus, JobIrqClear, JobIrqReadRawstat, JobIrqInc
  <2>2. PICK p \in Procs : ppc[p] = "wait"
    BY <2>1 DEF SerialInv
  <2>3. jobMask /\ ~jobActive /\ isJobIrq = 0
    BY <2>1, <2>2 DEF AloneInv, SerialInv
  <2>4. CASE JobIrqReadStatus
    BY <1>0, <2>0, <2>2, <2>3, <2>4 DEF JobIrqReadStatus, SerialInv
  <2>5. CASE JobIrqClear
    BY <1>0, <2>0, <2>2, <2>3, <2>5 DEF JobIrqClear, SerialInv
  <2>6. CASE JobIrqReadRawstat
    BY <1>0, <2>0, <2>2, <2>3, <2>6 DEF JobIrqReadRawstat, SerialInv
  <2>7. CASE JobIrqInc
    BY <1>0, <2>0, <2>2, <2>3, <2>7 DEF JobIrqInc, SerialInv
  <2> QED BY <1>3, <2>4, <2>5, <2>6, <2>7 DEF HandlerStep
<1> QED BY <1>1, <1>2, <1>3 DEF Handler

LEMMA SerialStep ==
    ASSUME ProcTypeOK, DeviceInv, AloneInv, SerialInv, [Next]_vars
    PROVE  SerialInv'
<1>1. use' = use
  <2>1. ASSUME NEW p \in Procs, Process(p) PROVE use' = use
    BY <2>1 DEF Process, Open, OpenClear, OpenUnmask, OpenInstall, IrqSetup, SoftReset, Enable,
       Submit, Wait, Close, ReleaseDec, ReleaseMask, ReleaseClear, ReleaseFree
  <2> QED BY <2>1 DEF Next, Handler, HandlerFirst, HandlerAgain, HandlerStep, JobEnds, PollForever,
         Finished, vars
<1> SUFFICES ASSUME use = "serial" PROVE SerialInv'
  BY <1>1 DEF SerialInv
<1>2. CASE \E p \in Procs : Process(p)
  BY <1>2, SerialProcess
<1>3. CASE Handler
  BY <1>3, SerialHandler
<1>4. CASE JobEnds
  <2>1. /\ jobActive /\ ~jobActive' /\ jobRaw' # {} /\ jobOwner' = Nobody
        /\ UNCHANGED <<ppc, jobIrq, isJobIrq, passes>>
    BY <1>4 DEF JobEnds, JobFinish
  <2> QED BY <2>1 DEF SerialInv
<1>5. CASE PollForever \/ Finished \/ UNCHANGED vars
  BY <1>5 DEF PollForever, Finished, vars, SerialInv
<1> QED BY <1>2, <1>3, <1>4, <1>5 DEF Next

(* In serial use a process that has waited for its job                     *)
(* (gr_wait_job_irq) goes on only when that job is over, for any number of *)
(* processes one after the other, each with any number of jobs: no event   *)
(* of an earlier job, of its own or of another process, reaches it.        *)
THEOREM WaitsForOwnJob == Spec => []WaitedForJob
<1>1. Init => SerialInv
  BY DEF Init, SerialInv
<1>2. ProcTypeOK /\ DeviceInv /\ AloneInv /\ SerialInv /\ [Next]_vars => SerialInv'
  BY SerialStep
<1>3. SerialInv => WaitedForJob
  BY ProcsAssumption DEF SerialInv, WaitedForJob, WaitMeansOver
<1> QED BY <1>1, <1>2, <1>3, DeviceInvariant, AloneInvariant, PTL DEF Spec
=============================================================================

----------------------------- MODULE MCGrReplay -----------------------------
(***************************************************************************)
(* Small recordings for GrReplay, in the shape of recs/mnist/gr_io_history:*)
(* reset, interrupt set-up, page table, flush, jobs.                       *)
(***************************************************************************)
EXTENDS GrReplay

CONSTANT Shapes   \* which of the recordings below to replay

R(reg, v) == [rw |-> "R", reg |-> reg, val |-> v]
W(reg, v) == [rw |-> "W", reg |-> reg, val |-> v]

(* kbase_pm_do_reset and kbase_pm_enable_interrupts.                       *)
Reset == <<W("GPU_IRQ_MASK", "none"), W("GPU_IRQ_CLEAR", "all"), W("JOB_IRQ_MASK", "none"),
           W("GPU_COMMAND", "SOFT_RESET"), R("OTHER", "recorded"), W("GPU_IRQ_CLEAR", "all"),
           W("GPU_IRQ_MASK", "all"), W("JOB_IRQ_CLEAR", "all"), W("JOB_IRQ_MASK", "all"),
           W("OTHER", "recorded")>>

(* Page table update, then a flush that the recorded driver waited for.    *)
Mmu == <<W("AS_TRANSTAB", "recorded"), W("AS_COMMAND", "recorded"),
         W("AS_COMMAND", "FLUSH_MEM"), R("AS_STATUS", "ACTIVE"), R("AS_STATUS", "INACTIVE")>>

(* One job: kbase_job_hw_submit, then kbase_job_done.                      *)
Job(hi, lo) == <<W("JS_HEAD_NEXT_LO", lo), W("JS_HEAD_NEXT_HI", hi),
                 W("JS_CONFIG_NEXT", "recorded"), W("JS_FLUSH_ID_NEXT", "recorded"),
                 W("JS_COMMAND_NEXT", "recorded"), R("OTHER", "recorded"),
                 W("JOB_IRQ_CLEAR", "all")>>

Flush == <<R("LATEST_FLUSH", "recorded")>>

Boot    == Reset \o Mmu \o Flush \o Job("w0", "w0") \o Job("w0", "w0")
TwoJobs == Reset \o Mmu \o Flush \o Job("w0", "w0") \o <<W("GPU_COMMAND", "CLEAN_INV_CACHES")>>
             \o Flush \o Job("w0", "w1")

(* gr_io_history of mnist reads AS_STATUS between LATEST_FLUSH (access     *)
(* 188) and JS_FLUSH_ID_NEXT (access 220).                                 *)
Mnist   == Reset \o Flush \o Mmu \o Job("w0", "w0")

MCRecordings == [boot |-> Boot, two |-> TwoJobs, mnist |-> Mnist]
CleanableChains == {<<"w0", "w1">>}
Chosen == {MCRecordings[s] : s \in Shapes}

ASSUME ChosenProgramsJobs == \A r \in Chosen : ProgramsJobs(r)
=============================================================================

------------------------------ MODULE CtxSched ------------------------------
(***************************************************************************)
(* The address spaces of the GPU and the contexts that hold them in the    *)
(* Mali driver the recorder is built into: the reference counts of         *)
(* mali_kbase_ctx_sched.c and everything that counts on them.  The job     *)
(* scheduler (mali_kbase_js.c) gives a context an address space and takes  *)
(* it from another one; jobs, MMU faults, cache flushes, suspend and the   *)
(* end of a context hold references meanwhile; power changes and resets    *)
(* program the address spaces anew (kbase_ctx_sched_restore_all_as).       *)
(*                                                                         *)
(* A step is what happens under one hold of hwaccess_lock.  The scheduler  *)
(* holds queue_mutex from pick to end, and so does every release of a      *)
(* reference by anyone else.  Not modelled: privileged contexts (the       *)
(* hardware counters' own), job slots and the order of the queues.         *)
(***************************************************************************)
EXTENDS Integers

CONSTANTS
    Contexts,    \* kbase_contexts
    NoCtx,       \* NULL
    NrSpaces,    \* kbdev->nr_hw_address_spaces
    MaxJobs,     \* bound: atoms of a context on the GPU
    MaxHeld      \* bound: other references to a context

Spaces == 0..(NrSpaces - 1)
Invalid == -1

ASSUME ConstantsAssumption ==
    /\ NoCtx \notin Contexts
    /\ NrSpaces \in Nat /\ MaxJobs \in Nat /\ MaxHeld \in Nat

VARIABLES
    live,       \* contexts that exist
    dying,      \* those with KCTX_DYING
    scheduled,  \* those with KCTX_SCHEDULED
    refs,       \* refcount
    asNr,       \* as_nr
    toKctx,     \* as_to_kctx
    free,       \* the bits of as_free
    submit,     \* the bits of submit_allowed, one for each address space
    jobs,       \* atoms_pulled: atoms on the GPU, each with a reference
    held,       \* references held by flushes, suspend, zap and atoms that are over
    fault,      \* fault[i]: the context that the MMU interrupt of i retained, and
                \* whether its worker has dealt with the MMU
    sched,      \* kbase_js_sched: where it is and with which contexts
    power,      \* "off"; "booting", between GPU reset and restore_all_as; "on"
    suspend,    \* "no"; "begun", pm.suspending set; "js", after kbasep_js_suspend
    setup,      \* as->current_setup: the context whose tables it has
    hw,         \* the registers of the address space
    killed      \* contexts whose space a fault has disabled and nobody programmed since

schedVars == <<refs, asNr, toKctx, free>>
hwVars    == <<setup, hw, killed>>
useVars   == <<jobs, held, fault>>
vars == <<live, dying, scheduled, schedVars, submit, useVars, sched, power, suspend, hwVars>>

NoFault == [ctx |-> NoCtx, done |-> FALSE]
NoSched == [pc |-> "idle", ctx |-> NoCtx, victim |-> NoCtx, i |-> 0]

TypeOK ==
    /\ live \subseteq Contexts /\ dying \subseteq live /\ scheduled \subseteq live
    /\ refs \in [Contexts -> Nat]
    /\ asNr \in [Contexts -> Spaces \cup {Invalid}]
    /\ toKctx \in [Spaces -> Contexts \cup {NoCtx}]
    /\ free \subseteq Spaces /\ submit \subseteq Spaces
    /\ jobs \in [Contexts -> Nat] /\ held \in [Contexts -> Nat]
    /\ fault \in [Spaces -> [ctx : Contexts \cup {NoCtx}, done : BOOLEAN]]
    /\ sched \in [pc : {"idle", "retain", "find", "evict", "again", "commit", "leave"},
                  ctx : live \cup {NoCtx}, victim : Contexts \cup {NoCtx}, i : Nat]
    /\ power \in {"off", "booting", "on"} /\ suspend \in {"no", "begun", "js"}
    /\ setup \in [Spaces -> Contexts \cup {NoCtx}]
    /\ hw \in [Spaces -> Contexts \cup {NoCtx}]
    /\ killed \subseteq Contexts

(* kbase_ctx_sched_init.                                                   *)
Init ==
    /\ live = {} /\ dying = {} /\ scheduled = {}
    /\ refs = [c \in Contexts |-> 0] /\ asNr = [c \in Contexts |-> Invalid]
    /\ toKctx = [i \in Spaces |-> NoCtx]
    /\ free = Spaces /\ submit = {}
    /\ jobs = [c \in Contexts |-> 0] /\ held = [c \in Contexts |-> 0]
    /\ fault = [i \in Spaces |-> NoFault]
    /\ sched = NoSched /\ power = "on" /\ suspend = "no"
    /\ setup = [i \in Spaces |-> NoCtx] /\ hw = [i \in Spaces |-> NoCtx]
    /\ killed = {}

QueueFree  == sched.pc = "idle"   \* nobody else is in the scheduler
Suspending == suspend # "no"

-----------------------------------------------------------------------------
(* mali_kbase_ctx_sched.c.                                                 *)

(* Faulty variant: the context that had the space keeps its number.        *)
TakeSpaceKeep(c, i) ==
    /\ asNr' = [asNr EXCEPT ![c] = i]
    /\ toKctx' = [toKctx EXCEPT ![i] = c]
    /\ setup' = [setup EXCEPT ![i] = c] /\ hw' = [hw EXCEPT ![i] = c]
    /\ killed' = killed \ {c}

(* A space that c did not have: the last owner loses it, it is programmed. *)
TakeSpace(c, i) ==
    /\ asNr' = [d \in Contexts |-> IF d = c THEN i
                                   ELSE IF d = toKctx[i] THEN Invalid ELSE asNr[d]]
    /\ toKctx' = [toKctx EXCEPT ![i] = c]
    /\ setup' = [setup EXCEPT ![i] = c] /\ hw' = [hw EXCEPT ![i] = c]
    /\ killed' = killed \ {c}

(* kbase_ctx_sched_retain_ctx, when it finds a space: the one that c has   *)
(* if it is free, else the first free one (ffs).                           *)
RetainGot(c) ==
    /\ refs' = [refs EXCEPT ![c] = @ + 1]
    /\ IF refs[c] > 0 THEN UNCHANGED <<asNr, toKctx, free, hwVars>>
       ELSE IF asNr[c] \in free
       THEN free' = free \ {asNr[c]} /\ UNCHANGED <<asNr, toKctx, hwVars>>
       ELSE \E i \in free : /\ \A j \in free : i <= j
                            /\ free' = free \ {i} /\ TakeSpace(c, i)

RetainFails(c) == refs[c] = 0 /\ free = {}

(* Faulty variant: the bit of as_free is not looked after.                 *)
ReleaseNoFree(c) == refs' = [refs EXCEPT ![c] = @ - 1] /\ UNCHANGED free

(* kbase_ctx_sched_release_ctx.                                            *)
Release(c) ==
    /\ refs' = [refs EXCEPT ![c] = @ - 1]
    /\ free' = IF refs[c] = 1 THEN free \cup {asNr[c]} ELSE free

(* Faulty variant: the registers are left as the reset made them.          *)
RestoreForget ==
    LET Idle(i) == toKctx[i] # NoCtx /\ refs[toKctx[i]] = 0 IN
    /\ setup' = [i \in Spaces |-> IF Idle(i) THEN setup[i] ELSE toKctx[i]]
    /\ toKctx' = [i \in Spaces |-> IF Idle(i) THEN NoCtx ELSE toKctx[i]]
    /\ asNr' = [c \in Contexts |-> IF refs[c] = 0 THEN Invalid ELSE asNr[c]]
    /\ killed' = {}
    /\ UNCHANGED hw

(* kbase_ctx_sched_restore_all_as.  A space whose context has no reference *)
(* is neither programmed nor disabled.                                     *)
RestoreAll ==
    LET Idle(i) == toKctx[i] # NoCtx /\ refs[toKctx[i]] = 0 IN
    /\ setup' = [i \in Spaces |-> IF Idle(i) THEN setup[i] ELSE toKctx[i]]
    /\ hw' = [i \in Spaces |-> IF Idle(i) THEN hw[i] ELSE toKctx[i]]
    /\ toKctx' = [i \in Spaces |-> IF Idle(i) THEN NoCtx ELSE toKctx[i]]
    /\ asNr' = [c \in Contexts |-> IF refs[c] = 0 THEN Invalid ELSE asNr[c]]
    /\ killed' = {}

-----------------------------------------------------------------------------
(* The job scheduler.                                                      *)

SubmitAllowed(c) == asNr[c] \in submit

(* Faulty variant: submission is still allowed on the space.               *)
ReleaseInternalAllowed(c) ==
    IF refs[c] = 2 /\ (~SubmitAllowed(c) \/ Suspending)
    THEN /\ refs' = [refs EXCEPT ![c] = 0]
         /\ free' = free \cup {asNr[c]}
         /\ scheduled' = scheduled \ {c} /\ UNCHANGED submit
    ELSE Release(c) /\ UNCHANGED <<scheduled, submit>>

(* Faulty variant: whoever releases, the context leaves.                   *)
ReleaseInternalNow(c) ==
    IF ~SubmitAllowed(c) \/ Suspending
    THEN /\ refs' = [refs EXCEPT ![c] = IF @ > 1 THEN @ - 2 ELSE 0]
         /\ free' = free \cup {asNr[c]} /\ submit' = submit \ {asNr[c]}
         /\ scheduled' = scheduled \ {c}
    ELSE Release(c) /\ UNCHANGED <<scheduled, submit>>

(* kbasep_js_runpool_release_ctx_internal and kbase_backend_release_ctx_   *)
(* irq: when only the scheduler's own reference is left and the context    *)
(* may not submit, that one goes too and the context is out.               *)
ReleaseInternal(c) ==
    IF refs[c] = 2 /\ (~SubmitAllowed(c) \/ Suspending)
    THEN /\ refs' = [refs EXCEPT ![c] = 0]
         /\ free' = free \cup {asNr[c]} /\ submit' = submit \ {asNr[c]}
         /\ scheduled' = scheduled \ {c}
    ELSE Release(c) /\ UNCHANGED <<scheduled, submit>>

(* kbase_js_sched takes a context that kbase_js_use_ctx finds not to be    *)
(* scheduled: kbasep_js_schedule_ctx begins.                               *)
SchedPick(c) ==
    /\ QueueFree /\ c \in live \ scheduled /\ power # "off"
    /\ sched' = [NoSched EXCEPT !.pc = "retain", !.ctx = c]
    /\ UNCHANGED <<live, dying, scheduled, schedVars, submit, useVars, power, suspend, hwVars>>

SchedRetain ==
    /\ sched.pc \in {"retain", "again"}
    /\ \/ /\ ~RetainFails(sched.ctx) /\ RetainGot(sched.ctx)
          /\ sched' = [sched EXCEPT !.pc = "commit"]
       \/ /\ RetainFails(sched.ctx) /\ sched.pc = "retain"
          /\ sched' = [sched EXCEPT !.pc = "find"]
          /\ UNCHANGED <<schedVars, hwVars>>
    /\ UNCHANGED <<live, dying, scheduled, submit, useVars, power, suspend>>

Evictable(i) == toKctx[i] # NoCtx /\ refs[toKctx[i]] = 1

(* kbase_backend_find_and_release_free_address_space: the next context     *)
(* that only the scheduler holds is retained and may not submit.           *)
FindVictim(i) ==
    /\ sched.pc = "find" /\ sched.i <= i /\ Evictable(i)
    /\ \A j \in Spaces : sched.i <= j /\ j < i => ~Evictable(j)
    /\ refs' = [refs EXCEPT ![toKctx[i]] = @ + 1]
    /\ submit' = submit \ {asNr[toKctx[i]]}
    /\ sched' = [sched EXCEPT !.pc = "evict", !.victim = toKctx[i], !.i = i + 1]
    /\ UNCHANGED <<live, dying, scheduled, asNr, toKctx, free, useVars, power, suspend, hwVars>>

FindNone ==
    /\ sched.pc = "find" /\ \A j \in Spaces : sched.i <= j => ~Evictable(j)
    /\ sched' = NoSched
    /\ UNCHANGED <<live, dying, scheduled, schedVars, submit, useVars, power, suspend, hwVars>>

(* The locks were dropped; if the context is still held by somebody the    *)
(* search goes on.                                                         *)
Evict ==
    /\ sched.pc = "evict"
    /\ ReleaseInternal(sched.victim)
    /\ sched' = [sched EXCEPT !.pc = IF sched.victim \in scheduled' THEN "find" ELSE "again",
                              !.victim = NoCtx]
    /\ UNCHANGED <<live, dying, asNr, toKctx, useVars, power, suspend, hwVars>>

(* The transaction of kbasep_js_schedule_ctx: a dying context is rolled    *)
(* back; one that meets a suspend has to leave again.                      *)
Commit ==
    /\ sched.pc = "commit"
    /\ \/ /\ sched.ctx \in dying
          /\ Release(sched.ctx) /\ sched' = NoSched
          /\ UNCHANGED <<scheduled, submit>>
       \/ /\ sched.ctx \notin dying /\ ~Suspending
          /\ scheduled' = scheduled \cup {sched.ctx}
          /\ submit' = submit \cup {asNr[sched.ctx]}
          /\ sched' = NoSched
          /\ UNCHANGED <<refs, free>>
       \/ /\ sched.ctx \notin dying /\ Suspending
          /\ scheduled' = scheduled \cup {sched.ctx}
          /\ submit' = submit \ {asNr[sched.ctx]}
          /\ refs' = [refs EXCEPT ![sched.ctx] = @ + 1]
          /\ sched' = [sched EXCEPT !.pc = "leave"]
          /\ UNCHANGED free
    /\ UNCHANGED <<live, dying, asNr, toKctx, useVars, power, suspend, hwVars>>

(* kbasep_js_runpool_release_ctx_no_schedule.                              *)
Leave ==
    /\ sched.pc = "leave"
    /\ ReleaseInternal(sched.ctx) /\ sched' = NoSched
    /\ UNCHANGED <<live, dying, asNr, toKctx, useVars, power, suspend, hwVars>>

-----------------------------------------------------------------------------
(* Who else holds references.                                              *)

(* kbase_js_pull.  It does not look at what retaining the context returns. *)
JobPull(c) ==
    /\ power # "off" /\ c \in live /\ SubmitAllowed(c) /\ ~Suspending
    /\ jobs[c] < MaxJobs
    /\ jobs' = [jobs EXCEPT ![c] = @ + 1]
    /\ refs' = [refs EXCEPT ![c] = IF @ > 0 THEN @ + 1 ELSE @]
    /\ UNCHANGED <<live, dying, scheduled, asNr, toKctx, free, submit, held, fault,
                   sched, power, suspend, hwVars>>

Stuck(c) == \E i \in Spaces : fault[i] = [ctx |-> c, done |-> FALSE]

(* kbase_gpu_complete_hw: an atom that failed ends submission.             *)
JobFails(c) ==
    /\ jobs[c] > 0
    /\ submit' = submit \ {asNr[c]}
    /\ UNCHANGED <<live, dying, scheduled, schedVars, useVars, sched, power, suspend, hwVars>>

(* Faulty variant: a dying context may submit again, too.                  *)
JobDoneDying(c) ==
    /\ QueueFree /\ jobs[c] > 0 /\ (Stuck(c) => jobs[c] > 1) /\ held[c] < MaxHeld
    /\ jobs' = [jobs EXCEPT ![c] = @ - 1]
    /\ held' = [held EXCEPT ![c] = @ + 1]
    /\ submit' = IF jobs[c] = 1 THEN submit \cup {asNr[c]} ELSE submit
    /\ UNCHANGED <<live, dying, scheduled, schedVars, fault, sched, power, suspend, hwVars>>

(* An atom is over (kbase_js_complete_atom_wq) or goes back to the queue   *)
(* (js_return_worker).  With its last atom a context may submit again,     *)
(* whatever had ended that, unless it is dying.  The atom's reference is   *)
(* released later (HeldRelease).  "A job causing the Bus/Page fault        *)
(* shouldn't complete until the MMU is updated" (mali_kbase_mmu_jm.c 328). *)
JobDone(c) ==
    /\ QueueFree /\ jobs[c] > 0 /\ (Stuck(c) => jobs[c] > 1) /\ held[c] < MaxHeld
    /\ jobs' = [jobs EXCEPT ![c] = @ - 1]
    /\ held' = [held EXCEPT ![c] = @ + 1]
    /\ submit' = IF jobs[c] = 1 /\ c \notin dying THEN submit \cup {asNr[c]} ELSE submit
    /\ UNCHANGED <<live, dying, scheduled, schedVars, fault, sched, power, suspend, hwVars>>

(* kbase_mmu_flush_invalidate: the context is retained if it is retained.  *)
Flush(c) ==
    /\ QueueFree /\ refs[c] > 0 /\ held[c] < MaxHeld
    /\ refs' = [refs EXCEPT ![c] = @ + 1]
    /\ held' = [held EXCEPT ![c] = @ + 1]
    /\ UNCHANGED <<live, dying, scheduled, asNr, toKctx, free, submit, jobs, fault,
                   sched, power, suspend, hwVars>>

HeldRelease(c) ==
    /\ QueueFree /\ held[c] > 0
    /\ held' = [held EXCEPT ![c] = @ - 1]
    /\ ReleaseInternal(c)
    /\ UNCHANGED <<live, dying, asNr, toKctx, jobs, fault, sched, power, suspend, hwVars>>

(* kbase_mmu_interrupt on space i, with the job of its context running.  A *)
(* bus fault ends submission at once.                                      *)
FaultIrq(i) ==
    LET c == toKctx[i] IN
    /\ power = "on" /\ fault[i] = NoFault /\ c # NoCtx /\ jobs[c] > 0
    /\ refs' = [refs EXCEPT ![c] = @ + 1]
    /\ fault' = [fault EXCEPT ![i] = [ctx |-> c, done |-> FALSE]]
    /\ submit' \in {submit, submit \ {asNr[c]}}
    /\ UNCHANGED <<live, dying, scheduled, asNr, toKctx, free, jobs, held,
                   sched, power, suspend, hwVars>>

(* The worker looks the context up by the number of the space.  It adds    *)
(* pages, or disables the space (kbase_mmu_report_fault_and_kill).         *)
FaultGrow(i) ==
    /\ fault[i] # NoFault /\ ~fault[i].done
    /\ fault' = [fault EXCEPT ![i].done = TRUE]
    /\ UNCHANGED <<live, dying, scheduled, schedVars, submit, jobs, held, sched, power,
                   suspend, hwVars>>

FaultKill(i) ==
    LET a == asNr[toKctx[i]] IN
    /\ fault[i] # NoFault /\ ~fault[i].done /\ toKctx[i] # NoCtx
    /\ fault' = [fault EXCEPT ![i].done = TRUE]
    /\ submit' = submit \ {a}
    /\ setup' = [setup EXCEPT ![a] = NoCtx] /\ hw' = [hw EXCEPT ![a] = NoCtx]
    /\ killed' = killed \cup {toKctx[i]}
    /\ UNCHANGED <<live, dying, scheduled, schedVars, jobs, held, sched, power, suspend>>

FaultRelease(i) ==
    /\ QueueFree /\ fault[i].done /\ toKctx[i] # NoCtx
    /\ fault' = [fault EXCEPT ![i] = NoFault]
    /\ ReleaseInternal(toKctx[i])
    /\ UNCHANGED <<live, dying, asNr, toKctx, jobs, held, sched, power, suspend, hwVars>>

(* kbase_pm_suspend and kbasep_js_suspend: every context with a space is   *)
(* held, until HeldRelease, and none may submit.  The kernel has frozen    *)
(* the processes by then, so none is half-way through closing its context. *)
SuspendBegin ==
    /\ suspend = "no" /\ dying = {} /\ suspend' = "begun"
    /\ UNCHANGED <<live, dying, scheduled, schedVars, submit, useVars, sched, power, hwVars>>

Retained(c) == asNr[c] \in Spaces \ free /\ toKctx[asNr[c]] = c

JsSuspend ==
    /\ suspend = "begun" /\ suspend' = "js" /\ submit' = {}
    /\ \A c \in Contexts : Retained(c) => held[c] < MaxHeld
    /\ refs' = [c \in Contexts |-> IF Retained(c) THEN refs[c] + 1 ELSE refs[c]]
    /\ held' = [c \in Contexts |-> IF Retained(c) THEN held[c] + 1 ELSE held[c]]
    /\ UNCHANGED <<live, dying, scheduled, asNr, toKctx, free, jobs, fault, sched, power, hwVars>>

Resume ==
    /\ suspend = "js" /\ power = "off" /\ suspend' = "no"
    /\ UNCHANGED <<live, dying, scheduled, schedVars, submit, useVars, sched, power, hwVars>>

-----------------------------------------------------------------------------
(* Contexts come and go.                                                   *)

Create(c) ==
    /\ c \notin live /\ live' = live \cup {c}
    /\ UNCHANGED <<dying, scheduled, schedVars, submit, useVars, sched, power, suspend, hwVars>>

(* kbase_js_zap_context.                                                   *)
Zap(c) ==
    /\ QueueFree /\ ~Suspending /\ c \in live \ dying
    /\ dying' = dying \cup {c}
    /\ IF c \in scheduled
       THEN /\ held[c] < MaxHeld
            /\ submit' = submit \ {asNr[c]}
            /\ refs' = [refs EXCEPT ![c] = @ + 1] /\ held' = [held EXCEPT ![c] = @ + 1]
       ELSE UNCHANGED <<submit, refs, held>>
    /\ UNCHANGED <<live, scheduled, asNr, toKctx, free, jobs, fault, sched, power, suspend, hwVars>>

(* Nobody uses the context any more: it is not scheduled, has no jobs and  *)
(* none of its own system calls or a suspend holds it.                     *)
Unused(c) == c \notin scheduled /\ jobs[c] = 0 /\ held[c] = 0 /\ sched.ctx # c

(* kbase_context_common_term and kbase_ctx_sched_remove_ctx.               *)
Destroy(c) ==
    /\ c \in dying /\ Unused(c)
    /\ live' = live \ {c} /\ dying' = dying \ {c}
    /\ IF asNr[c] = Invalid THEN UNCHANGED <<asNr, toKctx, setup, hw>>
       ELSE /\ asNr' = [asNr EXCEPT ![c] = Invalid]
            /\ toKctx' = [toKctx EXCEPT ![asNr[c]] = NoCtx]
            /\ IF power = "off" THEN UNCHANGED <<setup, hw>>
               ELSE /\ setup' = [setup EXCEPT ![asNr[c]] = NoCtx]
                    /\ hw' = [hw EXCEPT ![asNr[c]] = NoCtx]
    /\ killed' = killed \ {c}
    /\ UNCHANGED <<scheduled, refs, free, submit, useVars, sched, power, suspend>>

(* kbase_pm_clock_off, when nothing keeps the GPU active.                  *)
PowerOff ==
    /\ power = "on" /\ QueueFree
    /\ \A c \in Contexts : jobs[c] = 0
    /\ \A i \in Spaces : fault[i] = NoFault
    /\ power' = "off"
    /\ UNCHANGED <<live, dying, scheduled, schedVars, submit, useVars, sched, suspend, hwVars>>

(* kbase_pm_clock_on: the GPU may have kept its state.                     *)
PowerOn ==
    /\ power = "off" /\ ~Suspending /\ power' = "booting"
    /\ hw' \in {hw, [i \in Spaces |-> NoCtx]}
    /\ UNCHANGED <<live, dying, scheduled, schedVars, submit, useVars, sched, suspend,
                   setup, killed>>

(* kbase_reset_gpu's worker, after it has flushed the fault workers.       *)
Reset ==
    /\ power = "on" /\ \A i \in Spaces : fault[i] = NoFault
    /\ power' = "booting" /\ hw' = [i \in Spaces |-> NoCtx]
    /\ UNCHANGED <<live, dying, scheduled, schedVars, submit, useVars, sched, suspend,
                   setup, killed>>

Restore ==
    /\ power = "booting" /\ power' = "on"
    /\ RestoreAll
    /\ UNCHANGED <<live, dying, scheduled, refs, free, submit, useVars, sched, suspend>>

Next ==
    \/ SchedRetain \/ FindNone \/ Evict \/ Commit \/ Leave
    \/ SuspendBegin \/ JsSuspend \/ Resume
    \/ PowerOff \/ PowerOn \/ Reset \/ Restore
    \/ \E c \in Contexts :
          \/ SchedPick(c) \/ JobPull(c) \/ JobFails(c) \/ JobDone(c)
          \/ Flush(c) \/ HeldRelease(c)
          \/ Create(c) \/ Zap(c) \/ Destroy(c)
    \/ \E i \in Spaces :
          FindVictim(i) \/ FaultIrq(i) \/ FaultGrow(i) \/ FaultKill(i) \/ FaultRelease(i)

Spec == Init /\ [][Next]_vars

-----------------------------------------------------------------------------
(* The scheduler's own reference of the moment: a context on its way in or *)
(* out, or the one it tries to evict.                                      *)
InHand(c) ==
    \/ sched.pc \in {"commit", "leave"} /\ sched.ctx = c
    \/ sched.pc = "evict" /\ sched.victim = c

(* A fault whose worker has not yet released the context.                  *)
Faulting(c) == asNr[c] \in Spaces /\ fault[asNr[c]] # NoFault

(* refcount is the number of users: one for being scheduled ("there'll     *)
(* always be at least 1 reference to the context which was previously      *)
(* acquired by kbasep_js_schedule_ctx", mali_kbase_js.c:1463), one for     *)
(* every atom, flush, suspend, zap and fault, one in the scheduler's hand. *)
(* A reference that is lost or released twice shows here.                  *)
RefsBalance ==
    \A c \in Contexts :
        refs[c] = jobs[c] + held[c] + (IF c \in scheduled THEN 1 ELSE 0)
                  + (IF Faulting(c) THEN 1 ELSE 0) + (IF InHand(c) THEN 1 ELSE 0)

(* A context with a reference has an address space of its own: as_nr,      *)
(* as_to_kctx and as_free agree about it, and no other context has it.     *)
OwnSpace ==
    /\ \A c \in Contexts : refs[c] > 0 => asNr[c] \in Spaces \ free
    /\ \A c \in Contexts : asNr[c] # Invalid => toKctx[asNr[c]] = c
    /\ \A i \in Spaces : toKctx[i] # NoCtx => asNr[toKctx[i]] = i
    /\ \A i \in Spaces \ free : toKctx[i] # NoCtx /\ refs[toKctx[i]] > 0

(* A space on which jobs may be submitted belongs to a scheduled context   *)
(* with a reference, whoever had the space before: kbase_js_pull does not  *)
(* look whether retaining it succeeded.                                    *)
SubmitMeansScheduled ==
    \A i \in submit : toKctx[i] \in scheduled /\ refs[toKctx[i]] > 0

(* While the GPU is up, a context with a reference finds its own tables in *)
(* the registers of its space; after a fault it finds none, and never      *)
(* those of another context.                                               *)
Programmed ==
    power = "on" =>
        \A c \in Contexts : refs[c] > 0 =>
            \/ hw[asNr[c]] = c
            \/ hw[asNr[c]] = NoCtx /\ c \in killed

(* The fault worker "cannot be scheduled out of this AS until we           *)
(* explicitly release it" (mali_kbase_mmu.c:2200): it finds the context    *)
(* that the interrupt retained.                                            *)
FaultFindsContext ==
    \A i \in Spaces : fault[i] # NoFault => toKctx[i] = fault[i].ctx /\ refs[toKctx[i]] > 0

(* What the code warns about: the second attempt to get a space after one  *)
(* was released "should succeed" (mali_kbase_js.c:1699), a context without *)
(* a space has no number, and one that is removed has no reference.        *)
NoWarnings ==
    /\ sched.pc = "again" => ~RetainFails(sched.ctx)
    /\ sched.pc \in {"find", "evict"} => asNr[sched.ctx] = Invalid
    /\ \A c \in Contexts : Unused(c) => refs[c] = 0

(* "Since no ctx was found, the MMU must be disabled"                      *)
(* (mali_kbase_mmu_jm.c:200), which the code does not keep: a reset leaves *)
(* a context that is idle without its space, but the space with its setup. *)
NoContextMeansDisabled ==
    power = "on" => \A i \in Spaces : toKctx[i] = NoCtx => setup[i] = NoCtx
=============================================================================

----------------------------- MODULE RecorderAs -----------------------------
(***************************************************************************)
(* The recorder's list of address spaces (gr_as.c) and the file            *)
(* gr_mem_contents that it writes from it.  kbase_context_mmap adds an     *)
(* entry for every mapping, kbase_cpu_vm_fault marks it valid when the     *)
(* application touches it, JOB_SUBMIT writes the valid entries that are    *)
(* not job chains before the job is submitted, and POST_TERM writes the    *)
(* job chains, with what the runtime has added to them, and the entries    *)
(* that the application never touched.                                     *)
(*                                                                         *)
(* mmap, faults and resizing hold the context's vm lock; the walks of the  *)
(* list do not, so they are modelled entry by entry.                       *)
(***************************************************************************)
EXTENDS Naturals, Sequences, SequencesExt

CONSTANTS
    Addrs,       \* user addresses at which a region may be mapped
    Mappings,    \* flags and sizes of the regions
    Syncs,       \* ranges that are passed to SYNC
    JobFrom,     \* as_cnt beyond which a region may be a job chain (5)
    Uses,        \* how the application uses the device, see use
    MaxAs,       \* bound: mappings made
    MaxWrites,   \* bound: writes by the CPU
    MaxSubmits   \* bound: JOB_SUBMIT calls

Mapping == [gpuNx : BOOLEAN, cpuCached : BOOLEAN, gpuCached : BOOLEAN,
            growable : BOOLEAN, nrPages : Nat, nents : Nat]

ASSUME MappingsAssumption == \A m \in Mappings : m \in Mapping /\ m.nents <= m.nrPages
ASSUME UsesAssumption == Uses \subseteq {"serial", "threads", "reuse"}
ASSUME BoundsAssumption ==
    JobFrom \in Nat /\ MaxAs \in Nat /\ MaxWrites \in Nat /\ MaxSubmits \in Nat

VARIABLES
    use,       \* "serial": nothing else runs during an ioctl; "threads": other
               \* threads do; "reuse": serial, and addresses are mapped again
    asList,    \* gr_ctx->as_list
    reg,       \* reg[e]: the region that entry e was made for, with the pages of it
               \* that the CPU has mapped and touched; gpu: a job may have changed
               \* it since the CPU touched it; since: the ioctls begun when it was
               \* mapped or first touched
    syncs,     \* gr_ctx->sync_as_list
    submits,   \* jobs submitted
    walk,      \* where the walk of the list is
    file,      \* gr_mem_contents
    syncFile   \* gr_sync_as: the count and the ranges

vars == <<use, asList, reg, syncs, submits, walk, file, syncFile>>

Entries == 1..Len(asList)

Types == {"GPU_BINARY", "COMPUTE_JOB", "INOUT", "UNKNOWN"}

Walks == {"none", "submit", "post_jobs", "post_invalid", "post_sync", "closed"}

TypeOK ==
    /\ use \in Uses
    /\ asList \in Seq([addr : Addrs, type : Types, valid : BOOLEAN, dumped : BOOLEAN, nents : Nat])
    /\ Len(reg) = Len(asList)
    /\ \A e \in Entries :
          /\ reg[e].live \in BOOLEAN /\ reg[e].gpu \in BOOLEAN /\ reg[e].since \in Nat
          /\ reg[e].nents \in 0..reg[e].nrPages
          /\ reg[e].mapped <= reg[e].nents /\ reg[e].touched <= reg[e].mapped
    /\ syncs \in Seq(Syncs)
    /\ submits \in 0..MaxSubmits
    /\ walk.in \in Walks /\ walk.next \in 0..(MaxAs + 1) /\ walk.header \in BOOLEAN

NoWalk == [in |-> "none", next |-> 0, header |-> FALSE]

(* gr_context_init.                                                        *)
Init ==
    /\ use \in Uses
    /\ asList = << >> /\ reg = << >> /\ syncs = << >>
    /\ submits = 0 /\ walk = NoWalk
    /\ file = << >> /\ syncFile = [count |-> 0, ranges |-> << >>]

Closed == walk.in = "closed"

(* JOB_SUBMIT and POST_TERM calls that have begun.                         *)
Ioctls == IF walk.in \in {"none", "submit"} THEN submits ELSE submits + 1

(* The application's own steps: in serial use it waits for the ioctl.      *)
AppMayRun == walk.in = "none" \/ (use = "threads" /\ ~Closed)

-----------------------------------------------------------------------------
(* kbase_context_mmap and gr_as_add.                                       *)

AsType(m, cnt) ==
    IF ~m.gpuNx THEN "GPU_BINARY"
    ELSE IF cnt > JobFrom /\ m.nrPages = 1 /\ ~m.cpuCached THEN "COMPUTE_JOB"
    ELSE IF m.cpuCached /\ m.gpuCached THEN "INOUT"
    ELSE "UNKNOWN"

IsJob(e) == asList[e].type \in {"COMPUTE_JOB", "GPU_BINARY"}

Live(a) == {e \in Entries : reg[e].live /\ asList[e].addr = a}

(* A region is mapped at a.  The entry is added even when kbase_cpu_mmap   *)
(* failed.                                                                 *)
Mmap(a, m, ok) ==
    /\ AppMayRun /\ Len(asList) < MaxAs
    /\ Live(a) = {}
    /\ use # "reuse" => \A e \in Entries : asList[e].addr # a
    /\ asList' = Append(asList, [addr |-> a, type |-> AsType(m, Len(asList)),
                                 valid |-> FALSE, dumped |-> FALSE, nents |-> m.nents])
    /\ reg' = Append(reg, [live |-> ok, growable |-> m.growable,
                           nrPages |-> m.nrPages, nents |-> m.nents, mapped |-> 0,
                           touched |-> 0, writes |-> 0, gpu |-> FALSE,
                           since |-> Ioctls])
    /\ UNCHANGED <<use, syncs, submits, walk, file, syncFile>>

(* munmap: kbase_cpu_vm_close frees the region, its entry stays.           *)
Munmap(e) ==
    /\ AppMayRun /\ use = "reuse" /\ reg[e].live
    /\ reg' = [reg EXCEPT ![e].live = FALSE]
    /\ UNCHANGED <<use, asList, syncs, submits, walk, file, syncFile>>

(* Faulty variant: the CPU's mapping stays.                                *)
CommitKeepsMapping(e, n) ==
    /\ AppMayRun /\ reg[e].live /\ reg[e].growable
    /\ n <= reg[e].nrPages /\ n # reg[e].nents
    /\ reg' = [reg EXCEPT ![e].nents = n]
    /\ UNCHANGED <<use, asList, syncs, submits, walk, file, syncFile>>

(* kbase_mem_commit: pages are added at the end or taken from there, and   *)
(* the CPU's mapping of those taken is torn down.  Next keeps one page.    *)
Commit(e, n) ==
    /\ AppMayRun /\ reg[e].live /\ reg[e].growable
    /\ n <= reg[e].nrPages /\ n # reg[e].nents
    /\ reg' = [reg EXCEPT ![e].nents = n,
                          ![e].mapped = IF n < @ THEN n ELSE @,
                          ![e].touched = IF n < @ THEN n ELSE @]
    /\ UNCHANGED <<use, asList, syncs, submits, walk, file, syncFile>>

(* The entry that a fault in region e marks: the first one with its        *)
(* addresses (gr_as_add_valid).                                            *)
Marked(e) == CHOOSE f \in Entries :
                /\ asList[f].addr = asList[e].addr
                /\ \A g \in 1..(f - 1) : asList[g].addr # asList[e].addr

(* Faulty variant: the number of pages is that of the first fault.         *)
AddValidFirst(e) ==
    asList' = [asList EXCEPT ![Marked(e)].valid = TRUE,
                             ![Marked(e)].nents = IF asList[Marked(e)].valid THEN @ ELSE reg[e].nents]

AddValid(e) ==
    asList' = [asList EXCEPT ![Marked(e)].valid = TRUE, ![Marked(e)].nents = reg[e].nents]

WritesMade == FoldSeq(LAMBDA r, n : r.writes + n, 0, reg)

(* The CPU writes to page p of region e.  kbase_cpu_vm_fault, called when  *)
(* the page is not mapped, maps all pages that are committed.              *)
Write(e, p) ==
    /\ AppMayRun /\ reg[e].live /\ p <= reg[e].nents
    /\ WritesMade < MaxWrites
    /\ reg' = [reg EXCEPT ![e].mapped = IF p > @ THEN reg[e].nents ELSE @,
                          ![e].touched = IF p > @ THEN p ELSE @,
                          ![e].writes = @ + 1,
                          ![e].since = IF reg[e].writes = 0 THEN Ioctls ELSE @]
    /\ IF p > reg[e].mapped THEN AddValid(e) ELSE UNCHANGED asList
    /\ UNCHANGED <<use, syncs, submits, walk, file, syncFile>>

(* Faulty variant: no look at what is in the list.                         *)
SyncAgain(s) ==
    /\ AppMayRun /\ \E e \in Live(s.addr) : s.size <= reg[e].nrPages
    /\ Len(syncs) < 3
    /\ syncs' = Append(syncs, s)
    /\ UNCHANGED <<use, asList, reg, submits, walk, file, syncFile>>

(* kbase_do_syncset and gr_as_add_sync: a new range goes to the list.      *)
Sync(s) ==
    /\ AppMayRun /\ \E e \in Live(s.addr) : s.size <= reg[e].nrPages
    /\ \A k \in 1..Len(syncs) : syncs[k] # s
    /\ syncs' = Append(syncs, s)
    /\ UNCHANGED <<use, asList, reg, submits, walk, file, syncFile>>

-----------------------------------------------------------------------------
(* The ioctls.                                                             *)

Begin(w) == walk' = [in |-> w, next |-> 1, header |-> FALSE]

(* kbase_api_job_submit.                                                   *)
SubmitBegin ==
    /\ walk.in = "none" /\ submits < MaxSubmits
    /\ submits' = submits + 1 /\ Begin("submit")
    /\ UNCHANGED <<use, asList, reg, syncs, file, syncFile>>

(* kbase_api_post_term.                                                    *)
PostBegin ==
    /\ walk.in = "none" /\ Begin("post_jobs")
    /\ UNCHANGED <<use, asList, reg, syncs, submits, file, syncFile>>

(* Faulty variants: JOB_SUBMIT writes the job chains as well; POST_TERM    *)
(* only what is of the type it asks for.                                   *)
SelectedEarly(e) ==
    CASE walk.in = "submit"       -> asList[e].valid
      [] walk.in = "post_jobs"    -> asList[e].valid /\ IsJob(e)
      [] walk.in = "post_invalid" -> ~asList[e].valid

SelectedJobs(e) ==
    CASE walk.in = "submit"       -> asList[e].valid /\ ~IsJob(e)
      [] walk.in = "post_jobs"    -> asList[e].valid /\ IsJob(e)
      [] walk.in = "post_invalid" -> ~asList[e].valid /\ IsJob(e)

(* gr_dump_mc_valid, gr_dump_mc_invalid and gr_dump_mc_type.               *)
Selected(e) ==
    CASE walk.in = "submit"       -> asList[e].valid /\ ~IsJob(e)
      [] walk.in = "post_jobs"    -> asList[e].valid /\ IsJob(e)
      [] walk.in = "post_invalid" -> ~asList[e].valid

Walking == walk.in \in {"submit", "post_jobs", "post_invalid"}

WalkSkip ==
    /\ Walking /\ walk.next \in Entries /\ ~walk.header
    /\ asList[walk.next].dumped \/ ~Selected(walk.next)
    /\ walk' = [walk EXCEPT !.next = @ + 1]
    /\ UNCHANGED <<use, asList, reg, syncs, submits, file, syncFile>>

(* _gr_dump_mc writes the header of an entry ...                           *)
WalkHeader ==
    /\ Walking /\ walk.next \in Entries /\ ~walk.header
    /\ ~asList[walk.next].dumped /\ Selected(walk.next)
    /\ file' = Append(file, [entry |-> walk.next, valid |-> asList[walk.next].valid,
                             nents |-> asList[walk.next].nents,
                             pages |-> 0, touched |-> 0, writes |-> 0, gpu |-> FALSE])
    /\ walk' = [walk EXCEPT !.header = TRUE]
    /\ UNCHANGED <<use, asList, reg, syncs, submits, syncFile>>

PagesWritten(e) ==
    [file EXCEPT ![Len(file)].pages = IF asList[e].valid THEN asList[e].nents ELSE 0,
                 ![Len(file)].touched = reg[e].touched,
                 ![Len(file)].writes = reg[e].writes,
                 ![Len(file)].gpu = reg[e].gpu]

(* Faulty variant: is_dumped stays as it is.                               *)
WalkPagesNotDumped ==
    /\ Walking /\ walk.header
    /\ file' = PagesWritten(walk.next)
    /\ walk' = [walk EXCEPT !.header = FALSE, !.next = @ + 1]
    /\ UNCHANGED <<use, asList, reg, syncs, submits, syncFile>>

(* ... looks at is_valid and nents again, writes the pages                 *)
(* (gr_dump_phys_pages) and sets is_dumped.                                *)
WalkPages ==
    /\ Walking /\ walk.header
    /\ file' = PagesWritten(walk.next)
    /\ asList' = [asList EXCEPT ![walk.next].dumped = TRUE]
    /\ walk' = [walk EXCEPT !.header = FALSE, !.next = @ + 1]
    /\ UNCHANGED <<use, reg, syncs, submits, syncFile>>

WalkDone(w) == walk.in = w /\ walk.next = Len(asList) + 1

(* kbase_jd_submit: the job may change what the CPU has touched.           *)
SubmitEnd ==
    /\ WalkDone("submit")
    /\ walk' = NoWalk
    /\ reg' = [e \in Entries |-> [reg[e] EXCEPT !.gpu = reg[e].writes > 0]]
    /\ UNCHANGED <<use, asList, syncs, submits, file, syncFile>>

PostJobsEnd ==
    /\ WalkDone("post_jobs") /\ Begin("post_invalid")
    /\ UNCHANGED <<use, asList, reg, syncs, submits, file, syncFile>>

PostInvalidEnd ==
    /\ WalkDone("post_invalid") /\ Begin("post_sync")
    /\ UNCHANGED <<use, asList, reg, syncs, submits, file, syncFile>>

(* gr_dump_sync_as: the number of ranges, then the ranges.                 *)
SyncCount ==
    /\ walk.in = "post_sync" /\ ~walk.header
    /\ syncFile' = [syncFile EXCEPT !.count = Len(syncs)]
    /\ walk' = [walk EXCEPT !.header = TRUE]
    /\ UNCHANGED <<use, asList, reg, syncs, submits, file>>

SyncRanges ==
    /\ walk.in = "post_sync" /\ walk.header
    /\ syncFile' = [syncFile EXCEPT !.ranges = syncs]
    /\ walk' = [NoWalk EXCEPT !.in = "closed"]
    /\ UNCHANGED <<use, asList, reg, syncs, submits, file>>

App ==
    \/ \E a \in Addrs, m \in Mappings :
          \E ok \in IF use = "reuse" THEN BOOLEAN ELSE {TRUE} : Mmap(a, m, ok)
    \/ \E e \in Entries :
          \/ Munmap(e)
          \/ \E n \in 1..reg[e].nrPages : Commit(e, n)
          \/ \E p \in 1..reg[e].nents : Write(e, p)
    \/ \E s \in Syncs : Sync(s)

Recorder ==
    \/ SubmitBegin \/ PostBegin
    \/ WalkSkip \/ WalkHeader \/ WalkPages
    \/ SubmitEnd \/ PostJobsEnd \/ PostInvalidEnd
    \/ SyncCount \/ SyncRanges

Next == App \/ Recorder

Spec == Init /\ [][Next]_vars

-----------------------------------------------------------------------------
Finished(k) == k < Len(file) \/ ~walk.header

(* The replayer can load what the recorder writes: no region is written    *)
(* twice, a valid region has as many pages as its header says and any      *)
(* other none, and as many ranges as the count are in gr_sync_as, each     *)
(* once.  A fault between header and pages breaks the second part, a SYNC  *)
(* between count and ranges the third, so those are for one thread.        *)
FilesLoad ==
    /\ \A j, k \in 1..Len(file) : file[j].entry = file[k].entry => j = k
    /\ use # "threads" =>
          \A k \in 1..Len(file) : Walking /\ Finished(k) =>
             file[k].pages = IF file[k].valid THEN file[k].nents ELSE 0
    /\ Closed /\ use # "threads" =>
          /\ syncFile.count = Len(syncFile.ranges)
          /\ \A j, k \in 1..syncFile.count : syncFile.ranges[j] = syncFile.ranges[k] => j = k

(* Every page that the CPU has touched and that is still committed is      *)
(* among those written, although nents is that of the last fault and       *)
(* regions grow and shrink between faults.                                 *)
TouchedPagesDumped ==
    use # "reuse" => \A k \in 1..Len(file) : Finished(k) => file[k].touched <= file[k].pages

(* "During run time, the user-space runtime adds more compute jobs into    *)
(* memory region" (mali_kbase_core_linux.c:789): a job chain is written    *)
(* with all that was added to it.  Any other region is written before a    *)
(* job could change what the application put there.                        *)
WrittenAtTheRightTime ==
    use = "serial" =>
        \A k \in 1..Len(file) : Finished(k) =>
            IF IsJob(file[k].entry)
            THEN Closed => file[k].writes = reg[file[k].entry].writes
            ELSE ~file[k].gpu

(* What is not in the file when POST_TERM is over was mapped or first      *)
(* touched while it ran, or is no job chain and was first touched after    *)
(* the last JOB_SUBMIT began.                                              *)
NothingMissing ==
    Closed /\ use # "reuse" =>
        \A e \in Entries :
            \/ \E k \in 1..Len(file) : file[k].entry = e
            \/ reg[e].since = submits + 1
            \/ ~IsJob(e) /\ asList[e].valid /\ reg[e].since = submits

(* "mark region is valid after page fault" (gr_defs.h:111), which the code *)
(* does not keep when an address is mapped again: the fault marks the      *)
(* entry of the old region.                                                *)
FaultMarksRegion ==
    \A e \in Entries : reg[e].live /\ reg[e].touched > 0 => asList[e].valid
=============================================================================

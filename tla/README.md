# GPUReplay: models, checks and proofs

GPUReplay records what a GPU driver does to a Mali GPU and replays it without
the driver.  Its own code is small: hooks in the vendored Mali kernel driver
(the *recorder*), a user-space *replayer*, and a *nano driver* that gives the
replayer registers, pages and interrupts.  This directory holds TLA+ models of
that code, the TLC runs that check them on small instances, and TLAPS proofs of
the main safety properties for every value of the constants.  Of ARM's driver
they cover what the recorder depends on: the page tables, the list of mappings
it hooks into, and the assignment of GPU address spaces to contexts.  `PROJECT.json`
lists components, runs, faulty variants (mutants), the lines each definition
models, findings, hazards and theorems.

Run `tlc -workers 2 -config GrReplay.cfg MCGrReplay` to model-check and
`tlapm GrReplayProof.tla` to check proofs.

## 1. Inventory

Paths are relative to `src/`; `<midgard>` is
`Bifrost-kdriver/driver/product/kernel/drivers/gpu/arm/midgard`.

| component | state | operations | talks to |
|---|---|---|---|
| replay engine, `replayer/gr_replay.c` | list of recorded accesses, statics `latest_flush_id`, `jc_lo` | `gr_replay_run`, `reg_read_wait`, `gr_cache_invalidate`, `gr_as_flush`, `gr_js_tune` | GPU registers, manager (poll), checkpoints |
| manager, `replayer/gr_manager.c` | file descriptors | `gr_manager_init/term/poll`, memory requests | nano driver: open, ioctl, poll, close |
| nano driver, device file, `nano_driver/gr_main.c` | `in_use`, the pool pointer | `gr_open`, `gr_release`, `gr_ioctl`, probe, remove | GPU interrupt registers, pool, interrupt layer |
| nano driver, interrupts, `nano_driver/gr_irq.c` | `is_job_irq`, `is_gpu_irq`, requested lines | job, GPU and MMU handlers, poll, install, release | GPU registers, replay thread (through the counters) |
| nano driver, page pool, `nano_driver/gr_mempool.c` | `page_list`, `used_list`, `cur_size`, `tot_size` | init, grow, alloc/remove, term | kernel page allocator, DMA mapping |
| memory loader, `replayer/gr_mem.c` | `gm_region[]`, page table | `gr_mem_contents_init`, `gr_construct_pgt`, `gr_find_region_enclosing_address` | pool (through manager), dump files |
| copies, `replayer/gr_mem.c` | none | `gr_gpu_mem_io` in two directions | loader's regions |
| restore and clean-up, `replayer/gr_utils.c` | none | `gr_clean_used_atom`, `gr_mem_contents_check`, `gr_clean_invalid_region`, `gr_restore_pte` | loader's regions, page table |
| checkpoints, `replayer/gr_checkpoint.c` | static `count` | `gr_write_checkpoint` | replay engine, regions |
| register history, `<midgard>/gr/gr_as.c` and hooks | ring `h->buf`, `h->count` | `gr_io_history_init/add/dump` | every register access of the driver, `kbase_destroy_context` |
| recorded address spaces, `<midgard>/gr/gr_as.c` and hooks | lists of mappings (`as_list`) and of synced ranges | `gr_as_add`, `gr_as_add_valid`, `gr_as_add_sync`, `gr_dump_mc_*`, `gr_dump_sync_as` | mmap, CPU faults, resizing, sync, JOB_SUBMIT and POST_TERM of the driver |
| page table dump and reconstruction, `<midgard>/mmu/mali_kbase_mmu.c`, `gr_as.c`, `gr_mem.c` | the driver's tables, the file, the replayer's tables and `user_pgtable` | insertion and teardown, `gr_mmu_dump`, `kbasep_mmu_dump_level`, `gr_construct_pgt` | POST_TERM, loader's regions |
| address spaces and contexts, `<midgard>/mali_kbase_ctx_sched.c`, `mali_kbase_js.c`, `backend/gpu/mali_kbase_jm_as.c`, `mmu` | `refcount`, `as_nr`, `as_to_kctx`, `as_free`, `submit_allowed` | retain, release, restore, schedule, evict, zap, suspend, reset, fault workers | every job of a recorded context, MMU registers |
| register snapshots and validation, `gr_as.c`, `replayer/gr_validation.c` | snapshot buffers | snapshot, compare | replay engine |

How the parts interact.  The driver gives the recorded context a GPU address
space, records its register accesses in a ring and its mappings in a list, and
writes both, with the page tables, to files.  Nothing else passes from recorder
to replayer.  The replayer opens the device (one process at a
time), loads memory into pages of the pool, and runs one thread that repeats the
recorded accesses.  After each job it polls `is_job_irq`, which the interrupt
handler increments; it treats a few registers specially, because the GPU answers
at another time or because addresses differ.

What is hard here, and what makes each part correct:

* **Thread, handlers and GPU run concurrently.**  The replay must not pass a
  job that is not over, count an event twice, leave one for the next job, or
  wait for one that never comes.  A polling loop and the GPU interrupt handler
  compete for the same completion bit.
* **Process lifetimes.**  A release may overlap the next open; a process may be
  killed with a job running.  One owner at a time; a closed device is silent;
  an owner has its interrupts and only its own events.
* **Failure half-way.**  A page allocation or mapping fails inside a series,
  and the ioctl drops the error.  No page may be freed twice or handed out while
  mapped, and counters must stay true to the lists.
* **Two views of memory.**  The CPU finds a page through `gm_region[]`, the GPU
  through the page table.  They must agree, after loading and after restoring.
* **Boundaries.**  Page splitting, `feof` loops, wait loops at their bound, an
  overflowing counter.
* **Dumps without locks.**  The register history is dumped while power management
  may still access registers, the list of mappings is walked while other threads
  map and fault, the page tables while the driver changes them.
* **When memory is dumped.**  Job chains grow until the end, everything else must
  be written before a job changes it; a region that falls between the two is lost.
* **References counted by many.**  The scheduler, atoms, faults, flushes, suspend
  and zap hold a context in its address space; the last to release it frees the
  space, whoever that is, and a fault worker or a job must not meet another's.

`PROJECT.json` "hazards" has each of these at its line.

## 2. Modules

| module | models | state and actions against the code |
|---|---|---|
| `NanoIrq` | `gr_irq.c` | the interrupt registers of the GPU, both handlers access by access, the two counters.  One action per register access, so thread and GPU run in between. `JobIrqPoll` is `job_irq_poll` |
| `GrReplay` (extends `NanoIrq`) | `gr_replay_run` and what it calls | `pc` is the place in the function, `i` the recorded access.  An action per case of the two switches; the functions called around `JS_COMMAND_NEXT` are split where they access registers.  Jobs, cache clean, MMU flush and reset end at any time (`JobEnds`, `CleanEnds`, `AsFlushEnds`, `ResetEnds`: the GPU, external) |
| `SyncJobs` | what `gr_replay_run` promises its caller | abstract: the positions of the jobs, the round, the job on its way.  `GrReplay` implements it (`Sync`, `JobsInOrder`): a job runs while the slot does, has ended but is not noted while the thread waits |
| `NanoDevice` (extends `NanoIrq`) | `gr_open`, `gr_release`, install and free of the handler, use by processes | `ppc[p]` is where process p is.  `gr_open` runs under misc's mutex, `gr_release` under none; each register access that another process can see in between is a step.  A `request_irq` that fails is printed and forgotten (`refused`): its process owns the device without a handler and may poll for ever (`PollForever`) |
| `Mempool` | `gr_mempool.c`, its ioctls, the replayer's protocol | lists as sets.  An ioctl is one step, since the only process has one thread.  `Grow` drops errors as the ioctl does |
| `MemContents` | `gr_mem_contents_init`, restore functions | pages as values, addresses as page numbers; the `feof` loop with stale header and buffer |
| `MemIo` | `gr_gpu_mem_io` | one transfer per step; bytes, offsets and page counts are exact.  `regionPages` is the length that `gm_end` gives, `nents` that of `pages[]`; an address of no region leads to `gm_region[-1]` (`found`), which may hold anything; `gr_map_page` may exit (`MapFails`) |
| `IoHistory` | `gr_io_history_*` | an access and its record are two steps; the dump has a step for the index and one for the read of every entry |
| `RecorderAs` | `gr_as.c` and the driver functions that call it | `asList` is `as_list`, `reg` the regions behind it.  The walks of the list take two steps per entry, header and pages; mmap, munmap, resizing, CPU writes and syncs run in between when `use` is "threads" |
| `PageTable` | page tables of driver and replayer | the recursions of `kbasep_mmu_dump_level` and `gr_construct_pgt` are stacks of frames, a step for each table and entry; insertion goes down one level per step.  `dump.pc` is "tables" between `gr_mmu_dump` and the dump of the regions (`DumpRegions`), while the driver goes on.  `Follows` is `pte_is_valid`: above the bottom level an entry of the bottom level looks like a link |
| `CtxSched` | contexts and GPU address spaces of the driver | a step is what happens under one hold of `hwaccess_lock`; `sched` is where the scheduler is between two of them.  `refs`, `asNr`, `toKctx`, `free`, `submit` are the code's; `jobs`, `held`, `fault` are the users that hold references (an atom that is over holds its own until it is released); a failed atom takes the permission to submit (`JobFails`), the last atom gives it back (`JobDone`); `hw` is what the registers of an address space hold |

`NanoIrq` is shared: `GrReplay` composes it with one replay in detail,
`NanoDevice` with many processes in outline.  `PageTable` composes the driver's
tables, the recorder's dump, the replayer's loader and the list of regions (as
the set `recorded`).  `MC*` modules give TLC the constants, `*Proof` modules hold
the theorems.  Definitions called "Faulty variant" are mutants: changed forms of
the action after them, which no specification uses; they show that the
properties can fail.

Abstractions.  Register values are names; a job chain is a pair of address
halves; of GPU memory `GrReplay` keeps each chain's status word and whether the
caches hold unwritten data.  Formatting, logging and the parser of the recording
are left out.  `WriteSoftReset` masks interrupts at once and lets
RESET_COMPLETED follow later.  The recordings in `MCGrReplay` have the order of
accesses of `recs/mnist/gr_io_history`, shortened.  In `RecorderAs` the contents
of a region are the number of writes to it and whether a job may have changed it
since; in `PageTable` a physical page is the number of its allocation and the
machine it belongs to.

Assumptions about what is outside the code.  `CtxSched`: the kernel freezes
processes before it suspends the device, so no context is half-way through its
destruction (`SuspendBegin`), and a context is destroyed only when none of its
own system calls is under way (`Unused`); a job that faulted does not end before
the fault worker has dealt with the MMU (`Stuck`, as
`mali_kbase_mmu_jm.c:328` says); the reset worker flushes the fault workers
first.  `PageTable`: no 2 MB pages (`MALI_2MB_ALLOC` is off by default), and a
range is mapped only where nothing is mapped.  `RecorderAs`: JOB_SUBMIT and
POST_TERM do not overlap; mappings, faults, resizes and syncs of other threads overlap both.
`MemIo`: what lies before `gm_region[]` is not a region with pages.

## 3. Runs

Passing runs.  Deadlock is checked everywhere but in `recorder_as`, which is over
when the files are closed and its bounds are used up; `CtxSched` never ends, and
elsewhere an explicit final step marks where the program is over.

| run | states | shows | bounds and why they are enough |
|---|---|---|---|
| `replay` | 336,246 | `JobSync`, `EventMeansDone`: synchronous replay; `FreshJob`: reused chains are reset and run in the replayer's address space; `CheckpointConsistent`; `ReplayCompletes`; `JobsInOrder`: the refinement of `SyncJobs` | two recordings of two jobs (same chain twice, two chains), two runs, checkpoints on and off; wait loops of 4 turns.  A second job and a second run meet everything the first may leave behind; 4 turns leave room to read early, to read late and to have the bit taken by the handler |
| `device` | 215,265 | `ExclusiveOwner`, `QuietWhenClosed` in any use; `OwnerHasInterrupts` with kills; `WaitedForJob`, `EveryReplayEnds` for processes one after the other; `request_irq` may fail | two processes, two starts each, two jobs: every hand-over between processes and between jobs; the variable `use` picks serial use, kills or overlap at the start |
| `mempool` | 638 | `PagesConserved`, `SizesAgree`, `HeldPagesBacked`, `TermReturns`, `NullAfterFailure` | five interchangeable pages, regions of 1 to 3: two regions and a page directory fit, three regions do not |
| `mem_contents` | 1,448 | `GpuSeesDump`, `SameView` | dumps of one to four regions (valid or not, backed in part, two that overlap as in `recs/alexnet`), three runs, copies or restores |
| `mem_io` | 17,739 | `TransfersRight`, `CopyComplete` | every address and size in regions of one to five pages of three bytes, of which any number has memory, and in no region: copies of 0 to 5 pages with any offset, and beyond the end |
| `io_history` | 149,397 | `DumpRecent`, `DumpOrdered` | ring of 3, counter of 6 values, 7 accesses: the ring is exceeded and the counter overflows before, during or after the dump |
| `recorder_as` | 2,124,819 | `FilesLoad`, `TouchedPagesDumped`, `WrittenAtTheRightTime`, `NothingMissing` | two mappings of three kinds (code, job chain, growable data) at two addresses, two writes, two submits: a region before, between and after the submits, touched twice around a resize; serial use, threads, and addresses that are used again |
| `ctx_sched` | 912,740 | `RefsBalance`, `OwnSpace`, `SubmitMeansScheduled`, `Programmed`, `FaultFindsContext`, `NoWarnings` | three contexts for two address spaces, so that one has to be evicted; two atoms each, so that one may be the last or not, and three other references |
| `page_table` | 459,066 | `DumpWhole`, `TablesAreTree`, `SameTranslation`, `RegionsReachable` | three levels of two entries: eight addresses; two insertions of ranges that share tables, cross tables or lie apart, any teardown, before, during and after the dump of the tables.  The fourth level of the code repeats the middle one |

Violation runs: TLC exhibits a disagreement between the code and what the
repository says of it.

| run | property | what happens |
|---|---|---|
| `replay_flush_id` | `FlushIdFromLatestFlush` | the missing `break` after `case AS_STATUS` makes an AS_STATUS value the next job's flush id |
| `device_kill` | `WaitMeansOver` | the job of a killed process ends after the next process is set up, and its event ends that process's first wait |
| `mem_io_two_pages` | `CopyAlwaysComplete` | a copy of exactly two pages drops the second |

Seen while modelling, without a run of their own.  The names that begin
the first ones are definitions in the modules; put into the module's cfg in place of its
properties, TLC refutes each of them:

* `GpuSeesWholeDump` (`MemContents`): the `feof` loop of `gr_mem_contents_init`
  takes a turn too many and maps a second set of pages, filled with the content
  of one page, over the last region of the dump.  In the four recordings in `recs/`
  that region has one page, so that the second set holds the same, and is in no
  synced range: nothing is copied to it.
* The same definition fails where two regions of a dump overlap: the CPU and
  `gr_clean_invalid_region` take the first, the page table the last
  (`gr_mem.c:147`, `gr_utils.c:328`), so restoring the memory zeroes pages that the
  GPU does not see.  `recs/alexnet` has such a pair, both not valid: regions 32 and
  34 of its 64 end at the same address.  `GpuSeesDump` and `SameView` are therefore about addresses
  that one region holds (`OnlyIn`).
* `DumpComplete` (`IoHistory`): an access during the unlocked dump shifts the
  window, and an entry recorded before is missing.
* `FaultMarksRegion` (`RecorderAs`): when an address is mapped again, a fault
  marks the entry of the old region (`gr_as.c:270`), and the new one is dumped as
  never touched.  The properties about touched pages are therefore for addresses
  that are used once.
* `NoContextMeansDisabled` (`CtxSched`): a restore takes the space of an idle
  context but leaves its setup (`mali_kbase_ctx_sched.c:191`); `Programmed`
  shows that no context in use meets it.
* `NoStaleEntries` (`PageTable`): an entry that belongs to no recorded region
  keeps the physical page of the recorded machine.
* A region that the application touches for the first time between the last
  JOB_SUBMIT and POST_TERM is in no file unless it is a job chain (`gr_as.c:642`);
  `NothingMissing` says that this is the only case, but for what appears during
  POST_TERM itself.
* A SYNC or a fault by another thread between two writes of a dump leaves a
  header that does not fit what follows; `FilesLoad` is for one thread in those
  two parts.
* The wait loops before a checkpoint (`gr_replay.c:72`, `:103`) give up silently.
  `CheckpointConsistent` holds only with `Prompt = TRUE`, a GPU that answers
  before they do; with `Prompt = FALSE` TLC finds a checkpoint of stale memory.
* `gm_end` bounds a copy (`gr_mem.c:203`), `nents` the array `pages[]` that it reads
  (`gr_mem.c:295`), and the two differ.  A copy into the part of a region that has no
  memory, or to an address of no region, reads past the array.  `WithinBounds`
  therefore has the condition `Backed`.
* A region that is mapped in POST_TERM after `gr_mmu_dump` and before its
  memory is dumped (`mali_kbase_core_linux.c:785`, `:792`) is in the file of the regions and
  has no table; the replayer reports that it cannot get one.  `raced` covers both dumps, and
  `RegionsReachable` and `SameTranslation` are for those without such a change.
* In a disturbed dump a table of the bottom level may be loaded a level too high;
  the loader follows its entries as links.  `TablesAreTree` says that even so
  it builds a tree, of tables that are not those of the recording.
* The last atom of a context that faulted lets it submit again
  (`mali_kbase_js.c:2419`), before the reference is released that was to schedule it out.
  The context may stay scheduled on an address space that is disabled; it meets no
  tables of another context there (`Programmed`).
* A failing `request_irq` does not fail `gr_open` (`gr_main.c:48`): the process waits
  for its first job for ever.
* `reg_read_wait` (`gr_replay.c:44`) tests its counter before the value of the
  last read and aborts although the bit is clear.
* `gr_release` lowers `in_use` before it masks and frees the interrupts
  (`gr_main.c:62`).  When the next open overlaps, two handlers serve a job and
  count two events, or the new owner is masked and waits for ever.
  `WaitedForJob`, `OwnerHasInterrupts` and `EveryReplayEnds` are therefore
  checked for processes that do not overlap; `ExclusiveOwner` and
  `QuietWhenClosed` hold in any case.
* The pool of a process that ends without TERM is never freed (`lost`).

## 4. Fairness

`GrReplay`: weak fairness of the replay thread (it is scheduled), of each
handler (a level-triggered line stays asserted until it is served), and of the
GPU's own steps (jobs, cleans, flushes and resets end).  `gr_manager_poll` loops
until there is an event, so without the GPU's fairness no replay need end;
with it, `ReplayCompletes` says that no event is lost and that no loop waits for
a bit that is gone.  `NanoDevice`: weak fairness per process, of the handler and
of the job.  `EveryReplayEnds` leaves out a process whose `request_irq` failed: it has
no handler, and its poll never ends.  No strong fairness is assumed.  The other modules claim no
liveness: whether a context waits for ever for an address space depends on how
long other applications run, and the dumps are plain loops.

## 5. Proofs

Every theorem holds for all values of the constants that the modules' named
`ASSUME`s allow.

* **`GrReplayProof`**: `TypeCorrect`, `SynchronousReplay` (`JobSync`),
  `EventAfterCompletion` (`EventMeansDone`), for every recording, number of runs
  and loop bound, prompt GPU or not.  `JobSync` is not inductive: that the event
  taken belongs to a finished job depends on how far the handler is.  `StageInv`
  says so (an active slot excludes pending bits, a running handler and an event;
  `done` is what is pending), and `SyncInv == JobSync /\ StageInv` is inductive.
  `ReplayImplementsSyncJobs` (`JobsInOrder`) is the refinement: `PositionInv`
  adds that the thread waits at a job's own access, and every action is then
  `Start`, `End`, `Note` or `NextRound` of `SyncJobs`, or a stutter.
  `CheckpointsConsistent` (`CheckpointConsistent`) is for a prompt GPU, as its
  hypothesis says; `FlushInv` says which caches are clean after each step of
  `gr_cache_invalidate` and `gr_as_flush`.  `JobsAreFresh` (`FreshJob`) depends on
  the recording: a recording that starts a job without writing its address leaves
  a used chain in the register.  `ProgramsJobs` is the hypothesis, what
  `kbase_job_hw_submit` and `kbase_mmu_hw_configure` do: before each
  `JS_COMMAND_NEXT` both halves of the address are written, the low one first,
  and the page table since the last reset.  All 285 jobs of the four recordings in
  `recs/` have it, and `MCGrReplay` assumes it of its own.  `ProgrammedInv` says
  that after any prefix of a recording the registers hold the last values written.
* **`NanoDeviceProof`**: `OneOwner` (`ExclusiveOwner`) and `ClosedIsQuiet`
  (`QuietWhenClosed`), for any finite set of processes with overlap and kills.
  `DeviceInv` adds who is registered and that an unmasked line or a running
  handler has a process which will undo it.  `ReplayHasInterrupts`
  (`OwnerHasInterrupts`) and `WaitsForOwnJob` (`WaitedForJob`) are for processes
  that do not overlap, as the properties say: `AloneInv` says that one process at a time
  is anywhere, `SerialInv` whose the job in flight is and how far its interrupt has
  got, so that outside a wait nothing is left of a job.  Which processes are without a handler
  since their request failed is part of both (`refused`).  `TypeCorrect` (`TypeOK`)
  has that neither counter goes below zero.
* **`MemoryProof`** (of `Mempool` and `MemIo`): `Conservation`, `SizesCorrect`, `MappedPagesStay`,
  `TermEnds`, `NullsFollowFailures` (`NullAfterFailure`), `CleanExitsReturnAll`
  (`AllReturned`), for any finite set of pages, region sizes and failures.
  `TermEnds` needs `OnlyWanted`: `page_list` holds at most what the process is
  about to fetch, so it is empty at TERM.  `ShortNoted` is the other half: without
  a failed mapping it holds no less, so that no null page is handed out.
  Of the copies, `TransfersCorrect` (`TransfersRight`) and `NothingMissed`
  (`CopyComplete`), for every page size, address and size, in regions of any length and
  with memory for any number of their pages, and in none.  `Position`
  says where the copy stands before each page.  That `pages[]` is not read past its
  end is shown for requests that have memory (`Backed`), which the code does not test.
* **`MemContentsProof`**: `TypeCorrect` (`TypeOK`), `CpuAndGpuAgree` (`SameView`) and
  `GpuFindsRecording` (`GpuSeesDump`), for any dump, addresses and contents, and any
  order of replays, copies and restores.  `RegionsInv` says that the list repeats the
  headers of the file and that no page is in two regions, `EntriesInv` where the page
  table leads for what the loader is past, `ContentInv` what those pages hold while
  nobody has written; the properties speak of the end, the invariants of every turn
  of the loops.  The dumps are assumed to be as the recorder writes them
  (`DumpsAssumption`: `nents` pages behind the header of a valid region).
  `GpuFindsRecording` has the hypothesis `OverlapsBacked`: where a region that is not
  valid overlaps another, both are backed there; otherwise
  `gr_clean_invalid_region` reads beyond the end of an array, which has no model.
  All four recordings have it.  That the first and the last region with an
  address exist is the least-number principle, here from the well-foundedness of
  the natural numbers (`Smallest`, `Largest`).
* **`IoHistoryProof`**: `HistoryDumped` (`DumpRecent`) and `HistoryOrdered`
  (`DumpOrdered`), for every ring size that
  divides the counter's range (2^15 and 2^64 in the code) and any number of
  accesses.  `Ring` relates counter, ring and history modulo the size,
  `Progress` what an undisturbed dump has written; the proof rests on lemmas
  about quotient and remainder.  `OrderInv` is for a disturbed dump: every entry
  written so far has a position in the history, increasing, and none beyond the
  entry that the dump reads next.
* **`CtxSchedProof`**: `ReferencesBalance` (`RefsBalance`), `SpacesAreOwn`
  (`OwnSpace`), `OnlyScheduledSubmit` (`SubmitMeansScheduled`),
  `FaultedContextStays` (`FaultFindsContext`), `TablesOfOwner` (`Programmed`),
  `WarningsNeverRaised` (`NoWarnings`) and `TypesHold`, for any set of contexts
  and any number of address spaces, atoms and references.  None of the
  properties is inductive alone: that a space is its owner's own needs the
  balance of the references, the balance needs that a context out of the runpool
  has no users (`OutMeansUnused`), and that in turn how far the scheduler is
  (`InTransaction`) and that no context dies during a suspend
  (`NoneDiesMeanwhile`).  `TablesLoaded` and `FaultsKnown` are `Programmed` and
  `FaultFindsContext` for contexts that have a number but no reference.  That the last atom of a
  context may let it submit again is sound for the same reason: a context out of the
  runpool has no atoms (`OutMeansUnused`).
  `IInv` joins them; `ReleaseKeeps` and `RetainKeeps` say once what giving up and
  taking a reference preserve, and each action has a lemma.
* **`RecorderAsProof`**: `RecordingLoads` (`FilesLoad`), `TouchedAreDumped`
  (`TouchedPagesDumped`), `DumpedInTime` (`WrittenAtTheRightTime`),
  `OnlyTheLatestMissing` (`NothingMissing`) and `RecorderTyped` (`TypeOK`), for
  any addresses, mappings and numbers of mappings, submits and writes.  The
  properties speak of the file or of the end; the invariant says what holds of
  the list meanwhile: `Written`, which entries are in the file; `FaultsMark`, that
  an entry which is not valid was never written to, and that `nents` covers what
  is mapped; `InTime`, that an undumped region other than a job chain is untouched
  by jobs; `MayMiss`, for each phase of the walks, which entries behind the walk
  may still be undumped.  `AppStep` says what all steps of the application have in
  common, so that each conjunct is shown for them once.
* **`PageTableProof`**: `TypeCorrect` (`TypeOK`), `RebuiltIsTree` (`TablesAreTree`),
  `WholeDump` (`DumpWhole`), `RegionsHaveTables` (`RegionsReachable`) and
  `TranslatesAlike` (`SameTranslation`), for any number of entries and levels and any
  insertions.  `TreeInv` says that the driver's
  tables are a tree (each has a level, one link from a table allocated before it,
  and a link never goes away), `WalkInv` that the stack of the dump is a path in it.
  `FileInv` says in which order the tables are in the file: a child after its parent,
  with nothing but deeper tables between them, and after its elder siblings.  `StoreInv`
  says which tables are there: the child of every link that the walk is past, unless the
  buffer was full.  These hold of every file the recorder can write, of a disturbed
  dump, too; `QuietInv` adds what an undisturbed one has.
  Of the loader, `LoadInv` says of any file that a call is at the level of its place on
  the stack and has something left to follow while another runs above it; with
  the level test of `Follows` the recursion ends at the bottom level.
  `RebuiltIsTree` rests on `Rebuilt`, which does not look at the file either: whatever
  a call has followed, link or entry of the bottom level, leads to a page made for
  it, one level down, and the CPU's pointer goes with it.
  `WholeDump` needs no induction over the tree: of the tables that
  were not stored the one allocated first would be linked by a stored one, and as many
  places as tables, each with another table, leave none out (`Counted`).

  The last two theorems compare walks through three sets of tables: the driver's, the
  replayer's and the CPU's pointers.  A walk is a recursive function of the level;
  that there is one with the given equations is proved once, by induction over the
  levels (`Recursion`, from the library's well-founded sets through `Upwards`), and
  `Walk`, `UserWalk` and `ClosedWalk` give the equations.  `ReachInv`: every recorded
  address has a table of the bottom level in the driver's tables, and the insertion
  under way is on the way to its address.  It is kept because links stay
  (`WayStays`), because the entries of one `InsertEntries` belong to addresses with the same
  upper digits (`SameTable`), and because neither teardown nor failure recovery takes a
  link back.  `QuietLoad`: after an undisturbed dump the replayer's table k is made of
  the k-th table of the file, what its call has passed is copied, and the call above is
  for the first link that is not.  Then every table is met at its own level (`SameLevel`), so that what the loader
  follows are links, and the next table of the file is deeper than all calls on the
  stack (`NextBelow`).  `NextIsChild`, that it is the child of the next link: it
  has a parent earlier in the file; the calls that have returned have
  followed all their links, a caller is too high to be the parent, and of the links of the
  call on top the first comes first in the file.  Hence `SameSteps`: at every level
  the three walks for an address are at the same table or have all ended.
  `gr_mem_contents_init` then changes entries of the bottom level only, and that it
  changes the entry of no other address is `SameUpper` (a table has one way down to it) with
  `SameDigits` (an address is given by its indices).  The module assumes the defining
  equations of `^` (`PowersAssumption`), of which the provers know nothing.

The type invariants of `GrReplay` and `CtxSched` are proved and not among the runs'
properties; those of `Mempool`, `MemIo` and `IoHistory` are part of the proved
invariants `PoolInvariant`, `CopyInvariant` and `RingInvariant`.

Only model-checked: the liveness properties `ReplayCompletes` and
`EveryReplayEnds`, since fairness and ENABLED are beyond the prover.  All other
properties of the passing runs are theorems.
No module declares a recursive operator.

## 6. Not modelled

* Most of ARM's driver (some 87,000 of the repository's 91,000 lines of C):
  vendored code for queues and dependencies of atoms, job slots, power policies,
  memory pools, hardware counters, tracepoints and its own tests.  It is neither
  this program's logic nor within reach of a model that stays faithful to it; what
  is modelled of it is the part the recorder depends on: page tables, mappings,
  the reference counts of contexts and the assignment of address spaces.
  Privileged contexts (hardware counters) are left out of `CtxSched`, and with
  them what `kbasep_js_runpool_release_ctx_internal` does for a privileged context that
  is left without jobs.
* The kernel modules beside the driver: vendored, unchanged.
* Probe, remove and register mapping of the nano driver: run once, before and
  after everything here.
* `GR_IOCTL_MEM_SYNC`, `gr_hw.c`: one cache operation or register access, no
  state; accesses are steps of the modules that make them.
* The MMU handler of the nano driver: it leaves every register and counter as it
  was.
* The wait queue: nobody sleeps on it, the poll timeout is 0.
* The parser of the recording, `gr_rctx_init`, `gr_mem_init`,
  `gr_sync_as_init`, `gr_context_term` and their counterparts: sequential set-up
  and tear-down.
* Register snapshots and validation: built only with `CONFIG_GR_REG_SNAPSHOT`,
  and `gr_is_same_regmap` returns 1 in any case.
* Reads of freed or foreign memory: pages beyond a shrunk allocation
  (`gr_as.c:519`), list entries freed during a walk (`gr_as.c:204`), an
  uninitialised `user_pgtable` (`gr_mem.c:379`).  Their values have no model.
* Printing, measurement, test programs (the latter fix the order of calls).

## 7. Plan

Done: all modules of section 2 and the proofs of section 5.  What could follow, in
order of importance:

1. Privileged contexts in `CtxSched`, then job slots and the queues of atoms in a
   module above it.
2. `NanoDevice` and `Mempool` together: the pool of a killed process and the
   next owner.

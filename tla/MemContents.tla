---------------------------- MODULE MemContents ----------------------------
(***************************************************************************)
(* The replayer's GPU memory: gr_mem_contents_init (gr_mem.c) loads the    *)
(* recorder's dump into fresh pages and points the page table at them, and *)
(* between two replays the caller copies data in and out and may restore   *)
(* contents and page table (gr_utils.c).                                   *)
(*                                                                         *)
(* Memory is seen twice.  The GPU goes through the page table; the CPU     *)
(* goes through gm_region[], the list of loaded regions.  Addresses are    *)
(* page numbers, the content of a page is one value, and the pages that    *)
(* GROW and GET_PAGES return are new ones (module Mempool).  Copies are    *)
(* whole pages here; how they are split is in MemIo.                       *)
(***************************************************************************)
EXTENDS Naturals, Sequences

CONSTANTS
    Dumps,    \* gr_mem_contents files to choose from
    Vpns,     \* GPU page numbers
    Content,  \* what the recorded pages hold
    MaxRuns   \* replays and maintenance calls after loading

Written == {"zero", "input", "gpu"}

Region == [start : Vpns, end : Nat, nents : Nat, valid : BOOLEAN, data : Seq(Content)]

Encloses(r, v) == r.start <= v /\ v < r.end

(* A file as the recorder writes it: a header per mapping, and behind it,  *)
(* if the region is valid, nents pages (gr_dump_phys_pages).               *)
WellFormed(d) ==
    \A g \in 1..Len(d) :
        /\ \A v \in d[g].start..(d[g].end - 1) : v < d[g].start + d[g].nents => v \in Vpns
        /\ d[g].valid =>
              \A k \in 1..d[g].nents : k <= d[g].end - d[g].start => k <= Len(d[g].data)

ASSUME DumpsAssumption ==
    /\ Vpns \subseteq Nat
    /\ \A d \in Dumps : d \in Seq(Region) /\ d # << >> /\ WellFormed(d)
ASSUME RunsAssumption == MaxRuns \in Nat

VARIABLES
    dump,      \* the file
    phase,     \* "header", "pages", "ready"
    cur,       \* which region of the file the loader is in
    feof,      \* end-of-file flag of mc_fp
    pageCnt,   \* page_cnt
    buf,       \* buf, which keeps its content from one page to the next
    gmRegion,  \* rctx->gm_region, with the pages of each region
    pgt,       \* last level of the page table: page number to page
    mem,       \* content of the physical pages handed out so far
    runs,      \* replays and maintenance calls left
    fresh      \* GPU memory is as it was recorded: no run or copy since

loadVars == <<dump, cur, feof, pageCnt, buf>>
vars     == <<loadVars, phase, gmRegion, pgt, mem, runs, fresh>>

NoPage == 0

(* The pages of a region that are backed by memory: "region size is        *)
(* different from the size of allocated memory" (gr_mem.c:293).            *)
Backed(r) == {v \in Vpns : v >= r.start /\ v < r.end /\ v < r.start + r.nents}

TypeOK ==
    /\ dump \in Dumps
    /\ phase \in {"header", "pages", "ready"}
    /\ cur \in 0..(Len(dump) + 1)
    /\ feof \in BOOLEAN /\ fresh \in BOOLEAN
    /\ pageCnt \in Nat /\ runs \in 0..MaxRuns
    /\ buf \in Content \cup {"zero"}
    /\ mem \in Seq(Content \cup Written)
    /\ pgt \in [Vpns -> 0..Len(mem)]
    /\ \A g \in 1..Len(gmRegion) :
          \A k \in 1..Len(gmRegion[g].pages) : gmRegion[g].pages[k] \in 1..Len(mem)

Init ==
    /\ dump \in Dumps
    /\ phase = "header" /\ cur = 0 /\ feof = FALSE /\ pageCnt = 0 /\ buf = "zero"
    /\ gmRegion = << >> /\ pgt = [v \in Vpns |-> NoPage] /\ mem = << >>
    /\ runs = MaxRuns /\ fresh = TRUE

-----------------------------------------------------------------------------
(* gr_mem_contents_init.                                                   *)

AtEnd == cur > Len(dump)

(* The header that the loop's variables hold: at the end of the file the   *)
(* freads leave them with the header of the last region.                   *)
HeaderAt(n) == dump[IF n > Len(dump) THEN Len(dump) ELSE n]
Header == HeaderAt(cur)

(* A region with the header r and the pages after the first n.             *)
NewRegion(r, n) ==
    [start |-> r.start, end |-> r.end, nents |-> r.nents, valid |-> r.valid,
     pages |-> [k \in 1..r.nents |-> n + k]]

(* Faulty variant: the pool grows by one page too few.                     *)
ReadHeaderShort ==
    /\ phase = "header" /\ ~feof
    /\ cur' = cur + 1
    /\ feof' = (cur + 1 > Len(dump))
    /\ mem' = mem \o [k \in 1..(HeaderAt(cur + 1).nents - 1) |-> "zero"]
    /\ gmRegion' = Append(gmRegion, NewRegion(HeaderAt(cur + 1), Len(mem)))
    /\ pageCnt' = 0 /\ phase' = "pages"
    /\ UNCHANGED <<dump, buf, pgt, runs, fresh>>

(* One turn of the loop over the regions: read a header, add a region and  *)
(* get its pages.  feof is true only once a read has failed, so there is a *)
(* turn after the last region, with the values of the last region.         *)
ReadHeader ==
    /\ phase = "header" /\ ~feof
    /\ cur' = cur + 1
    /\ feof' = (cur + 1 > Len(dump))
    /\ mem' = mem \o [k \in 1..HeaderAt(cur + 1).nents |-> "zero"]
    /\ gmRegion' = Append(gmRegion, NewRegion(HeaderAt(cur + 1), Len(mem)))
    /\ pageCnt' = 0 /\ phase' = "pages"
    /\ UNCHANGED <<dump, buf, pgt, runs, fresh>>

NewPage == gmRegion[Len(gmRegion)].pages[pageCnt + 1]

PagesLeft == pageCnt < Header.nents /\ Header.start + pageCnt < Header.end

(* One turn of the loop over its pages: the content, if the region was     *)
(* valid, goes to the new page and the page table entry points to it.      *)
LoadPage ==
    /\ phase = "pages" /\ PagesLeft
    /\ buf' = IF Header.valid /\ ~AtEnd THEN Header.data[pageCnt + 1] ELSE buf
    /\ mem' = IF Header.valid THEN [mem EXCEPT ![NewPage] = buf'] ELSE mem
    /\ pgt' = [pgt EXCEPT ![Header.start + pageCnt] = NewPage]
    /\ pageCnt' = pageCnt + 1
    /\ UNCHANGED <<dump, cur, feof, phase, gmRegion, runs, fresh>>

EndOfRegion ==
    /\ phase = "pages" /\ ~PagesLeft
    /\ phase' = IF feof THEN "ready" ELSE "header"
    /\ UNCHANGED <<loadVars, gmRegion, pgt, mem, runs, fresh>>

-----------------------------------------------------------------------------
(* gr_find_region_enclosing_address: the first region that encloses v.     *)
Enclosing(v) ==
    CHOOSE g \in 1..Len(gmRegion) :
        /\ Encloses(gmRegion[g], v)
        /\ \A h \in 1..(g - 1) : ~Encloses(gmRegion[h], v)

CpuPage(v) == gmRegion[Enclosing(v)].pages[(v - gmRegion[Enclosing(v)].start) + 1]

Loaded == UNION {Backed(gmRegion[g]) : g \in 1..Len(gmRegion)}

Use == runs > 0 /\ runs' = runs - 1

(* gr_copy_to_gpu of a page.                                               *)
CopyIn(v) ==
    /\ phase = "ready" /\ Use
    /\ mem' = [mem EXCEPT ![CpuPage(v)] = "input"]
    /\ fresh' = FALSE
    /\ UNCHANGED <<loadVars, phase, gmRegion, pgt>>

(* A replay: the GPU writes some page through the page table.              *)
GpuRun(v) ==
    /\ phase = "ready" /\ Use
    /\ mem' = [mem EXCEPT ![pgt[v]] = "gpu"]
    /\ fresh' = FALSE
    /\ UNCHANGED <<loadVars, phase, gmRegion, pgt>>

(* gr_mem_contents_check reads the file again and writes every page of a   *)
(* valid region that differs (and those after it) back; the turn at the    *)
(* end of the file compares the extra region with the last content read.   *)
ContentsAfterCheck ==
    [p \in 1..Len(mem) |->
        LET owner == CHOOSE g \in 1..Len(gmRegion) :
                        \E k \in 1..Len(gmRegion[g].pages) : gmRegion[g].pages[k] = p
            r == gmRegion[owner]
            k == CHOOSE k \in 1..Len(r.pages) : r.pages[k] = p
        IN  IF ~r.valid \/ k > r.end - r.start THEN mem[p]
            ELSE IF owner <= Len(dump) THEN dump[owner].data[k]
            ELSE buf]

(* gr_clean_invalid_region zeroes the regions that were not valid, by      *)
(* their addresses: each copy goes to the first region that encloses it.   *)
ContentsAfterClean(m) ==
    [p \in 1..Len(m) |->
        IF \E g \in 1..Len(gmRegion) :
              ~gmRegion[g].valid /\ \E v \in Backed(gmRegion[g]) : CpuPage(v) = p
        THEN "zero" ELSE m[p]]

(* Faulty variant: only gr_mem_contents_check is called.                   *)
RestoreMemoryPartly ==
    /\ phase = "ready" /\ Use
    /\ mem' = ContentsAfterCheck
    /\ fresh' = TRUE
    /\ UNCHANGED <<loadVars, phase, gmRegion, pgt>>

(* The two of them, as the test programs have them between two runs.       *)
RestoreMemory ==
    /\ phase = "ready" /\ Use
    /\ mem' = ContentsAfterClean(ContentsAfterCheck)
    /\ fresh' = TRUE
    /\ UNCHANGED <<loadVars, phase, gmRegion, pgt>>

(* Faulty variant: every entry of a region gets its first page.            *)
RestorePteFirst ==
    /\ phase = "ready" /\ Use
    /\ pgt' = [v \in Vpns |->
                 IF v \in Loaded THEN gmRegion[Enclosing(v)].pages[1] ELSE pgt[v]]
    /\ UNCHANGED <<loadVars, phase, gmRegion, mem, fresh>>

(* gr_restore_pte writes the entries of every region again, in order, so   *)
(* that the last region to hold an address decides.                        *)
RestorePte ==
    /\ phase = "ready" /\ Use
    /\ pgt' = [v \in Vpns |->
                 IF v \notin Loaded THEN pgt[v]
                 ELSE LET last == CHOOSE g \in 1..Len(gmRegion) :
                                     /\ v \in Backed(gmRegion[g])
                                     /\ \A h \in (g + 1)..Len(gmRegion) : v \notin Backed(gmRegion[h])
                      IN  gmRegion[last].pages[(v - gmRegion[last].start) + 1]]
    /\ UNCHANGED <<loadVars, phase, gmRegion, mem, fresh>>

Load == ReadHeader \/ LoadPage \/ EndOfRegion

Done == phase = "ready" /\ runs = 0 /\ UNCHANGED vars

Next ==
    \/ Load \/ RestoreMemory \/ RestorePte \/ Done
    \/ \E v \in Loaded : CopyIn(v) \/ GpuRun(v)

Spec == Init /\ [][Next]_vars

-----------------------------------------------------------------------------
Recorded(g, v) ==
    IF dump[g].valid THEN dump[g].data[(v - dump[g].start) + 1] ELSE "zero"

(* What the GPU finds at v.                                                *)
GpuSees(v) == mem[pgt[v]]

AllButLast == 1..(Len(dump) - 1)

(* No other region of the dump holds v.  One of the recordings in recs/    *)
(* has two regions that overlap.                                           *)
OnlyIn(g, v) == \A h \in 1..Len(dump) : Encloses(dump[h], v) => h = g

(* Where the pages of a region that is not valid lie in another region,    *)
(* that one has pages there, so that gr_clean_invalid_region finds one.    *)
OverlapsBacked(d) ==
    \A h \in 1..Len(d) : ~d[h].valid =>
        \A v \in Backed(d[h]) : \A g \in 1..Len(d) : Encloses(d[g], v) => v \in Backed(d[g])

(* "allocates new pages for the region and copy into them the original     *)
(* contents dumped from the driver" (gr_mem.c:251): before a replay the    *)
(* GPU finds in every region what was recorded, zeroes where nothing was,  *)
(* after loading and again after the memory was restored (gr_utils.c:345,  *)
(* "clean all the mem contents for subsequent replay").  For every region  *)
(* but the last of the dump, where it shares no address with another.      *)
GpuSeesDump ==
    phase = "ready" /\ fresh =>
        \A g \in AllButLast : \A v \in Backed(dump[g]) :
            OnlyIn(g, v) => GpuSees(v) = Recorded(g, v)

(* The same for all regions, which the code does not keep: the last turn   *)
(* of the loop maps pages with the content of one page over the last, and  *)
(* of two regions that overlap only one is restored.                       *)
GpuSeesWholeDump ==
    phase = "ready" /\ fresh =>
        \A g \in 1..Len(dump) : \A v \in Backed(dump[g]) : GpuSees(v) = Recorded(g, v)

(* CPU and GPU mean the same page by an address, so that what              *)
(* gr_copy_to_gpu writes is what the job reads, and gr_copy_from_gpu       *)
(* returns what the job wrote.  For every region but the last of the dump, *)
(* where it shares no address with another.                                *)
SameView ==
    phase = "ready" =>
        \A g \in AllButLast : \A v \in Backed(dump[g]) : OnlyIn(g, v) => CpuPage(v) = pgt[v]

-----------------------------------------------------------------------------
(* What holds while the file is loaded, from which the properties follow.  *)

(* The regions read so far have the headers of the file and pages that no  *)
(* other region has, in order.                                             *)
RegionsInv ==
    /\ Len(gmRegion) = cur
    /\ feof <=> AtEnd
    /\ phase = "ready" => AtEnd
    /\ phase = "pages" => cur > 0
    /\ \A g \in 1..cur : \E n \in 0..Len(mem) :
          n + HeaderAt(g).nents <= Len(mem) /\ gmRegion[g] = NewRegion(HeaderAt(g), n)
    /\ \A g, h \in 1..cur : g < h =>
          \A k \in DOMAIN gmRegion[g].pages : \A l \in DOMAIN gmRegion[h].pages :
              gmRegion[g].pages[k] < gmRegion[h].pages[l]

(* The loader is past page v of region g.                                  *)
Past(g, v) == g < cur \/ (g = cur /\ (phase # "pages" \/ v < Header.start + pageCnt))

(* The page of region g for v.                                             *)
PageOf(g, v) == gmRegion[g].pages[(v - gmRegion[g].start) + 1]

(* The page table leads to the region's own pages.                         *)
EntriesInv ==
    \A g \in AllButLast : g <= cur =>
        \A v \in Backed(gmRegion[g]) : OnlyIn(g, v) /\ Past(g, v) => pgt[v] = PageOf(g, v)

(* They hold what was recorded, as long as nobody has written to them.     *)
ContentInv ==
    fresh => \A g \in AllButLast : g <= cur =>
        \A v \in Backed(gmRegion[g]) : OnlyIn(g, v) =>
            mem[PageOf(g, v)] = IF Past(g, v) THEN Recorded(g, v) ELSE "zero"

(* Every page belongs to a region.                                         *)
PagesInv ==
    \A p \in 1..Len(mem) : \E g \in 1..cur :
        \E k \in DOMAIN gmRegion[g].pages : gmRegion[g].pages[k] = p
=============================================================================

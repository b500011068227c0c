------------------------------- MODULE MemIo -------------------------------
(***************************************************************************)
(* gr_gpu_mem_io (gr_mem.c): a copy between a buffer of the caller and GPU *)
(* memory, split into one transfer per page because the pages of a region  *)
(* are not contiguous.  gr_copy_to_gpu and gr_copy_from_gpu differ only in *)
(* the direction of the transfers.                                         *)
(*                                                                         *)
(* A transfer moves len bytes between the buffer, from byte buf on, and    *)
(* page number page of the region, from its byte off on.                   *)
(*                                                                         *)
(* Two lengths must not be taken for one another: gm_end, which the copy   *)
(* is checked against, and nents, the entries of pages[], which it reads   *)
(* ("region size is different from the size of allocated memory").  What   *)
(* it reads past the end of pages[] is no page of the region: gr_map_page  *)
(* exits, or the transfer goes wherever the entry points.                  *)
(***************************************************************************)
EXTENDS Naturals

CONSTANTS
    PageSize,  \* PAGE_SIZE, in bytes
    MaxPages   \* bound on the pages of a region

ASSUME PageSizeAssumption == PageSize \in Nat \ {0}
ASSUME RegionAssumption == MaxPages \in Nat \ {0}

VARIABLES
    found,       \* gr_find_region_enclosing_address found a region
    regionPages, \* pages from gm_start to gm_end
    nents,       \* nr_pages: entries of pages[], the pages with memory
    pageOffset,  \* page_offset: page of the region that gaddr lies in
    offset,      \* offset: gaddr within that page
    total,       \* the size the caller asked for
    pc,          \* "first", "middle", "last", "done", or "bug" (xzl_bug_on_msg)
    i,           \* loop variable of the middle pages
    size,        \* bytes left
    copied,      \* how far buf has been advanced, and the last transfer
    transfers    \* the transfers made

inputs   == <<found, regionPages, nents, pageOffset, offset, total>>
copyVars == <<inputs, pc, i, size, copied, transfers>>

Transfer == [page : Nat, off : Nat, buf : Nat, len : Nat]

CopyTypeOK ==
    /\ found \in BOOLEAN
    /\ regionPages \in 1..MaxPages /\ nents \in 0..MaxPages
    /\ pageOffset \in 0..(MaxPages - 1)
    /\ offset \in 0..(PageSize - 1)
    /\ total \in Nat
    /\ pc \in {"first", "middle", "last", "done", "bug"}
    /\ i \in Nat /\ size \in Nat /\ copied \in Nat
    /\ transfers \in SUBSET Transfer

(* page_count = (offset + size + (PAGE_SIZE - 1)) >> PAGE_SHIFT.           *)
PageCount == (offset + total + (PageSize - 1)) \div PageSize

(* Any address and size may be asked for.  A region may have memory for    *)
(* its first pages only.  For an address of no region the search gives -1, *)
(* and gm_region[-1] is what lies before the array: any gm_start and       *)
(* gm_end, and no pages.                                                   *)
CopyInit ==
    /\ found \in BOOLEAN
    /\ regionPages \in 1..MaxPages
    /\ nents \in 0..(IF found THEN regionPages ELSE 0)
    /\ pageOffset \in 0..(IF found THEN regionPages - 1 ELSE MaxPages - 1)
    /\ offset \in 0..(PageSize - 1)
    /\ total \in 0..(MaxPages * PageSize + 1)
    /\ pc = "first" /\ i = 1 /\ size = total /\ copied = 0 /\ transfers = {}

Move(page, off, len) ==
    /\ transfers' = transfers \cup {[page |-> page, off |-> off, buf |-> copied, len |-> len]}
    /\ copied' = copied + len
    /\ size' = size - len

(* "cannot read/write exceeding the end of vm".                            *)
BeyondEnd ==
    /\ pc = "first"
    /\ regionPages * PageSize < pageOffset * PageSize + offset + total
    /\ pc' = "bug"
    /\ UNCHANGED <<inputs, i, size, copied, transfers>>

(* The first page: sz = min(PAGE_SIZE - offset, size).                     *)
FirstPage ==
    /\ pc = "first"
    /\ regionPages * PageSize >= pageOffset * PageSize + offset + total
    /\ Move(pageOffset, offset, IF PageSize - offset < size THEN PageSize - offset ELSE size)
    /\ pc' = "middle"
    /\ UNCHANGED <<inputs, i>>

InMiddle == PageCount > 2 /\ i < PageCount - 1

(* Faulty variant: the middle pages start again at page_offset.            *)
MiddlePageBehind ==
    /\ pc = "middle" /\ InMiddle
    /\ Move((pageOffset + i) - 1, 0, PageSize)
    /\ i' = i + 1
    /\ UNCHANGED <<inputs, pc>>

MiddlePage ==
    /\ pc = "middle" /\ InMiddle
    /\ Move(pageOffset + i, 0, PageSize)
    /\ i' = i + 1
    /\ UNCHANGED <<inputs, pc>>

MiddlePagesDone ==
    /\ pc = "middle" /\ ~InMiddle
    /\ pc' = "last"
    /\ UNCHANGED <<inputs, i, size, copied, transfers>>

(* Faulty variant: what is left for the last page is not transferred.      *)
LastPageSkipped ==
    /\ pc = "last"
    /\ pc' = "done"
    /\ UNCHANGED <<inputs, i, size, copied, transfers>>

(* The last page, "if (page_count > 2 && size)".                           *)
LastPage ==
    /\ pc = "last"
    /\ \/ PageCount > 2 /\ size > PageSize /\ pc' = "bug" /\ UNCHANGED <<size, copied, transfers>>
       \/ /\ PageCount > 2 /\ size \in 1..PageSize /\ pc' = "done"
          /\ Move((pageOffset + PageCount) - 1, 0, size)
       \/ ~(PageCount > 2 /\ size > 0) /\ pc' = "done" /\ UNCHANGED <<size, copied, transfers>>
    /\ UNCHANGED <<inputs, i>>

(* gr_map_page exits instead of a transfer: the entry of pages[] is no     *)
(* page address, or the page cannot be mapped.                             *)
MapFails ==
    /\ \/ pc = "first" /\ regionPages * PageSize >= pageOffset * PageSize + offset + total
       \/ pc = "middle" /\ InMiddle
       \/ pc = "last" /\ PageCount > 2 /\ size \in 1..PageSize
    /\ pc' = "bug"
    /\ UNCHANGED <<inputs, i, size, copied, transfers>>

Finished == pc \in {"done", "bug"} /\ UNCHANGED copyVars

CopyNext ==
    \/ BeyondEnd \/ FirstPage \/ MiddlePage \/ MiddlePagesDone \/ LastPage
    \/ MapFails \/ Finished

CopySpec == CopyInit /\ [][CopyNext]_copyVars

-----------------------------------------------------------------------------
(* Every transfer meets the byte of the region that its byte of the buffer *)
(* stands for, and stays in its page: gr_read_phys and gr_write_phys map   *)
(* one page and copy len bytes from it.                                    *)
RightPlace ==
    \A t \in transfers :
        /\ t.page * PageSize + t.off = pageOffset * PageSize + offset + t.buf
        /\ t.off + t.len <= PageSize

(* The request lies in the pages that have memory, its first page too if   *)
(* it is empty.                                                            *)
Backed ==
    /\ pageOffset < nents
    /\ pageOffset * PageSize + offset + total <= nents * PageSize

(* The check of gm_end (gr_mem.c:203) keeps a copy out of the pages behind *)
(* its region, and the caller's buffer is never passed.  pages[] is not    *)
(* read past its end if the caller asks only for pages with memory: that   *)
(* is up to the caller, gm_end may lie behind them.                        *)
WithinBounds ==
    \A t \in transfers :
        /\ t.buf + t.len <= total
        /\ found => t.page < regionPages
        /\ Backed => t.page < nents

(* The whole request is transferred, unless it spans exactly two pages.    *)
CopyComplete == pc = "done" /\ PageCount # 2 => copied = total

(* "[last page] read/write larger than a single page" (gr_mem.c:232) is    *)
(* never the reason for a bug.                                             *)
LastFitsPage == pc = "last" /\ PageCount > 2 => size <= PageSize

(* Each transfer of a copy is at its place, within its page, its region,   *)
(* the buffer and, for a request that has memory, pages[]; the assertion   *)
(* before the last page holds.                                             *)
TransfersRight == RightPlace /\ WithinBounds /\ LastFitsPage

(* What makes those above inductive: where the copy stands, in bytes,      *)
(* before each page.                                                       *)
Position ==
    /\ copied + size = total
    /\ i >= 1
    /\ found => pageOffset < regionPages
    /\ pc = "first" => copied = 0 /\ i = 1 /\ transfers = {}
    /\ pc \in {"middle", "last"} =>
          /\ pageOffset * PageSize + offset + total <= regionPages * PageSize
          /\ PageCount > 2 => i + 1 <= PageCount /\ copied + offset = i * PageSize
          /\ PageCount < 2 => size = 0
    /\ pc = "last" /\ PageCount > 2 => i + 1 = PageCount
    /\ pc = "done" /\ PageCount # 2 => size = 0

(* The whole request is transferred (gr_mem.c:240-245: "Copy data"), if    *)
(* there is memory for all of it.                                          *)
CopyAlwaysComplete == pc = "done" /\ Backed => copied = total
=============================================================================

------------------------------ MODULE Mempool ------------------------------
(***************************************************************************)
(* The page pool of the nano driver (nano_driver/gr_mempool.c), the ioctls *)
(* that reach it (gr_main.c) and the protocol by which the replayer uses   *)
(* them (gr_manager.c, gr_mem.c): INIT when it starts, GROW by n followed  *)
(* by GET_PAGES of n for every region, GET_PAGE for every page directory,  *)
(* TERM and close when it exits.  A killed process closes without TERM.    *)
(*                                                                         *)
(* in_use lets one process at a time in (module NanoDevice), and that      *)
(* process has one thread, so an ioctl is one step.  The pool's two lists  *)
(* are sets: which free page a list hands out first is of no consequence.  *)
(***************************************************************************)
EXTENDS Naturals, FiniteSets

CONSTANTS
    Pages,     \* the physical pages the kernel can give to the driver
    Requests,  \* numbers of pages a region may need
    Failures   \* what may go wrong: "dma", "oom", "kill"

ASSUME PagesAssumption == IsFiniteSet(Pages)
ASSUME RequestsAssumption == Requests \subseteq Nat \ {0}
ASSUME FailuresAssumption == Failures \subseteq {"dma", "oom", "kill"}

VARIABLES
    session,   \* "closed", "open", or "hung" in gr_mempool_term
    want,      \* pages grown for a region and not fetched yet
    held,      \* physical addresses the process maps or points its GPU at
    gotNull,   \* some physical address it got is page_to_phys(NULL)
    short,     \* a GROW or GET_PAGE of it got fewer pages than it asked for
    broken,    \* some process ended without TERM
    free,      \* pages the kernel has
    pageList,  \* pool->page_list
    usedList,  \* pool->used_list
    curSize,   \* pool->cur_size
    totSize,   \* pool->tot_size
    lost       \* pages of a pool that no pointer leads to any more

userVars == <<session, want, held, gotNull, short, broken>>
poolVars == <<free, pageList, usedList, curSize, totSize, lost>>
vars     == <<userVars, poolVars>>

PoolTypeOK ==
    /\ {free, pageList, usedList, lost} \subseteq SUBSET Pages
    /\ curSize \in Nat
    /\ totSize \in Nat

UserTypeOK ==
    /\ session \in {"closed", "open", "hung"}
    /\ want \in Requests \cup {0}
    /\ held \in SUBSET Pages
    /\ gotNull \in BOOLEAN
    /\ short \in BOOLEAN
    /\ broken \in BOOLEAN

TypeOK == PoolTypeOK /\ UserTypeOK

Init ==
    /\ session = "closed" /\ want = 0 /\ held = {}
    /\ gotNull = FALSE /\ short = FALSE /\ broken = FALSE
    /\ free = Pages /\ pageList = {} /\ usedList = {} /\ curSize = 0 /\ totSize = 0
    /\ lost = {}

-----------------------------------------------------------------------------
(* GR_MEMPOOL_INIT, on open: a new pool; nothing frees the one before it.  *)
PoolInit ==
    /\ session = "closed"
    /\ session' = "open" /\ want' = 0 /\ held' = {}
    /\ gotNull' = FALSE /\ short' = FALSE
    /\ lost' = lost \cup pageList \cup usedList
    /\ pageList' = {} /\ usedList' = {} /\ curSize' = 0 /\ totSize' = 0
    /\ UNCHANGED <<broken, free>>

(* gr_mempool_grow adds the pages S: n of them, or fewer when a mapping    *)
(* fails (the page it failed for goes back to the kernel, so S is not all  *)
(* that the kernel had).                                                   *)
Grown(n, S) ==
    /\ S \subseteq free
    /\ \/ Cardinality(S) = n
       \/ "dma" \in Failures /\ Cardinality(S) < n /\ S # free

(* Faulty variant: the page whose mapping failed is not given back.        *)
GrowDrops(n) ==
    /\ session = "open" /\ want = 0
    /\ \E S \in SUBSET free : \E p \in free \ S :
          /\ Grown(n, S)
          /\ pageList' = pageList \cup S
          /\ curSize' = curSize + Cardinality(S) /\ totSize' = totSize + Cardinality(S)
          /\ free' = free \ (S \cup {p})
          /\ short' = IF Cardinality(S) < n THEN TRUE ELSE short
    /\ want' = n
    /\ UNCHANGED <<session, held, gotNull, broken, usedList, lost>>

(* GR_MEMPOOL_GROW: the ioctl drops what gr_mempool_grow returns, so the   *)
(* process counts on n pages in any case.                                  *)
Grow(n) ==
    /\ session = "open" /\ want = 0
    /\ \E S \in SUBSET free :
          /\ Grown(n, S)
          /\ free' = free \ S
          /\ pageList' = pageList \cup S
          /\ curSize' = curSize + Cardinality(S) /\ totSize' = totSize + Cardinality(S)
          /\ short' = IF Cardinality(S) < n THEN TRUE ELSE short
    /\ want' = n
    /\ UNCHANGED <<session, held, gotNull, broken, usedList, lost>>

(* With no page left gr_mempool_grow uses the null page before it tests    *)
(* it: the process dies in the kernel, with what it got in the pool.       *)
(* GET_PAGE grows by one.                                                  *)
GrowOops(n) ==
    /\ "oom" \in Failures
    /\ session = "open" /\ want = 0
    /\ n > Cardinality(free)
    /\ pageList' = pageList \cup free
    /\ curSize' = curSize + Cardinality(free) /\ totSize' = totSize + Cardinality(free)
    /\ free' = {}
    /\ session' = "closed" /\ broken' = TRUE
    /\ UNCHANGED <<short, want, held, gotNull, usedList, lost>>

(* Faulty variant: the loop of GET_PAGES ends one page early.              *)
GetPagesShort ==
    /\ session = "open" /\ want > 0
    /\ \E S \in SUBSET pageList :
          /\ Cardinality(S) = (IF want < curSize THEN want ELSE curSize) - 1
          /\ pageList' = pageList \ S /\ usedList' = usedList \cup S
          /\ curSize' = curSize - Cardinality(S)
          /\ held' = held \cup S
          /\ gotNull' = (gotNull \/ Cardinality(S) < want)
    /\ want' = 0
    /\ UNCHANGED <<short, session, broken, free, totSize, lost>>

(* Faulty variant: gr_mempool_remove does not count the page out.          *)
GetPagesNoCount ==
    /\ session = "open" /\ want > 0
    /\ \E S \in SUBSET pageList :
          /\ Cardinality(S) = IF want < curSize THEN want ELSE curSize
          /\ pageList' = pageList \ S /\ usedList' = usedList \cup S
          /\ held' = held \cup S
          /\ gotNull' = (gotNull \/ Cardinality(S) < want)
    /\ want' = 0
    /\ UNCHANGED <<short, session, broken, free, curSize, totSize, lost>>

(* GR_MEMPOOL_GET_PAGES of the pages just grown: gr_mempool_remove moves   *)
(* a page to used_list, and returns NULL when cur_size is 0, which the     *)
(* ioctl turns into an address all the same.                               *)
GetPages ==
    /\ session = "open" /\ want > 0
    /\ \E S \in SUBSET pageList :
          /\ Cardinality(S) = IF want < curSize THEN want ELSE curSize
          /\ pageList' = pageList \ S /\ usedList' = usedList \cup S
          /\ curSize' = curSize - Cardinality(S)
          /\ held' = held \cup S
          /\ gotNull' = IF Cardinality(S) < want THEN TRUE ELSE gotNull
    /\ want' = 0
    /\ UNCHANGED <<short, session, broken, free, totSize, lost>>

(* GR_MEMPOOL_GET_PAGE: grow by one and take a page, in one ioctl.         *)
GetPage ==
    /\ session = "open" /\ want = 0
    /\ \E S \in SUBSET free :
          /\ Grown(1, S)
          /\ free' = free \ S
          /\ totSize' = totSize + Cardinality(S)
          /\ \/ \E p \in pageList \cup S :
                   /\ pageList' = (pageList \cup S) \ {p} /\ usedList' = usedList \cup {p}
                   /\ curSize' = (curSize + Cardinality(S)) - 1
                   /\ held' = held \cup {p}
                   /\ UNCHANGED gotNull
             \/ /\ curSize = 0 /\ S = {}
                /\ gotNull' = TRUE
                /\ UNCHANGED <<pageList, usedList, curSize, held>>
          /\ short' = IF S = {} THEN TRUE ELSE short
    /\ UNCHANGED <<session, want, broken, lost>>

(* GR_MEMPOOL_TERM and close.  Pages still on page_list are moved to       *)
(* used_list by gr_mempool_remove and then linked into free_list without   *)
(* being unlinked, so used_list is left pointing at a page that the first  *)
(* loop frees and unlinks: the second loop frees that page for ever.       *)
Term ==
    /\ session = "open" /\ want = 0
    /\ free' = IF pageList = {} THEN free \cup usedList ELSE free \cup pageList
    /\ usedList' = IF pageList = {} THEN {} ELSE usedList
    /\ session' = IF pageList = {} THEN "closed" ELSE "hung"
    /\ pageList' = {} /\ curSize' = 0 /\ held' = {}
    /\ UNCHANGED <<short, want, gotNull, broken, totSize, lost>>

(* Faulty variant: the release frees the pool under a job that may be running. *)
KillFrees ==
    /\ "kill" \in Failures
    /\ session = "open"
    /\ session' = "closed" /\ broken' = TRUE
    /\ free' = free \cup pageList \cup usedList
    /\ pageList' = {} /\ usedList' = {} /\ curSize' = 0
    /\ UNCHANGED <<short, want, held, gotNull, totSize, lost>>

(* The process is killed or aborts: gr_release leaves the pool as it is.   *)
Kill ==
    /\ "kill" \in Failures
    /\ session = "open"
    /\ session' = "closed" /\ broken' = TRUE
    /\ UNCHANGED <<short, want, held, gotNull, poolVars>>

Next ==
    \/ PoolInit \/ GetPages \/ GetPage \/ Term \/ Kill
    \/ \E n \in Requests : Grow(n)
    \/ \E n \in Requests \cup {1} : GrowOops(n)

Spec == Init /\ [][Next]_vars

-----------------------------------------------------------------------------
Disjoint(A, B) == A \cap B = {}

(* No page is in two places and none is forgotten: each is the kernel's,   *)
(* on one of the pool's lists, or lost with a pool that was never freed.   *)
(* In particular gr_mempool_term never frees a page twice.                 *)
PagesConserved ==
    /\ free \cup pageList \cup usedList \cup lost = Pages
    /\ Disjoint(free, pageList) /\ Disjoint(free, usedList) /\ Disjoint(free, lost)
    /\ Disjoint(pageList, usedList) /\ Disjoint(pageList, lost) /\ Disjoint(usedList, lost)

(* gr_mempool_remove trusts cur_size to say whether page_list is empty     *)
(* (gr_mempool.c:73), so the two must agree after every ioctl, the failed  *)
(* ones too; and tot_size counts the pages of the pool.                    *)
SizesAgree ==
    session = "open" =>
        /\ curSize = Cardinality(pageList)
        /\ totSize = Cardinality(pageList) + Cardinality(usedList)

(* The pages a process has mapped stay its own until its TERM: the kernel  *)
(* cannot give them to anybody else while the process or a job uses them,  *)
(* not even when the process is killed with a job running.                 *)
HeldPagesBacked == Disjoint(held, free)

(* gr_mempool_term meets an empty page_list, the one case it handles:      *)
(* every GROW has been followed by a GET_PAGES of as many pages.           *)
TermReturns == session # "hung"

(* What makes TermReturns inductive: page_list holds no more than the      *)
(* pages the process is about to fetch.                                    *)
OnlyWanted == session = "open" => curSize <= want

PoolInv == PagesConserved /\ SizesAgree /\ HeldPagesBacked /\ TermReturns /\ OnlyWanted

(* After clean exits every page is back with the kernel.                   *)
AllReturned == session = "closed" /\ ~broken => free = Pages

(* The replayer gets page_to_phys(NULL) for a page directory or a page of  *)
(* a region only if a DMA mapping failed before: with mappings that work   *)
(* the protocol never empties the pool too early.                          *)
NullAfterFailure == gotNull => short
=============================================================================

----------------------------- MODULE MemoryProof -----------------------------
(***************************************************************************)
(* Proofs about the GPU's memory in the replayer: the page pool that the   *)
(* nano driver gives it from (Mempool) and the copies that go to its pages *)
(* (MemIo).                                                                *)
(*                                                                         *)
(* Of Mempool, for any finite set of pages, any sizes of regions and any   *)
(* failures: its types, that no page is lost from sight or freed twice,    *)
(* that cur_size can be trusted, that TERM finds page_list empty and       *)
(* returns everything, and that null pages follow failed mappings.  Of     *)
(* MemIo, for every page size, region, address and size: the transfers are *)
(* the right ones, stay within bounds, and miss nothing of a request that  *)
(* does not span exactly two pages.                                        *)
(***************************************************************************)
EXTENDS Mempool, MemIo, Integers, FiniteSetTheorems, TLAPS

USE DEF userVars, poolVars

IndPoolInv == TypeOK /\ PoolInv

-----------------------------------------------------------------------------
(* Sets of pages are finite, and their sizes are numbers.                  *)
LEMMA PageSets ==
    ASSUME NEW S \in SUBSET Pages
    PROVE  IsFiniteSet(S) /\ Cardinality(S) \in Nat /\ (Cardinality(S) = 0 <=> S = {})
BY PagesAssumption, FS_Subset, FS_CardinalityType, FS_EmptySet

LEMMA SizeOfUnion ==
    ASSUME NEW S \in SUBSET Pages, NEW T \in SUBSET Pages, Disjoint(S, T)
    PROVE  Cardinality(S \cup T) = Cardinality(S) + Cardinality(T)
<1>1. IsFiniteSet(S) /\ IsFiniteSet(T) /\ Cardinality(S) \in Nat /\ Cardinality(T) \in Nat
  BY PageSets
<1>2. Cardinality(S \cap T) = 0 BY FS_EmptySet DEF Disjoint
<1>3. Cardinality(S \cup T) = Cardinality(S) + Cardinality(T) - Cardinality(S \cap T)
  BY <1>1, FS_Union
<1> QED BY <1>1, <1>2, <1>3

LEMMA SizesOfNone == Cardinality({}) = 0
BY FS_EmptySet

(* Between two requests the pool has no page to hand out.                  *)
LEMMA EmptyPool ==
    ASSUME IndPoolInv, session = "open", want = 0
    PROVE  pageList = {} /\ curSize = 0
BY PageSets DEF IndPoolInv, TypeOK, PoolTypeOK, PoolInv, OnlyWanted, SizesAgree

-----------------------------------------------------------------------------
(* gr_mempool_grow, whatever the number of pages it gets.                  *)
LEMMA GrowStep ==
    ASSUME IndPoolInv, NEW n \in Requests, Grow(n)
    PROVE  IndPoolInv'
<1>1. PICK S \in SUBSET free :
          /\ Grown(n, S)
          /\ free' = free \ S
          /\ pageList' = pageList \cup S
          /\ curSize' = curSize + Cardinality(S) /\ totSize' = totSize + Cardinality(S)
  BY DEF Grow
<1>2. pageList = {} /\ curSize = 0 BY EmptyPool DEF Grow
<1>3. S \in SUBSET Pages BY DEF IndPoolInv, TypeOK, PoolTypeOK
<1>4. Cardinality(S) \in Nat /\ Cardinality(S) <= n
  BY <1>1, <1>3, PageSets, RequestsAssumption DEF Grown
<1>5. TypeOK'
  <2>1. short' \in BOOLEAN BY DEF Grow, IndPoolInv, TypeOK, UserTypeOK
  <2>2. UserTypeOK' BY <2>1 DEF IndPoolInv, TypeOK, UserTypeOK, Grow
  <2>3. UNCHANGED <<usedList, lost>> BY DEF Grow
  <2>4. PoolTypeOK' BY <1>1, <1>3, <1>4, <2>3 DEF IndPoolInv, TypeOK, PoolTypeOK
  <2> QED BY <2>2, <2>4 DEF TypeOK
<1>6. PagesConserved' /\ HeldPagesBacked' /\ TermReturns'
  BY <1>1, <1>2
  DEF IndPoolInv, PoolInv, PagesConserved, HeldPagesBacked, TermReturns, Disjoint, Grow
<1>7. SizesAgree'
  BY <1>1, <1>2, <1>4, SizesOfNone
  DEF IndPoolInv, PoolInv, SizesAgree, TypeOK, PoolTypeOK, Grow
<1>8. OnlyWanted' BY <1>1, <1>2, <1>4, RequestsAssumption DEF OnlyWanted, Grow
<1> QED BY <1>5, <1>6, <1>7, <1>8 DEF IndPoolInv, PoolInv

LEMMA GrowOopsStep ==
    ASSUME IndPoolInv, NEW n \in Requests \cup {1}, GrowOops(n)
    PROVE  IndPoolInv'
<1>1. Cardinality(free) \in Nat BY PageSets DEF IndPoolInv, TypeOK, PoolTypeOK
<1>2. TypeOK' BY <1>1 DEF IndPoolInv, TypeOK, PoolTypeOK, UserTypeOK, GrowOops
<1>3. PoolInv'
  BY DEF IndPoolInv, PoolInv, PagesConserved, SizesAgree, HeldPagesBacked, TermReturns,
         OnlyWanted, Disjoint, GrowOops
<1> QED BY <1>2, <1>3 DEF IndPoolInv

(* GET_PAGES empties page_list: it asks for what was grown, or for more.   *)
LEMMA GetPagesStep ==
    ASSUME IndPoolInv, GetPages
    PROVE  IndPoolInv'
<1>1. PICK S \in SUBSET pageList :
          /\ Cardinality(S) = IF want < curSize THEN want ELSE curSize
          /\ pageList' = pageList \ S /\ usedList' = usedList \cup S
          /\ curSize' = curSize - Cardinality(S)
          /\ held' = held \cup S
          /\ gotNull' = IF Cardinality(S) < want THEN TRUE ELSE gotNull
  BY DEF GetPages
<1>2. /\ pageList \in SUBSET Pages /\ usedList \in SUBSET Pages
      /\ curSize \in Nat /\ want \in Nat /\ curSize <= want
      /\ curSize = Cardinality(pageList)
  BY RequestsAssumption
  DEF GetPages, IndPoolInv, TypeOK, PoolTypeOK, UserTypeOK, PoolInv, OnlyWanted, SizesAgree
<1>3. Cardinality(S) = Cardinality(pageList) BY <1>1, <1>2
<1>4. S = pageList BY <1>2, <1>3, PageSets, FS_Subset
<1>5. pageList' = {} /\ usedList' = usedList \cup pageList /\ curSize' = 0 /\ held' = held \cup S
  BY <1>1, <1>2, <1>3, <1>4
<1>6. gotNull' \in BOOLEAN
  BY <1>1 DEF IndPoolInv, TypeOK, UserTypeOK
<1>7. TypeOK'
  BY <1>2, <1>4, <1>5, <1>6 DEF IndPoolInv, TypeOK, PoolTypeOK, UserTypeOK, GetPages
<1>8. PagesConserved' /\ HeldPagesBacked' /\ TermReturns'
  BY <1>4, <1>5
  DEF IndPoolInv, PoolInv, PagesConserved, HeldPagesBacked, TermReturns, Disjoint, GetPages
<1>9. Cardinality(usedList') = Cardinality(usedList) + Cardinality(pageList)
  BY <1>2, <1>5, SizeOfUnion DEF IndPoolInv, PoolInv, PagesConserved, Disjoint
<1>10. SizesAgree'
  BY <1>2, <1>5, <1>9, PageSets, SizesOfNone DEF IndPoolInv, PoolInv, SizesAgree, GetPages
<1>11. OnlyWanted' BY <1>5 DEF OnlyWanted, GetPages
<1> QED BY <1>7, <1>8, <1>10, <1>11 DEF IndPoolInv, PoolInv

(* GET_PAGE hands out the page it grew by, or none.                        *)
LEMMA GetPageStep ==
    ASSUME IndPoolInv, GetPage
    PROVE  IndPoolInv'
<1>1. pageList = {} /\ curSize = 0 BY EmptyPool DEF GetPage
<1>2. PICK S \in SUBSET free :
          /\ Grown(1, S)
          /\ free' = free \ S
          /\ totSize' = totSize + Cardinality(S)
          /\ \/ \E p \in pageList \cup S :
                   /\ pageList' = (pageList \cup S) \ {p} /\ usedList' = usedList \cup {p}
                   /\ curSize' = (curSize + Cardinality(S)) - 1
                   /\ held' = held \cup {p}
                   /\ UNCHANGED gotNull
             \/ /\ curSize = 0 /\ S = {}
                /\ gotNull' = TRUE
                /\ UNCHANGED <<pageList, usedList, curSize, held>>
  BY DEF GetPage
<1>3. S \in SUBSET Pages /\ usedList \in SUBSET Pages /\ Cardinality(S) \in Nat
  BY PageSets DEF IndPoolInv, TypeOK, PoolTypeOK
<1>4. short' \in BOOLEAN BY DEF GetPage, IndPoolInv, TypeOK, UserTypeOK
<1>5. UNCHANGED <<session, want, broken, lost>> BY DEF GetPage
<1>6. CASE S = {}
  <2>1. /\ gotNull' = TRUE /\ free' = free /\ totSize' = totSize
        /\ UNCHANGED <<pageList, usedList, curSize, held>>
    BY <1>1, <1>2, <1>6, SizesOfNone DEF IndPoolInv, TypeOK, PoolTypeOK
  <2>2. TypeOK' BY <1>4, <1>5, <2>1 DEF IndPoolInv, TypeOK, PoolTypeOK, UserTypeOK
  <2>3. PoolInv'
    BY <2>1 DEF IndPoolInv, PoolInv, PagesConserved, SizesAgree, HeldPagesBacked, TermReturns,
                OnlyWanted, Disjoint, GetPage
  <2> QED BY <2>2, <2>3 DEF IndPoolInv
<1>7. CASE S # {}
  <2>1. Cardinality(S) = 1 BY <1>2, <1>3, <1>7, PageSets DEF Grown
  <2>2. PICK p \in S : S = {p} BY <1>3, <2>1, PageSets, FS_Singleton
  <2>3. /\ pageList' = {} /\ usedList' = usedList \cup S /\ curSize' = 0
        /\ held' = held \cup S /\ gotNull' = gotNull
        /\ totSize' = totSize + 1 /\ free' = free \ S
    BY <1>1, <1>2, <1>7, <2>1, <2>2
  <2>4. TypeOK'
    BY <1>3, <1>4, <1>5, <2>3 DEF IndPoolInv, TypeOK, PoolTypeOK, UserTypeOK
  <2>5. PagesConserved' /\ HeldPagesBacked' /\ TermReturns'
    BY <1>1, <2>3
    DEF IndPoolInv, PoolInv, PagesConserved, HeldPagesBacked, TermReturns, Disjoint, GetPage
  <2>6. Cardinality(usedList') = Cardinality(usedList) + 1
    BY <1>3, <2>1, <2>3, SizeOfUnion DEF IndPoolInv, PoolInv, PagesConserved, Disjoint
  <2>7. SizesAgree'
    BY <1>1, <1>3, <2>3, <2>6, PageSets, SizesOfNone
    DEF IndPoolInv, PoolInv, SizesAgree, GetPage
  <2>8. OnlyWanted' BY <2>3 DEF OnlyWanted, GetPage
  <2> QED BY <2>4, <2>5, <2>7, <2>8 DEF IndPoolInv, PoolInv
<1> QED BY <1>6, <1>7

(* TERM frees used_list, and page_list is empty.                           *)
LEMMA TermStep ==
    ASSUME IndPoolInv, Term
    PROVE  IndPoolInv'
<1>1. pageList = {} BY EmptyPool DEF Term
<1>2. free' = free \cup usedList /\ usedList' = {} /\ session' = "closed" /\ held' = {}
  BY <1>1 DEF Term
<1>3. TypeOK' BY <1>2 DEF IndPoolInv, TypeOK, PoolTypeOK, UserTypeOK, Term
<1>4. PoolInv'
  BY <1>1, <1>2
  DEF IndPoolInv, PoolInv, PagesConserved, SizesAgree, HeldPagesBacked, TermReturns, OnlyWanted,
      Disjoint, Term
<1> QED BY <1>3, <1>4 DEF IndPoolInv

(* Starting and being killed.                                              *)
LEMMA SessionStep ==
    ASSUME IndPoolInv, PoolInit \/ Kill \/ UNCHANGED vars
    PROVE  IndPoolInv'
<1>1. CASE PoolInit
  <2>1. TypeOK' BY <1>1 DEF IndPoolInv, TypeOK, PoolTypeOK, UserTypeOK, PoolInit
  <2>2. PagesConserved' /\ HeldPagesBacked' /\ TermReturns'
    BY <1>1
    DEF IndPoolInv, PoolInv, PagesConserved, HeldPagesBacked, TermReturns, Disjoint, PoolInit
  <2>3. SizesAgree' /\ OnlyWanted' BY <1>1, SizesOfNone DEF SizesAgree, OnlyWanted, PoolInit
  <2> QED BY <2>1, <2>2, <2>3 DEF IndPoolInv, PoolInv
<1>2. CASE Kill \/ UNCHANGED vars
  <2>1. TypeOK' BY <1>2 DEF IndPoolInv, TypeOK, PoolTypeOK, UserTypeOK, Kill, vars
  <2>2. PoolInv'
    BY <1>2 DEF IndPoolInv, PoolInv, PagesConserved, SizesAgree, HeldPagesBacked, TermReturns,
                OnlyWanted, Disjoint, Kill, vars
  <2> QED BY <2>1, <2>2 DEF IndPoolInv
<1> QED BY <1>1, <1>2

-----------------------------------------------------------------------------
(* TypeOK and PoolInv together are inductive.                              *)
THEOREM PoolInvariant == Spec => []IndPoolInv
<1>1. Init => IndPoolInv
  <2>1. Init => TypeOK
    <3>1. Init => PoolTypeOK BY DEF Init, PoolTypeOK
    <3>2. Init => UserTypeOK BY DEF Init, UserTypeOK
    <3> QED BY <3>1, <3>2 DEF TypeOK
  <2>2. Init => PagesConserved /\ HeldPagesBacked
    BY DEF Init, PagesConserved, HeldPagesBacked, Disjoint
  <2>3. Init => SizesAgree /\ TermReturns /\ OnlyWanted
    BY DEF Init, SizesAgree, TermReturns, OnlyWanted
  <2> QED BY <2>1, <2>2, <2>3 DEF IndPoolInv, PoolInv
<1>2. IndPoolInv /\ [Next]_vars => IndPoolInv'
  BY GrowStep, GrowOopsStep, GetPagesStep, GetPageStep, TermStep, SessionStep DEF Next
<1> QED BY <1>1, <1>2, PTL DEF Spec

(* Every page is in exactly one place (gr_mempool.c), so TERM never frees  *)
(* one twice, whatever fails and whoever is killed.                        *)
THEOREM Conservation == Spec => []PagesConserved
<1>1. IndPoolInv => PagesConserved BY DEF IndPoolInv, PoolInv
<1> QED BY <1>1, PoolInvariant, PTL

(* cur_size says how many pages are on page_list (gr_mempool_remove).      *)
THEOREM SizesCorrect == Spec => []SizesAgree
<1>1. IndPoolInv => SizesAgree BY DEF IndPoolInv, PoolInv
<1> QED BY <1>1, PoolInvariant, PTL

(* The kernel never holds a page that a process has mapped (gr_release     *)
(* keeps the pages of a killed process).                                   *)
THEOREM MappedPagesStay == Spec => []HeldPagesBacked
<1>1. IndPoolInv => HeldPagesBacked BY DEF IndPoolInv, PoolInv
<1> QED BY <1>1, PoolInvariant, PTL

(* gr_mempool_term finds page_list empty and so ends (gr_mempool.c:160).   *)
THEOREM TermEnds == Spec => []TermReturns
<1>1. IndPoolInv => TermReturns BY DEF IndPoolInv, PoolInv
<1> QED BY <1>1, PoolInvariant, PTL

-----------------------------------------------------------------------------
(* A GROW that came up short is remembered until GET_PAGES meets it, and   *)
(* so is a GET_PAGE that got nothing.                                      *)
ShortNoted == NullAfterFailure /\ (session = "open" /\ curSize < want => short)

LEMMA ShortStep == IndPoolInv /\ ShortNoted /\ [Next]_vars => ShortNoted'
<1> SUFFICES ASSUME IndPoolInv, ShortNoted, [Next]_vars PROVE ShortNoted'
  OBVIOUS
<1> USE DEF ShortNoted, NullAfterFailure
<1>1. ASSUME NEW n \in Requests, Grow(n) PROVE ShortNoted'
  <2>1. PICK S \in SUBSET free :
            /\ Grown(n, S) /\ curSize' = curSize + Cardinality(S)
            /\ short' = IF Cardinality(S) < n THEN TRUE ELSE short
    BY <1>1 DEF Grow
  <2>2. curSize = 0 BY <1>1, EmptyPool DEF Grow
  <2>3. Cardinality(S) \in Nat /\ n \in Nat
    BY PageSets, RequestsAssumption DEF IndPoolInv, TypeOK, PoolTypeOK
  <2>4. want' = n /\ gotNull' = gotNull BY <1>1 DEF Grow
  <2>5. CASE Cardinality(S) < n BY <2>1, <2>5
  <2>6. CASE ~(Cardinality(S) < n)
    BY <2>1, <2>2, <2>3, <2>4, <2>6
  <2> QED BY <2>5, <2>6
<1>2. CASE GetPages
  <2>1. PICK S \in SUBSET pageList :
            /\ Cardinality(S) = IF want < curSize THEN want ELSE curSize
            /\ gotNull' = IF Cardinality(S) < want THEN TRUE ELSE gotNull
    BY <1>2 DEF GetPages
  <2>2. short' = short /\ want' = 0 /\ session = "open" BY <1>2 DEF GetPages
  <2>3. curSize' \in Nat BY <1>2, GetPagesStep DEF IndPoolInv, TypeOK, PoolTypeOK
  <2>4. want \in Nat /\ curSize \in Nat
    BY RequestsAssumption DEF IndPoolInv, TypeOK, PoolTypeOK, UserTypeOK
  <2>5. Cardinality(S) < want => curSize < want BY <2>1, <2>4
  <2>6. gotNull' => short' BY <2>1, <2>2, <2>5
  <2>7. ~(curSize' < want') BY <2>2, <2>3
  <2> QED BY <2>6, <2>7
<1>3. CASE GetPage
  <2>1. PICK S \in SUBSET free :
            /\ \/ UNCHANGED gotNull
               \/ S = {}
            /\ short' = IF S = {} THEN TRUE ELSE short
    BY <1>3 DEF GetPage
  <2>2. want' = 0 BY <1>3 DEF GetPage
  <2>3. curSize' \in Nat BY <1>3, GetPageStep DEF IndPoolInv, TypeOK, PoolTypeOK
  <2> QED BY <2>1, <2>2, <2>3
<1>4. CASE PoolInit \/ Term \/ Kill \/ UNCHANGED vars
  BY <1>4 DEF PoolInit, Term, Kill, vars
<1>5. ASSUME NEW n \in Requests \cup {1}, GrowOops(n) PROVE ShortNoted'
  BY <1>5 DEF GrowOops
<1> QED BY <1>1, <1>2, <1>3, <1>4, <1>5 DEF Next

(* The replayer gets page_to_phys(NULL) for a page only after a mapping    *)
(* has failed (gr_mempool_grow), although both ioctls drop the error.      *)
THEOREM NullsFollowFailures == Spec => []NullAfterFailure
<1>1. Init => ShortNoted BY DEF Init, ShortNoted, NullAfterFailure
<1>2. ShortNoted => NullAfterFailure BY DEF ShortNoted
<1> QED BY <1>1, <1>2, ShortStep, PoolInvariant, PTL DEF Spec

(* As long as every process ends with TERM nothing is lost, and a closed   *)
(* pool is empty.                                                          *)
NothingLeft ==
    ~broken => lost = {} /\ (session = "closed" => pageList = {} /\ usedList = {})

(* After clean exits every page is back with the kernel (gr_mempool_term). *)
THEOREM CleanExitsReturnAll == Spec => []AllReturned
<1>1. Init => NothingLeft BY DEF Init, NothingLeft
<1>2. IndPoolInv /\ NothingLeft /\ [Next]_vars => NothingLeft'
  <2> SUFFICES ASSUME IndPoolInv, NothingLeft, [Next]_vars PROVE NothingLeft'
    OBVIOUS
  <2>1. CASE Term BY <2>1, TermStep, EmptyPool DEF Term, NothingLeft
  <2>2. CASE PoolInit \/ GetPages \/ GetPage \/ Kill \/ UNCHANGED vars
    BY <2>2 DEF PoolInit, GetPages, GetPage, Kill, vars, NothingLeft
  <2>3. ASSUME NEW n \in Requests, Grow(n) PROVE NothingLeft'
    BY <2>3 DEF Grow, NothingLeft
  <2>4. ASSUME NEW n \in Requests \cup {1}, GrowOops(n) PROVE NothingLeft'
    BY <2>4 DEF GrowOops, NothingLeft
  <2> QED BY <2>1, <2>2, <2>3, <2>4 DEF Next
<1>3. IndPoolInv /\ NothingLeft => AllReturned
  BY DEF IndPoolInv, PoolInv, PagesConserved, NothingLeft, AllReturned
<1> QED BY <1>1, <1>2, <1>3, PoolInvariant, PTL DEF Spec

-----------------------------------------------------------------------------
(* The copies.                                                             *)
USE DEF inputs

CopyInv == CopyTypeOK /\ Position /\ RightPlace /\ WithinBounds

-----------------------------------------------------------------------------
(* Arithmetic: division by the page size, and multiples of it.             *)
LEMMA Division ==
    ASSUME NEW a \in Nat, NEW b \in Nat \ {0}
    PROVE  a \div b \in Nat /\ (a \div b) * b <= a /\ a < (a \div b) * b + b
<1>1. a \div b \in Int /\ a % b \in 0..(b - 1) /\ a = b * (a \div b) + (a % b)
  OBVIOUS
<1>2. a \div b >= 0
  BY <1>1
<1> QED BY <1>1, <1>2

(* A smaller multiple is smaller by at least one whole.                    *)
LEMMA Multiples ==
    ASSUME NEW a \in Nat, NEW b \in Nat, NEW c \in Nat, a < b
    PROVE  a * c \in Nat /\ b * c \in Nat /\ a * c + c <= b * c
<1>1. PICK d \in Nat : b = a + 1 + d
  <2>1. b - (a + 1) \in Nat BY SMT
  <2> WITNESS b - (a + 1) \in Nat
  <2> QED BY SMT
<1>2. d * c \in Nat BY SMT
<1> QED BY <1>1, <1>2, SMT

(* page_count is the number of pages the request spans.                    *)
LEMMA Count ==
    ASSUME CopyTypeOK
    PROVE  /\ PageCount \in Nat
           /\ offset + total <= PageCount * PageSize
           /\ PageCount * PageSize < offset + total + PageSize
<1>1. offset \in Nat /\ total \in Nat /\ offset + total + (PageSize - 1) \in Nat
  BY PageSizeAssumption DEF CopyTypeOK
<1>2. /\ PageCount \in Nat
      /\ PageCount * PageSize <= offset + total + (PageSize - 1)
      /\ offset + total + (PageSize - 1) < PageCount * PageSize + PageSize
  BY <1>1, Division, PageSizeAssumption DEF PageCount
<1>3. PageCount * PageSize \in Nat BY <1>2, PageSizeAssumption
<1> QED BY <1>1, <1>2, <1>3, PageSizeAssumption

(* A byte before the end of n pages lies in one of them.                   *)
LEMMA PageInRegion ==
    ASSUME NEW p \in Nat, NEW n \in Nat, p * PageSize < n * PageSize
    PROVE  p < n
<1>1. SUFFICES ASSUME n <= p PROVE FALSE
  OBVIOUS
<1>2. CASE n = p
  BY <1>2, PageSizeAssumption
<1>3. CASE n < p
  BY <1>3, Multiples, PageSizeAssumption
<1> QED BY <1>1, <1>2, <1>3

(* What one transfer does to the invariant: it starts where the previous   *)
(* one ended, in the page and in the buffer.                               *)
LEMMA MovePreserves ==
    ASSUME CopyInv, UNCHANGED inputs,
           NEW page \in Nat, NEW off \in Nat, NEW len \in Nat,
           Move(page, off, len),
           page * PageSize + off = pageOffset * PageSize + offset + copied,
           off + len <= PageSize, len <= size,
           found => page < regionPages, Backed => page < nents
    PROVE  /\ size' \in Nat /\ copied' \in Nat /\ transfers' \in SUBSET Transfer
           /\ copied' + size' = total'
           /\ RightPlace' /\ WithinBounds'
<1> USE DEF CopyInv
<1>1. size' \in Nat /\ copied' \in Nat /\ copied' + size' = total' /\ copied + len <= total
  BY DEF CopyTypeOK, Position, Move
<1> DEFINE new == [page |-> page, off |-> off, buf |-> copied, len |-> len]
<1>2. new \in Transfer
  BY DEF CopyTypeOK, Transfer
<1>3. transfers' = transfers \cup {new}
  BY DEF Move
<1>4. transfers' \in SUBSET Transfer
  BY <1>2, <1>3 DEF CopyTypeOK
<1>5. RightPlace'
  <2>1. new.page * PageSize + new.off = pageOffset * PageSize + offset + new.buf
        /\ new.off + new.len <= PageSize
    OBVIOUS
  <2> HIDE DEF new
  <2> QED BY <1>3, <2>1 DEF RightPlace
<1>6. WithinBounds'
  <2>1. /\ new.buf + new.len <= total
        /\ found => new.page < regionPages
        /\ Backed => new.page < nents
    BY <1>1
  <2>2. Backed' = Backed
    BY DEF Backed
  <2> HIDE DEF new
  <2> QED BY <1>3, <2>1, <2>2 DEF WithinBounds
<1> QED BY <1>1, <1>4, <1>5, <1>6

(* page_count is computed once, from what does not change.                 *)
LEMMA CountUnchanged == UNCHANGED inputs => PageCount' = PageCount
  BY DEF PageCount

-----------------------------------------------------------------------------
(* One lemma for each of the three transfers of gr_gpu_mem_io.             *)
LEMMA FirstPageStep == CopyInv /\ FirstPage => CopyInv'
<1> SUFFICES ASSUME CopyInv, FirstPage PROVE CopyInv'
  OBVIOUS
<1> USE DEF CopyInv
<1> DEFINE len == IF PageSize - offset < size THEN PageSize - offset ELSE size
<1>1. /\ offset \in Nat /\ offset < PageSize /\ PageSize \in Nat /\ PageSize > 0
      /\ pageOffset \in Nat /\ regionPages \in Nat
      /\ found => pageOffset < regionPages
      /\ Backed => pageOffset < nents
      /\ total \in Nat /\ size = total /\ copied = 0 /\ i = 1
  BY PageSizeAssumption, RegionAssumption DEF FirstPage, CopyTypeOK, Position, Backed
<1>2. len \in Nat /\ len <= size /\ offset + len <= PageSize
  BY <1>1
<1>3. Move(pageOffset, offset, len) /\ UNCHANGED inputs /\ i' = i /\ pc' = "middle"
  BY DEF FirstPage
<1>4. pageOffset * PageSize + offset = pageOffset * PageSize + offset + copied
  BY <1>1
<1>5. copied' = len /\ size' = total - len
  BY <1>1, <1>2, <1>3 DEF Move
<1> HIDE DEF len
<1>6. /\ size' \in Nat /\ copied' \in Nat /\ transfers' \in SUBSET Transfer
      /\ copied' + size' = total' /\ RightPlace' /\ WithinBounds'
  BY <1>1, <1>2, <1>3, <1>4, MovePreserves
<1>7. CopyTypeOK'
  BY <1>1, <1>3, <1>6 DEF CopyTypeOK
<1>8. Position'
  <2>1. PageCount' = PageCount /\ PageCount \in Nat
    BY <1>3, CountUnchanged, Count
  <2>2. ASSUME PageCount > 2 PROVE len = PageSize - offset
    <3>1. 2 * PageSize + PageSize <= PageCount * PageSize
      BY <1>1, <2>1, <2>2, Multiples
    <3>2. PageCount * PageSize \in Nat
      BY <1>1, <2>1
    <3> QED BY <1>1, <3>1, <3>2, Count DEF len
  <2>3. ASSUME PageCount < 2 PROVE len = total
    <3>1. PageCount = 0 \/ PageCount = 1
      BY <2>1, <2>3
    <3>2. PageCount * PageSize <= PageSize
      BY <1>1, <3>1
    <3>3. offset + total <= PageSize
      BY <1>1, <2>1, <3>2, Count
    <3> QED BY <1>1, <3>3 DEF len
  <2>4. pageOffset * PageSize + offset + total <= regionPages * PageSize
    BY <1>1 DEF FirstPage
  <2>5. PageCount > 2 => i' + 1 <= PageCount /\ copied' + offset = i' * PageSize
    BY <1>1, <1>3, <1>5, <2>1, <2>2
  <2>6. PageCount < 2 => size' = 0
    BY <1>1, <1>5, <2>3
  <2> QED BY <1>1, <1>3, <1>6, <2>1, <2>4, <2>5, <2>6 DEF Position
<1> QED BY <1>6, <1>7, <1>8

(* The page at position i of a request that spans more than two pages.     *)
LEMMA PageAt ==
    ASSUME CopyInv, pc \in {"middle", "last"}, PageCount > 2, copied < total
    PROVE  /\ pageOffset + i \in Nat
           /\ (pageOffset + i) * PageSize + 0 = pageOffset * PageSize + offset + copied
           /\ found => pageOffset + i < regionPages
           /\ Backed => pageOffset + i < nents
<1> USE DEF CopyInv
<1>1. /\ offset \in Nat /\ PageSize \in Nat /\ pageOffset \in Nat /\ i \in Nat
      /\ total \in Nat /\ copied \in Nat /\ copied + offset = i * PageSize
      /\ regionPages \in Nat /\ nents \in Nat
      /\ pageOffset * PageSize + offset + total <= regionPages * PageSize
  BY PageSizeAssumption, RegionAssumption DEF CopyTypeOK, Position
<1>2. (pageOffset + i) * PageSize = pageOffset * PageSize + i * PageSize
  BY <1>1
<1>3. /\ pageOffset * PageSize \in Nat /\ i * PageSize \in Nat
      /\ (pageOffset + i) * PageSize \in Nat
  BY <1>1
<1>4. (pageOffset + i) * PageSize = pageOffset * PageSize + offset + copied
  BY <1>1, <1>2, <1>3
<1>5. ASSUME NEW n \in Nat, pageOffset * PageSize + offset + total <= n * PageSize
      PROVE  pageOffset + i < n
  <2>1. n * PageSize \in Nat
    BY <1>1
  <2>2. (pageOffset + i) * PageSize < n * PageSize
    BY <1>1, <1>3, <1>4, <1>5, <2>1
  <2> QED BY <1>1, <2>2, PageInRegion
<1>6. pageOffset + i < regionPages
  BY <1>1, <1>5
<1>7. Backed => pageOffset + i < nents
  BY <1>1, <1>5 DEF Backed
<1> QED BY <1>1, <1>3, <1>4, <1>6, <1>7

(* A middle page is full: more than a page is left before it.              *)
LEMMA MiddlePageStep == CopyInv /\ MiddlePage => CopyInv'
<1> SUFFICES ASSUME CopyInv, MiddlePage PROVE CopyInv'
  OBVIOUS
<1> USE DEF CopyInv
<1>1. /\ pc = "middle" /\ PageCount > 2 /\ i < PageCount - 1 /\ UNCHANGED <<inputs, pc>>
      /\ i' = i + 1 /\ Move(pageOffset + i, 0, PageSize)
  BY DEF MiddlePage, InMiddle
<1>2. /\ PageCount \in Nat /\ PageCount * PageSize < offset + total + PageSize
      /\ PageCount' = PageCount
  BY <1>1, Count, CountUnchanged
<1>3. /\ offset \in Nat /\ PageSize \in Nat /\ i \in Nat /\ i >= 1 /\ total \in Nat
      /\ copied \in Nat /\ size \in Nat
      /\ copied + size = total /\ copied + offset = i * PageSize
      /\ pageOffset * PageSize + offset + total <= regionPages * PageSize
  BY <1>1, PageSizeAssumption DEF CopyTypeOK, Position
<1>4. (i + 1) * PageSize + PageSize <= PageCount * PageSize
  BY <1>1, <1>2, <1>3, Multiples
<1>5. (i + 1) * PageSize = i * PageSize + PageSize /\ i * PageSize \in Nat
  BY <1>3
<1>6. PageCount * PageSize \in Nat
  BY <1>2, <1>3
<1>7. PageSize < size
  BY <1>2, <1>3, <1>4, <1>5, <1>6
<1>8. /\ pageOffset + i \in Nat
      /\ found => pageOffset + i < regionPages
      /\ Backed => pageOffset + i < nents
      /\ (pageOffset + i) * PageSize + 0 = pageOffset * PageSize + offset + copied
  BY <1>1, <1>3, <1>7, PageAt
<1>9. /\ size' \in Nat /\ copied' \in Nat /\ transfers' \in SUBSET Transfer
      /\ copied' + size' = total' /\ RightPlace' /\ WithinBounds'
  BY <1>1, <1>3, <1>7, <1>8, MovePreserves
<1>10. CopyTypeOK'
  BY <1>1, <1>3, <1>9 DEF CopyTypeOK
<1>11. copied' + offset = i' * PageSize
  BY <1>1, <1>3, <1>5 DEF Move
<1>12. i' >= 1 /\ i' + 1 <= PageCount /\ total' = total /\ offset' = offset
  BY <1>1, <1>2, <1>3
<1>13. (pageOffset * PageSize + offset + total <= regionPages * PageSize)'
  BY <1>1, <1>3
<1>14. Position'
  BY <1>1, <1>2, <1>9, <1>11, <1>12, <1>13 DEF Position
<1> QED BY <1>9, <1>10, <1>14

(* What is left before the last page fits in it.                           *)
LEMMA LastFits == CopyInv => LastFitsPage
<1> SUFFICES ASSUME CopyInv, pc = "last", PageCount > 2 PROVE size <= PageSize
  BY DEF LastFitsPage
<1> USE DEF CopyInv
<1>1. /\ offset \in Nat /\ PageSize \in Nat /\ i \in Nat /\ total \in Nat
      /\ copied \in Nat /\ size \in Nat
      /\ copied + size = total /\ copied + offset = i * PageSize /\ i + 1 = PageCount
  BY PageSizeAssumption DEF CopyTypeOK, Position
<1>2. PageCount * PageSize = i * PageSize + PageSize /\ i * PageSize \in Nat
  BY <1>1
<1> QED BY <1>1, <1>2, Count

(* The last page takes what is left; nothing is left without it only when  *)
(* the request does not span exactly two pages.                            *)
LEMMA LastPageStep == CopyInv /\ LastPage => CopyInv'
<1> SUFFICES ASSUME CopyInv, LastPage PROVE CopyInv'
  OBVIOUS
<1> USE DEF CopyInv
<1>1. pc = "last" /\ UNCHANGED <<inputs, i>>
  BY DEF LastPage
<1>2. PageCount' = PageCount /\ PageCount \in Nat
  BY <1>1, CountUnchanged, Count
<1>3. CASE /\ PageCount > 2 /\ size \in 1..PageSize /\ pc' = "done"
           /\ Move((pageOffset + PageCount) - 1, 0, size)
  <2>1. /\ i \in Nat /\ i + 1 = PageCount /\ size \in Nat /\ copied \in Nat
        /\ copied + size = total /\ pageOffset \in Nat /\ PageSize \in Nat
    BY <1>1, <1>3, PageSizeAssumption DEF CopyTypeOK, Position
  <2>2. (pageOffset + PageCount) - 1 = pageOffset + i
    BY <2>1
  <2>3. Move(pageOffset + i, 0, size)
    BY <1>3, <2>2
  <2>4. /\ pageOffset + i \in Nat
        /\ found => pageOffset + i < regionPages
        /\ Backed => pageOffset + i < nents
        /\ (pageOffset + i) * PageSize + 0 = pageOffset * PageSize + offset + copied
    BY <1>1, <1>3, <2>1, PageAt
  <2>5. 0 + size <= PageSize
    BY <1>3, <2>1
  <2>6. /\ size' \in Nat /\ copied' \in Nat /\ transfers' \in SUBSET Transfer
        /\ copied' + size' = total' /\ RightPlace' /\ WithinBounds'
    BY <1>1, <2>1, <2>3, <2>4, <2>5, MovePreserves
  <2>7. size' = 0
    BY <2>1, <2>3 DEF Move
  <2>8. CopyTypeOK'
    BY <1>1, <1>3, <2>6 DEF CopyTypeOK
  <2>9. Position'
    BY <1>1, <1>3, <2>6, <2>7 DEF Position
  <2> QED BY <2>6, <2>8, <2>9
<1>4. CASE /\ \/ PageCount > 2 /\ size > PageSize /\ pc' = "bug"
              \/ ~(PageCount > 2 /\ size > 0) /\ pc' = "done"
           /\ UNCHANGED <<size, copied, transfers>>
  <2>1. CopyTypeOK' /\ RightPlace' /\ WithinBounds'
    BY <1>1, <1>4 DEF CopyTypeOK, RightPlace, WithinBounds, Backed
  <2>2. pc' = "done" /\ PageCount # 2 => size' = 0
    BY <1>1, <1>2, <1>4 DEF Position, CopyTypeOK
  <2>3. Position'
    BY <1>1, <1>2, <1>4, <2>2 DEF Position
  <2> QED BY <2>1, <2>3
<1> QED BY <1>3, <1>4 DEF LastPage

-----------------------------------------------------------------------------
(* The inductive invariant of gr_gpu_mem_io.                               *)
THEOREM CopyInvariant == CopySpec => []CopyInv
<1>1. CopyInit => CopyInv
  BY PageSizeAssumption, RegionAssumption
  DEF CopyInit, CopyInv, CopyTypeOK, Position, RightPlace, WithinBounds
<1>2. CopyInv /\ [CopyNext]_copyVars => CopyInv'
  <2> SUFFICES ASSUME CopyInv, [CopyNext]_copyVars PROVE CopyInv'
    OBVIOUS
  <2>1. CASE BeyondEnd \/ MiddlePagesDone \/ MapFails \/ Finished \/ UNCHANGED copyVars
    <3>1. UNCHANGED <<inputs, i, size, copied, transfers>>
      BY <2>1 DEF BeyondEnd, MiddlePagesDone, MapFails, Finished, copyVars
    <3>2. PageCount' = PageCount /\ PageCount \in Nat
      BY <3>1, CountUnchanged, Count DEF CopyInv
    <3>3. CopyTypeOK' /\ RightPlace' /\ WithinBounds'
      BY <2>1, <3>1
      DEF CopyInv, CopyTypeOK, RightPlace, WithinBounds, Backed, BeyondEnd, MiddlePagesDone,
          MapFails, Finished, copyVars
    <3>4. Position'
      BY <2>1, <3>1, <3>2
      DEF CopyInv, CopyTypeOK, Position, BeyondEnd, MiddlePagesDone, InMiddle, MapFails,
          Finished, copyVars
    <3> QED BY <3>3, <3>4 DEF CopyInv
  <2> QED BY <2>1, FirstPageStep, MiddlePageStep, LastPageStep DEF CopyNext
<1> QED BY <1>1, <1>2, PTL DEF CopySpec

(* Every transfer of gr_gpu_mem_io meets the byte of the region that its   *)
(* byte of the buffer stands for, stays in its page, in its region and in  *)
(* the caller's buffer, and reads pages[] past its end only for a request  *)
(* that goes behind the region's memory; the assertion before the last     *)
(* page never fails.  For every page size, region, address and size.       *)
THEOREM TransfersCorrect == CopySpec => []TransfersRight
<1>1. CopyInv => TransfersRight BY LastFits DEF CopyInv, TransfersRight
<1> QED BY <1>1, CopyInvariant, PTL

(* A copy that does not span exactly two pages transfers everything.       *)
THEOREM NothingMissed == CopySpec => []CopyComplete
<1>1. CopyInv => CopyComplete BY DEF CopyInv, Position, CopyTypeOK, CopyComplete
<1> QED BY <1>1, CopyInvariant, PTL
=============================================================================

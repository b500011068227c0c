--------------------------- MODULE PageTableProof ---------------------------
(***************************************************************************)
(* Proofs about PageTable for any number of entries and levels, any ranges *)
(* and any number of insertions: its types, that a dump which nothing      *)
(* disturbs has every table once and fills its buffer, that what the       *)
(* replayer builds from a dump is a tree of its own, even when the driver  *)
(* changed the tables while they were dumped, and that what it builds from *)
(* an undisturbed dump translates every address as the driver's tables did.*)
(*                                                                         *)
(* The replayer's tree needs no more than the stack of its calls: whatever *)
(* is in the file, a call follows every entry that is not invalid, and     *)
(* stops at the bottom level.                                              *)
(*                                                                         *)
(* For the other results, the invariant follows the driver's tables through*)
(* the file.  They are a tree, whose levels are lv.  The walk writes the   *)
(* tables of that tree in preorder, perhaps with tables between them that  *)
(* were linked after their parent was written, and perhaps not to the end. *)
(* If nothing has disturbed the dump, the replayer, which takes the next   *)
(* table of the file for the next entry that it follows, has each table at *)
(* the level it had (SameLevel), so what it follows are the links, and the *)
(* table that it takes is the child of the link itself (NextIsChild): each *)
(* table is made at its place in the file, and a walk through the new      *)
(* tables meets the copies of the tables that a walk through the driver's  *)
(* meets (SameSteps).                                                      *)
(***************************************************************************)
EXTENDS PageTable, SequenceTheorems, FiniteSetTheorems, WellFoundedInduction, TLAPS

(* Entry i of table k of the driver is a link to table c.                  *)
Child(k, i, c) == tables[k][i].type = "pte" /\ tables[k][i].page = c

(* The insertion under way stays in its range.                             *)
InsInv == ins.on => ins.addr < ins.end /\ ins.end <= Width ^ (Bottom + 1)

(* The driver's tables are a tree: lv gives each table its level.  Pages   *)
(* are only entries of the bottom level.                                   *)
TreeInv(lv) ==
    /\ lv \in [DOMAIN tables -> Levels] /\ 1 \in DOMAIN tables /\ lv[1] = 0
    /\ \A k, c \in DOMAIN tables : \A i \in Idx : Child(k, i, c) => k < c /\ lv[c] = lv[k] + 1
    /\ \A k \in DOMAIN tables : \A i \in Idx :
          tables[k][i].type = "pte" => tables[k][i].page \in DOMAIN tables
    /\ \A c \in DOMAIN tables : \A k, m \in DOMAIN tables : \A i, j \in Idx :
          Child(k, i, c) /\ Child(m, j, c) => k = m /\ i = j
    /\ \A c \in DOMAIN tables \ {1} : \E k \in DOMAIN tables : \E i \in Idx : Child(k, i, c)
    /\ \A k \in DOMAIN tables : lv[k] < Bottom => \A i \in Idx : tables[k][i].type # "ate"
    /\ ins.on => ins.table \in DOMAIN tables /\ lv[ins.table] = ins.level

Full == Len(file) >= dump.cap

Stored(k) == \E n \in DOMAIN file : file[n].page = k

(* The walk has been past entry i of table k, or will not come there.      *)
Past(k, i) == \A d \in DOMAIN dump.stack : dump.stack[d].table = k => dump.stack[d].i > i

(* The walk is about to store table c.                                     *)
Pending(c) == dump.stack # << >> /\ DumpTop.table = c /\ DumpTop.i = -1

(* The tables from place n + 1 to place p of the file are below that at n. *)
Under(lv, n, p) == \A q \in (n + 1)..p : lv[file[q].page] > lv[file[n].page]

(* The stack of the walk is a path of the tree.                            *)
WalkInv(lv) ==
    /\ dump.pc = "no" => file = << >> /\ dump.stack = << >>
    /\ dump.pc = "walk" => dump.cap > 0
    /\ dump.pc = "walk" /\ file = << >> => Len(dump.stack) = 1 /\ DumpTop.i = -1
    /\ dump.pc \in {"tables", "done"} => file # << >> /\ dump.stack = << >>
    /\ dump.stack # << >> => dump.stack[1].table = 1
    /\ \A d \in DOMAIN dump.stack :
          LET f == dump.stack[d] IN
          /\ f.level = d - 1 /\ f.table \in DOMAIN tables /\ lv[f.table] = d - 1
          /\ f.i = -1 => ~Stored(f.table)
          /\ f.i >= 0 => Stored(f.table) \/ Full
          /\ d < Len(dump.stack) => f.i > 0 /\ Child(f.table, f.i - 1, dump.stack[d + 1].table)

(* The file has tables of the tree, in the order of the walk.              *)
FileInv(lv) ==
    /\ Len(file) <= dump.cap /\ (file # << >> => file[1].page = 1)
    /\ \A n \in DOMAIN file :
          /\ file[n].page \in DOMAIN tables
          /\ \A i \in Idx : file[n].entries[i].type = "pte" =>
                               tables[file[n].page][i] = file[n].entries[i]
    /\ \A n, p \in DOMAIN file : file[n].page = file[p].page => n = p
    /\ \A p \in DOMAIN file : \A k \in DOMAIN tables : \A i \in Idx :
          Child(k, i, file[p].page) => Past(k, i) /\ Stored(k)
    /\ \A n, p \in DOMAIN file : \A i \in Idx :
          Child(file[n].page, i, file[p].page) => n < p /\ Under(lv, n, p)
    /\ \A n, r \in DOMAIN file : \A i, j \in Idx :
          i < j /\ file[n].entries[i].type = "pte" /\ Child(file[n].page, j, file[r].page)
              => \E p \in 1..(r - 1) : file[p].page = file[n].entries[i].page

(* What is linked has been stored, or there was no room left.              *)
StoreInv(lv) ==
    /\ \A n \in DOMAIN file : \A i \in Idx :
          file[n].entries[i].type = "pte" /\ Past(file[n].page, i) =>
              LET c == file[n].entries[i].page IN
              Stored(c) \/ Pending(c) \/ (Full /\ Under(lv, n, Len(file)))
    /\ \A d \in DOMAIN dump.stack : \A n \in DOMAIN file :
          file[n].page = dump.stack[d].table => Under(lv, n, Len(file))

(* A dump that nothing disturbs.                                           *)
QuietInv ==
    dump.pc # "no" /\ ~raced =>
        /\ dump.cap = Len(tables) /\ dump.count = Len(file)
        /\ \A n \in DOMAIN file : file[n].entries = tables[file[n].page]

IsLink(n, i) == file[n].entries[i].type = "pte"

(* The call with frame f follows entry i of its table.                     *)
Takes(f, i) == Follows(f.level, file[f.at].entries[i])

(* The frame at place d of the stack: its call has a page of its own, has  *)
(* the entries of the file where it has not been, and has something to     *)
(* follow if it has made a call.                                           *)
FrameInv(d) ==
    LET f == load.stack[d] IN
    /\ f.level = d - 1 /\ f.at \in 1..load.offset /\ f.table \in DOMAIN new
    /\ \A i \in f.i..(Width - 1) : f.buf[i] = file[f.at].entries[i]
    /\ d < Len(load.stack) => \E i \in f.i..(Width - 1) : Takes(f, i)
    /\ \A e \in DOMAIN load.stack : d < e => f.table < load.stack[e].table

LoadInv ==
    /\ load.pc = "no" => new = << >> /\ load.stack = << >>
    /\ load.pc # "no" => dump.pc = "done"
    /\ load.pc \in {"regions", "done"} => load.stack = << >>
    /\ load.pc = "walk" =>
        /\ load.stack # << >> /\ load.stack[1].table = 1 /\ load.offset \in DOMAIN file
        /\ \A d \in DOMAIN load.stack : FrameInv(d)

Shape(lv) ==
    /\ TypeOK /\ InsInv /\ QuietInv
    /\ TreeInv(lv) /\ WalkInv(lv) /\ FileInv(lv) /\ StoreInv(lv) /\ LoadInv

Inv == \E lv : Shape(lv)

-----------------------------------------------------------------------------
(* Induction over numbers, as a property of sets.                          *)

(* The smallest of a set of numbers, which are well-founded.               *)
LEMMA LessWellFounded ==
    \E R : IsWellFoundedOn(R, Nat) /\ \A k, m \in Nat : k < m => <<k, m>> \in R
<1>1. \A k, m \in Nat : k < m => <<k, m>> \in OpToRel(<, Nat)
  BY DEF OpToRel
<1> QED
  BY <1>1, NatLessThanWellFounded, Zenon

LEMMA Smallest ==
    ASSUME NEW S, S \subseteq Nat, S # {}
    PROVE  Min(S) \in S /\ \A k \in S : Min(S) <= k
<1>1. PICK R : IsWellFoundedOn(R, Nat) /\ \A k, m \in Nat : k < m => <<k, m>> \in R
  BY LessWellFounded, Zenon
<1>2. IsWellFoundedOn(R, Nat)
  BY <1>1
<1>3. PICK m \in S : \A k \in S : ~(<<k, m>> \in R)
  <2>1. S \subseteq Nat /\ S # {}
    OBVIOUS
  <2> QED
    BY <1>2, <2>1, WFMin, Zenon
<1>4. \A k \in S : ~(k < m)
  BY <1>1, <1>3
<1>5. \E x \in S : \A k \in S : x <= k
  BY <1>4
<1> QED
  BY <1>5 DEF Min

(* What holds of 0, and of n + 1 if of n, holds up to any number.           *)
LEMMA Upwards ==
    ASSUME NEW N \in Nat, NEW S, 0 \in S, \A n \in 0..(N - 1) : n \in S => n + 1 \in S
    PROVE  \A n \in 0..N : n \in S
<1> SUFFICES ASSUME (0..N) \ S # {} PROVE FALSE
  OBVIOUS
<1> DEFINE m == Min((0..N) \ S)
<1>1. m \in (0..N) \ S /\ \A k \in (0..N) \ S : m <= k
  BY Smallest
<1> HIDE DEF m
<1>2. m \in 0..N /\ m # 0 /\ m - 1 \in 0..(N - 1)
  BY <1>1
<1>3. m - 1 \in S
  BY <1>1, <1>2
<1>4. m - 1 + 1 \in S
  BY <1>2, <1>3
<1> QED
  BY <1>1, <1>2, <1>4

-----------------------------------------------------------------------------
(* The constants.                                                          *)

Space == Width ^ (Bottom + 1)

LEMMA Powers == \A n \in 0..(Bottom + 1) : Width ^ n \in Nat \ {0}
<1> DEFINE S == {n \in Nat : Width ^ n \in Nat \ {0}}
           N == Bottom + 1
<1>1. N \in Nat /\ 0 \in S
  BY WidthAssumption, PowersAssumption
<1>2. ASSUME NEW n \in 0..(N - 1), n \in S
      PROVE  n + 1 \in S
  <2>1. n \in 0..Bottom /\ n \in Nat /\ Width \in Nat \ {0} /\ Width ^ n \in Nat \ {0}
    BY <1>2, WidthAssumption
  <2>2. Width ^ (n + 1) = Width * Width ^ n
    BY <2>1, PowersAssumption
  <2>3. \A x, y \in Nat \ {0} : x * y \in Nat \ {0}
    BY SMT
  <2>4. Width * Width ^ n \in Nat \ {0}
    BY <2>1, <2>3
  <2> QED
    BY <2>1, <2>2, <2>4
<1> HIDE DEF S, N
<1>3. \A n \in 0..N : n \in S
  BY <1>1, <1>2, Upwards
<1> QED
  BY <1>3 DEF S, N

LEMMA Constants ==
    /\ Width \in Nat /\ Width > 0 /\ Bottom \in Nat /\ MaxInserts \in Nat
    /\ Space \in Nat /\ Space > 0 /\ Addrs = 0..(Space - 1)
    /\ Idx = 0..(Width - 1) /\ Levels = 0..Bottom
<1>1. Width \in Nat \ {0} /\ Bottom \in Nat /\ MaxInserts \in Nat
  BY WidthAssumption, BoundsAssumption
<1>2. Bottom + 1 \in 0..(Bottom + 1)
  BY <1>1
<1>3. Space \in Nat \ {0}
  BY <1>2, Powers DEF Space
<1> QED
  BY <1>1, <1>3 DEF Addrs, Idx, Levels, Space

LEMMA IndexInRange ==
    ASSUME NEW a \in Addrs, NEW l \in Levels
    PROVE  Index(a, l) \in Idx
<1>1. Bottom - l \in 0..(Bottom + 1) /\ a \in Nat
  BY Constants
<1> DEFINE p == Width ^ (Bottom - l)
<1>2. p \in Nat \ {0}
  BY <1>1, Powers
<1> HIDE DEF p
<1>3. a \div p \in Int
  BY <1>1, <1>2
<1>4. (a \div p) % Width \in 0..(Width - 1)
  BY <1>3, Constants
<1> QED
  BY <1>4, Constants DEF Index, p

LEMMA Entries ==
    /\ Inval \in Entry /\ Inval.type = "inval"
    /\ Empty \in [Idx -> Entry] /\ \A i \in Idx : Empty[i].type = "inval"
    /\ \A k \in Nat : \A m \in {"recorder", "replayer"} :
          /\ Pte(k, m) \in Entry /\ Pte(k, m).type = "pte" /\ Pte(k, m).page = k
          /\ Pte(k, m).of = m
          /\ Ate(k, m) \in Entry /\ Ate(k, m).type # "pte"
<1>1. Inval \in Entry /\ Inval.type = "inval"
  BY DEF Inval, Entry
<1>2. \A k \in Nat : \A m \in {"recorder", "replayer"} :
          /\ Pte(k, m) \in Entry /\ Pte(k, m).type = "pte" /\ Pte(k, m).page = k
          /\ Pte(k, m).of = m
          /\ Ate(k, m) \in Entry /\ Ate(k, m).type # "pte"
  BY DEF Pte, Ate, Entry
<1> QED
  BY <1>1, <1>2 DEF Empty

(* The smaller of two numbers.                                             *)
LEMMA Smaller ==
    ASSUME NEW x \in Nat, NEW y \in Nat
    PROVE  Min({x, y}) \in {x, y} /\ Min({x, y}) <= x /\ Min({x, y}) <= y
<1>1. \E m \in {x, y} : \A z \in {x, y} : m <= z
  <2>1. CASE x <= y
    BY <2>1
  <2>2. CASE y <= x
    BY <2>2
  <2> QED
    BY <2>1, <2>2
<1> QED
  BY <1>1 DEF Min

-----------------------------------------------------------------------------
(* Sequences.                                                              *)

(* A function on 1..n is a sequence.                                       *)
LEMMA SeqOfFunction ==
    ASSUME NEW S, NEW n \in Nat, NEW f \in [1..n -> S]
    PROVE  f \in Seq(S) /\ Len(f) = n
<1>1. f \in Seq(S)
  BY SeqDef
<1>2. DOMAIN f = 1..Len(f) /\ Len(f) \in Nat
  BY <1>1, LenProperties
<1> QED
  BY <1>1, <1>2

(* The top of a stack, and what is below it.                               *)
LEMMA Popped ==
    ASSUME NEW S, NEW s \in Seq(S), s # << >>
    PROVE  /\ Len(s) \in Nat /\ Len(s) > 0 /\ Last(s) = s[Len(s)] /\ Last(s) \in S
           /\ Front(s) \in Seq(S) /\ Len(Front(s)) = Len(s) - 1
           /\ DOMAIN Front(s) = 1..(Len(s) - 1)
           /\ \A d \in 1..(Len(s) - 1) : Front(s)[d] = s[d]
           /\ (Front(s) = << >> <=> Len(s) = 1)
<1>1. Len(s) \in Nat /\ Len(s) > 0
  BY EmptySeq
<1>2. \A d \in 1..Len(s) : s[d] \in S
  BY ElementOfSeq
<1> DEFINE n == Len(s) - 1
<1>3. /\ SubSeq(s, 1, n) \in Seq(S) /\ Len(SubSeq(s, 1, n)) = n
      /\ \A d \in 1..n : SubSeq(s, 1, n)[d] = s[d]
  <2>1. n \in Nat /\ 1 \in Int /\ n \in Int /\ \A d \in 1..n : s[d] \in S
    BY <1>1, <1>2
  <2> HIDE DEF n
  <2>2. /\ SubSeq(s, 1, n) \in Seq(S)
        /\ Len(SubSeq(s, 1, n)) = IF 1 <= n THEN n - 1 + 1 ELSE 0
        /\ \A d \in 1..(n - 1 + 1) : SubSeq(s, 1, n)[d] = s[1 + d - 1]
    BY <2>1, SubSeqProperties
  <2>3. n - 1 + 1 = n /\ \A d \in 1..n : 1 + d - 1 = d
    BY <2>1
  <2> QED
    BY <2>1, <2>2, <2>3
<1>4. Front(s) = SubSeq(s, 1, n) /\ Last(s) = s[Len(s)]
  BY DEF Front, Last
<1>5. /\ Front(s) \in Seq(S) /\ Len(Front(s)) = Len(s) - 1
      /\ \A d \in 1..(Len(s) - 1) : Front(s)[d] = s[d]
  BY <1>3, <1>4
<1>6. DOMAIN Front(s) = 1..(Len(s) - 1)
  BY <1>5, LenProperties
<1>7. Front(s) = << >> <=> Len(s) = 1
  <2>1. Front(s) = << >> => Len(Front(s)) = 0
    BY EmptySeq
  <2>2. Front(s) # << >> => Len(Front(s)) \in Nat \ {0}
    BY <1>5, EmptySeq
  <2> QED
    BY <1>1, <1>5, <2>1, <2>2
<1> QED
  BY <1>1, <1>2, <1>4, <1>5, <1>6, <1>7

-----------------------------------------------------------------------------
(* The driver's tables.                                                    *)

LEMMA TablesTyped ==
    ASSUME TypeOK
    PROVE  /\ Len(tables) \in Nat /\ DOMAIN tables = 1..Len(tables)
           /\ \A k \in DOMAIN tables :
                 tables[k] \in [Idx -> Entry] /\ \A i \in Idx : tables[k][i] \in Entry
           /\ \A k \in DOMAIN tables : \A i \in Idx : tables[k][i].page \in Nat
<1>1. Len(tables) \in Nat /\ DOMAIN tables = 1..Len(tables)
  BY LenProperties DEF TypeOK
<1>2. \A k \in DOMAIN tables : tables[k] \in [Idx -> Entry]
  BY <1>1, ElementOfSeq DEF TypeOK
<1>3. \A e \in Entry : e.page \in Nat
  BY DEF Entry
<1> QED
  BY <1>1, <1>2, <1>3

DumpType == [pc : {"no", "walk", "tables", "done"}, stack : Seq(DumpFrame),
             cap : Nat, count : Nat]

LEMMA DumpTyped ==
    ASSUME TypeOK
    PROVE  /\ dump.stack \in Seq(DumpFrame) /\ DOMAIN dump.stack = 1..Len(dump.stack)
           /\ Len(dump.stack) \in Nat /\ dump.cap \in Nat /\ dump.count \in Nat
           /\ \A d \in DOMAIN dump.stack :
                 /\ dump.stack[d] \in DumpFrame /\ dump.stack[d].table \in Nat
                 /\ dump.stack[d].level \in Levels /\ dump.stack[d].i \in -1..Width
<1>1. dump.stack \in Seq(DumpFrame) /\ dump.cap \in Nat /\ dump.count \in Nat
  BY DEF TypeOK
<1>2. DOMAIN dump.stack = 1..Len(dump.stack) /\ Len(dump.stack) \in Nat
  BY <1>1, LenProperties
<1>3. \A d \in DOMAIN dump.stack : dump.stack[d] \in DumpFrame
  BY <1>1, <1>2, ElementOfSeq
<1>4. \A f \in DumpFrame : f.table \in Nat /\ f.level \in Levels /\ f.i \in -1..Width
  BY DEF DumpFrame
<1> QED
  BY <1>1, <1>2, <1>3, <1>4

FileRec == [page : Nat, entries : [Idx -> Entry]]

LEMMA FileTyped ==
    ASSUME TypeOK
    PROVE  /\ file \in Seq(FileRec) /\ DOMAIN file = 1..Len(file) /\ Len(file) \in Nat
           /\ \A n \in DOMAIN file :
                 /\ file[n] \in FileRec /\ file[n].page \in Nat
                 /\ file[n].entries \in [Idx -> Entry]
                 /\ \A i \in Idx : file[n].entries[i] \in Entry
<1>1. file \in Seq(FileRec)
  BY DEF TypeOK, FileRec
<1>2. DOMAIN file = 1..Len(file) /\ Len(file) \in Nat
  BY <1>1, LenProperties
<1>3. \A n \in DOMAIN file : file[n] \in FileRec
  BY <1>1, <1>2, ElementOfSeq
<1>4. \A f \in FileRec : f.page \in Nat /\ f.entries \in [Idx -> Entry]
  BY DEF FileRec
<1> QED
  BY <1>1, <1>2, <1>3, <1>4

(* The step leaves every link, and adds none.                              *)
SameLinks ==
    /\ DOMAIN tables' = DOMAIN tables
    /\ \A k \in DOMAIN tables : \A i \in Idx :
          tables[k][i].type = "pte" \/ tables'[k][i].type = "pte" => tables'[k][i] = tables[k][i]

LEMMA SameLoad ==
    ASSUME LoadInv, UNCHANGED <<dump, file, load, new>>
    PROVE  LoadInv'
<1>1. dump' = dump /\ file' = file /\ load' = load /\ new' = new
  OBVIOUS
<1>2. \A f, i : Takes(f, i)' <=> Takes(f, i)
  BY <1>1 DEF Takes
<1>3. \A d : FrameInv(d) => FrameInv(d)'
  BY <1>1, <1>2 DEF FrameInv
<1> QED
  BY <1>1, <1>3 DEF LoadInv

(* Such a step preserves the tree and what is known of the dump.           *)
LEMMA SameTree ==
    ASSUME NEW lv, Shape(lv), SameLinks, UNCHANGED <<dump, file, load, new>>,
           \A k \in DOMAIN tables : lv[k] < Bottom =>
              \A i \in Idx : tables'[k][i].type = "ate" => tables[k][i].type = "ate",
           ins'.on => ins'.table \in DOMAIN tables /\ lv[ins'.table] = ins'.level
    PROVE  TreeInv(lv)' /\ WalkInv(lv)' /\ FileInv(lv)' /\ StoreInv(lv)' /\ LoadInv'
<1> USE DEF Shape
<1>1. \A k \in DOMAIN tables : \A i \in Idx : \A c : Child(k, i, c)' <=> Child(k, i, c)
  BY DEF SameLinks, Child
<1>2. DOMAIN tables' = DOMAIN tables
  BY DEF SameLinks
<1>3. \A k \in DOMAIN tables : \A i \in Idx :
         /\ tables'[k][i].type = "pte" <=> tables[k][i].type = "pte"
         /\ tables[k][i].type = "pte" => tables'[k][i].page = tables[k][i].page
  BY DEF SameLinks
<1>4. TreeInv(lv)'
  <2>1. \A k \in DOMAIN tables : \A i \in Idx :
           tables'[k][i].type = "pte" => tables'[k][i].page \in DOMAIN tables
    BY DEF TreeInv, SameLinks
  <2>2. /\ \A k, c \in DOMAIN tables : \A i \in Idx :
              Child(k, i, c)' => k < c /\ lv[c] = lv[k] + 1
        /\ \A c \in DOMAIN tables : \A k, m \in DOMAIN tables : \A i, j \in Idx :
              Child(k, i, c)' /\ Child(m, j, c)' => k = m /\ i = j
        /\ \A c \in DOMAIN tables \ {1} : \E k \in DOMAIN tables : \E i \in Idx : Child(k, i, c)'
    BY <1>1 DEF TreeInv
  <2>3. \A k \in DOMAIN tables : lv[k] < Bottom => \A i \in Idx : tables'[k][i].type # "ate"
    BY DEF TreeInv
  <2> QED
    BY <1>2, <2>1, <2>2, <2>3 DEF TreeInv
<1>5. /\ \A k : Stored(k)' <=> Stored(k)
      /\ \A k, i : Past(k, i)' <=> Past(k, i)
      /\ \A c : Pending(c)' <=> Pending(c)
      /\ \A n, p : Under(lv, n, p)' <=> Under(lv, n, p)
      /\ Full' <=> Full
  BY DEF Stored, Past, Pending, DumpTop, Under, Full
<1>6. WalkInv(lv)'
  <2>1. dump' = dump /\ file' = file
    OBVIOUS
  <2>2. ASSUME NEW d \in DOMAIN dump.stack, d < Len(dump.stack), dump.stack[d].i > 0,
               dump.stack[d].table \in DOMAIN tables,
               Child(dump.stack[d].table, dump.stack[d].i - 1, dump.stack[d + 1].table)
        PROVE  Child(dump.stack[d].table, dump.stack[d].i - 1, dump.stack[d + 1].table)'
    <3>1. dump.stack[d] \in DumpFrame
      BY LenProperties, ElementOfSeq DEF TypeOK
    <3>2. dump.stack[d].i - 1 \in Idx
      BY <2>2, <3>1, Constants, SMTT(30) DEF DumpFrame
    <3> QED
      BY <1>3, <2>1, <2>2, <3>2 DEF Child
  <2> QED
    BY <1>2, <1>5, <2>1, <2>2 DEF WalkInv, DumpTop
<1>7. FileInv(lv)'
  <2>1. file' = file /\ dump' = dump
    OBVIOUS
  <2>2. \A n \in DOMAIN file : file[n].page \in DOMAIN tables
    BY DEF FileInv
  <2>3. \A n \in DOMAIN file : \A i \in Idx :
           file[n].entries[i].type = "pte" => tables'[file[n].page][i] = file[n].entries[i]
    BY <2>2 DEF FileInv, SameLinks
  <2>4. \A p \in DOMAIN file : \A k \in DOMAIN tables : \A i \in Idx :
           Child(k, i, file[p].page)' => Past(k, i)' /\ Stored(k)'
    BY <1>5, <1>3, <2>1 DEF FileInv, Child
  <2>5. \A n, p \in DOMAIN file : \A i \in Idx :
           Child(file[n].page, i, file[p].page)' => n < p /\ Under(lv, n, p)'
    BY <1>5, <1>3, <2>1, <2>2 DEF FileInv, Child
  <2>6. \A n, r \in DOMAIN file : \A i, j \in Idx :
           i < j /\ file[n].entries[i].type = "pte" /\ Child(file[n].page, j, file[r].page)'
              => \E p \in 1..(r - 1) : file[p].page = file[n].entries[i].page
    BY <1>3, <2>1, <2>2 DEF FileInv, Child
  <2> QED
    BY <1>2, <2>1, <2>2, <2>3, <2>4, <2>5, <2>6 DEF FileInv
<1>8. StoreInv(lv)'
  BY <1>5 DEF StoreInv
<1>9. LoadInv'
  BY SameLoad
<1> QED
  BY <1>4, <1>6, <1>7, <1>8, <1>9

LEMMA QuietKept ==
    ASSUME TypeOK, QuietInv, Driving, UNCHANGED <<dump, file>>,
           Changed \/ UNCHANGED <<tables, raced>>
    PROVE  QuietInv'
<1>1. dump.pc \in {"no", "walk", "tables"}
  BY DEF TypeOK, Driving
<1>2. CASE Changed
  BY <1>1, <1>2 DEF QuietInv, Changed
<1>3. CASE UNCHANGED <<tables, raced>>
  BY <1>3 DEF QuietInv
<1> QED
  BY <1>2, <1>3

InsType == [on : BOOLEAN, start : Addrs, addr : Addrs, end : Nat, level : Levels, table : Nat,
            cpu : BOOLEAN]

(* Where the insertion under way stands, and the entry it looks at.        *)
LEMMA InsertionAt ==
    ASSUME NEW lv, Shape(lv), ins.on
    PROVE  /\ ins \in InsType /\ ins.addr < ins.end /\ ins.end <= Space
           /\ ins.table \in DOMAIN tables /\ lv[ins.table] = ins.level
           /\ \A l \in Levels : Index(ins.addr, l) \in Idx
           /\ Here \in Entry /\ Here.page \in Nat
<1>1. ins \in InsType /\ ins.addr < ins.end /\ ins.end <= Space
  BY DEF Shape, TypeOK, InsInv, InsType, Space
<1>2. ins.table \in DOMAIN tables /\ lv[ins.table] = ins.level
  BY DEF Shape, TreeInv
<1>3. ins.addr \in Addrs /\ ins.level \in Levels
  BY <1>1 DEF InsType
<1>4. \A l \in Levels : Index(ins.addr, l) \in Idx
  BY <1>3, IndexInRange
<1>5. Here \in Entry /\ Here.page \in Nat
  BY <1>2, <1>3, <1>4, TablesTyped DEF Here, Shape
<1> QED
  BY <1>1, <1>2, <1>4, <1>5

(* A step of the driver that only moves the insertion, ends it or begins   *)
(* one.                                                                    *)
LEMMA OnlyIns ==
    ASSUME NEW lv, Shape(lv), Driving, ins' \in InsType, InsInv',
           ins'.on => ins'.table \in DOMAIN tables /\ lv[ins'.table] = ins'.level,
           inserts' \in 0..MaxInserts, recorded' \subseteq Addrs,
           UNCHANGED <<tables, raced, dump, file, load, new, user>>
    PROVE  Shape(lv)'
<1>1. TypeOK'
  BY DEF Shape, TypeOK, InsType
<1>2. SameLinks
  BY DEF SameLinks
<1>3. QuietInv'
  BY QuietKept DEF Shape
<1> QED
  BY <1>1, <1>2, <1>3, SameTree DEF Shape

LEMMA NotInserting == NoIns \in InsType /\ ~NoIns.on
BY Constants DEF NoIns, InsType

LEMMA InsertBeginStep ==
    ASSUME NEW lv, Shape(lv), NEW r \in Ranges, NEW cpu \in BOOLEAN, InsertBegin(r, cpu)
    PROVE  Shape(lv)'
<1>1. /\ r.start \in Addrs /\ r.nr \in Nat \ {0} /\ r.start + (r.nr - 1) \in Addrs
  BY RangesAssumption
<1>2. /\ r.start \in Nat /\ r.start < r.start + r.nr /\ r.start + r.nr \in Nat
      /\ r.start + r.nr <= Space
  BY <1>1, Constants, SMTT(30)
<1>3. /\ ins' = [NoIns EXCEPT !.on = TRUE, !.start = r.start, !.addr = r.start,
                              !.end = r.start + r.nr, !.cpu = cpu]
      /\ Driving /\ inserts < MaxInserts /\ inserts' = inserts + 1
      /\ UNCHANGED <<tables, recorded, raced, dump, file, load, new, user>>
  BY DEF InsertBegin
<1>4. ins' = [on |-> TRUE, start |-> r.start, addr |-> r.start, end |-> r.start + r.nr,
              level |-> 0, table |-> 1, cpu |-> cpu]
  BY <1>3 DEF NoIns
<1>5. ins' \in InsType
  BY <1>1, <1>2, <1>4, Constants DEF InsType
<1>6. InsInv'
  BY <1>2, <1>4 DEF InsInv, Space
<1>7. ins'.table \in DOMAIN tables /\ lv[ins'.table] = ins'.level
  <2>1. ins'.table = 1 /\ ins'.level = 0
    BY <1>4
  <2> QED
    BY <2>1 DEF Shape, TreeInv
<1>8. inserts' \in 0..MaxInserts /\ recorded' \subseteq Addrs
  <2>1. inserts \in 0..MaxInserts /\ recorded \subseteq Addrs
    BY DEF Shape, TypeOK
  <2> QED
    BY <1>3, <2>1, Constants
<1> QED
  BY <1>3, <1>5, <1>6, <1>7, <1>8, OnlyIns

LEMMA CpuFaultStep ==
    ASSUME NEW lv, Shape(lv), NEW a \in Addrs, CpuFault(a)
    PROVE  Shape(lv)'
<1>1. /\ Driving /\ recorded' = recorded \cup {a}
      /\ UNCHANGED <<tables, inserts, ins, raced, dump, file, load, new, user>>
  BY DEF CpuFault
<1>2. ins' \in InsType /\ inserts' \in 0..MaxInserts /\ recorded' \subseteq Addrs /\ InsInv'
  BY <1>1 DEF Shape, TypeOK, InsType, InsInv
<1>3. ins'.on => ins'.table \in DOMAIN tables /\ lv[ins'.table] = ins'.level
  BY <1>1 DEF Shape, TreeInv
<1> QED
  BY <1>1, <1>2, <1>3, OnlyIns

(* Entries are changed that are no links before or after.                  *)
LEMMA OnlyEntries ==
    ASSUME NEW lv, Shape(lv), Driving, tables' \in Seq([Idx -> Entry]), SameLinks,
           \A k \in DOMAIN tables : lv[k] < Bottom =>
              \A i \in Idx : tables'[k][i].type = "ate" => tables[k][i].type = "ate",
           Changed \/ UNCHANGED <<tables, raced>>, raced' \in BOOLEAN,
           ins' \in InsType, InsInv',
           ins'.on => ins'.table \in DOMAIN tables /\ lv[ins'.table] = ins'.level,
           recorded' \subseteq Addrs,
           UNCHANGED <<inserts, dump, file, load, new, user>>
    PROVE  Shape(lv)'
<1>1. TypeOK'
  BY DEF Shape, TypeOK, InsType
<1>2. QuietInv'
  BY QuietKept DEF Shape
<1> QED
  BY <1>1, <1>2, SameTree DEF Shape

LEMMA InsertFailsStep ==
    ASSUME NEW lv, Shape(lv), InsertFails
    PROVE  Shape(lv)'
<1>1. /\ Driving /\ ins.on /\ ins' = NoIns
      /\ tables' = [k \in DOMAIN tables |-> [i \in Idx |->
                      IF tables[k][i].type = "ate" /\ tables[k][i].page \in ins.start..(ins.addr - 1)
                      THEN Inval ELSE tables[k][i]]]
      /\ IF ins.addr > ins.start THEN Changed ELSE UNCHANGED raced
      /\ UNCHANGED <<inserts, recorded, dump, file, load, new, user>>
  BY DEF InsertFails
<1>2. TypeOK /\ ins \in InsType
  BY DEF Shape, TypeOK, InsType
<1>3. tables' \in [1..Len(tables) -> [Idx -> Entry]]
  BY <1>1, <1>2, TablesTyped, Entries
<1>4. tables' \in Seq([Idx -> Entry])
  BY <1>2, <1>3, TablesTyped, SeqOfFunction
<1>5. SameLinks
  BY <1>1, Entries DEF SameLinks
<1>6. Changed \/ UNCHANGED <<tables, raced>>
  <2>1. ASSUME ~(ins.addr > ins.start) PROVE tables' = tables
    <3>1. ins.start..(ins.addr - 1) = {}
      BY <1>2, <2>1, Constants DEF InsType
    <3>2. tables' = [k \in DOMAIN tables |-> [i \in Idx |-> tables[k][i]]]
      BY <1>1, <3>1
    <3>3. \A k \in DOMAIN tables : tables[k] = [i \in Idx |-> tables[k][i]]
      BY <1>2, TablesTyped
    <3>4. tables = [k \in DOMAIN tables |-> tables[k]]
      BY <1>2, LenProperties DEF TypeOK
    <3> QED
      BY <3>2, <3>3, <3>4
  <2> QED
    BY <1>1, <2>1
<1>7. raced' \in BOOLEAN /\ recorded' \subseteq Addrs
  BY <1>1 DEF Shape, TypeOK, Changed
<1>8. ins' \in InsType /\ InsInv' /\ ~ins'.on
  BY <1>1, NotInserting DEF InsInv
<1>9. \A k \in DOMAIN tables : \A i \in Idx :
         tables'[k][i].type = "ate" => tables[k][i].type = "ate"
  BY <1>1, Entries
<1> QED
  BY <1>1, <1>4, <1>5, <1>6, <1>7, <1>8, <1>9, OnlyEntries

LEMMA TeardownStep ==
    ASSUME NEW lv, Shape(lv), NEW a \in Addrs, Teardown(a)
    PROVE  Shape(lv)'
<1> DEFINE t == TableAt(tables, a, Bottom)
           x == Index(a, Bottom)
<1>1. /\ Driving /\ ~ins.on /\ tables[t][x].type = "ate" /\ Changed
      /\ tables' = [tables EXCEPT ![t][x] = Inval]
      /\ UNCHANGED <<inserts, ins, recorded, dump, file, load, new, user>>
  BY DEF Teardown, MappedPages
<1> HIDE DEF t, x
<1>2. tables \in [1..Len(tables) -> [Idx -> Entry]] /\ Len(tables) \in Nat
  BY LenProperties DEF Shape, TypeOK
<1>3. tables' \in [1..Len(tables) -> [Idx -> Entry]]
  BY <1>1, <1>2, Entries
<1>4. tables' \in Seq([Idx -> Entry])
  BY <1>2, <1>3, SeqOfFunction
<1>5. SameLinks
  BY <1>1, <1>2, Entries DEF SameLinks
<1>6. ins' \in InsType /\ InsInv' /\ raced' \in BOOLEAN /\ recorded' \subseteq Addrs
  BY <1>1 DEF Shape, TypeOK, InsType, InsInv, Changed
<1>7. \A k \in DOMAIN tables : \A i \in Idx :
         tables'[k][i].type = "ate" => tables[k][i].type = "ate"
  BY <1>1, <1>2, Entries
<1> QED
  BY <1>1, <1>4, <1>5, <1>6, <1>7, OnlyEntries

(* The entries of one table of the bottom level, which has no links.       *)
LEMMA InsertEntriesStep ==
    ASSUME NEW lv, Shape(lv), InsertEntries
    PROVE  Shape(lv)'
<1> DEFINE x == Index(ins.addr, Bottom)
           n == Min({Width - x, ins.end - ins.addr})
           b == ins.addr + n
<1>1. Driving /\ ins.on /\ ins.level = Bottom /\ Changed
  BY DEF InsertEntries
<1>2. /\ tables' = [tables EXCEPT ![ins.table] = [i \in Idx |->
                      IF ins.addr + i - x \in ins.addr..(ins.addr + n - 1)
                      THEN Ate(ins.addr + i - x, "recorder") ELSE tables[ins.table][i]]]
  BY DEF InsertEntries
<1>3. /\ IF b < ins.end
         THEN /\ ins' = [ins EXCEPT !.addr = @ + n, !.level = 0, !.table = 1]
              /\ UNCHANGED recorded
         ELSE /\ ins' = NoIns
              /\ recorded' = IF ins.cpu THEN recorded \cup (ins.start..(ins.end - 1)) ELSE recorded
  BY DEF InsertEntries
<1>4. UNCHANGED <<inserts, dump, file, load, new, user>>
  BY DEF InsertEntries
<1>5. /\ ins \in InsType /\ ins.addr < ins.end /\ ins.end <= Space
      /\ ins.table \in DOMAIN tables /\ lv[ins.table] = Bottom /\ x \in Idx
  BY <1>1, Constants, InsertionAt
<1>6. /\ ins.addr \in Nat /\ ins.end \in Nat /\ ins.start \in Nat /\ x \in Nat /\ x < Width
      /\ Width - x \in Nat /\ ins.end - ins.addr \in Nat /\ Space \in Nat
  BY <1>5, Constants DEF InsType
<1> HIDE DEF x
<1>7. n \in Nat /\ n <= ins.end - ins.addr /\ n > 0
  <2>1. n \in {Width - x, ins.end - ins.addr} /\ n <= ins.end - ins.addr
    BY <1>6, Smaller
  <2> HIDE DEF n
  <2> QED
    BY <1>5, <1>6, <2>1, Constants
<1> HIDE DEF n
<1>8. \A i \in Idx : ins.addr + i - x \in ins.addr..(ins.addr + n - 1) => ins.addr + i - x \in Nat
  BY <1>6, <1>7, Constants
<1>9. TypeOK /\ Len(tables) \in Nat /\ tables \in [1..Len(tables) -> [Idx -> Entry]]
  BY LenProperties DEF Shape, TypeOK
<1> DEFINE t == [i \in Idx |-> IF ins.addr + i - x \in ins.addr..(ins.addr + n - 1)
                               THEN Ate(ins.addr + i - x, "recorder") ELSE tables[ins.table][i]]
<1>10. /\ t \in [Idx -> Entry]
      /\ \A i \in Idx : t[i].type = "pte" => t[i] = tables[ins.table][i]
  <2>1. \A i \in Idx : tables[ins.table][i] \in Entry
    BY <1>5, <1>9, TablesTyped
  <2> QED
    BY <1>8, <2>1, Entries
<1>11. tables' = [tables EXCEPT ![ins.table] = t]
  BY <1>2
<1> HIDE DEF t
<1>12. tables' \in [1..Len(tables) -> [Idx -> Entry]]
  BY <1>9, <1>10, <1>11
<1>13. tables' \in Seq([Idx -> Entry])
  BY <1>9, <1>12, SeqOfFunction
<1>14. \A i \in Idx : tables[ins.table][i].type # "pte"
  <2> SUFFICES ASSUME NEW i \in Idx, tables[ins.table][i].type = "pte" PROVE FALSE
    OBVIOUS
  <2> DEFINE c == tables[ins.table][i].page
  <2>1. c \in DOMAIN tables /\ lv[c] = Bottom + 1 /\ lv[c] \in Levels
    BY <1>5 DEF Shape, TreeInv, Child
  <2> QED
    BY <2>1, Constants
<1>15. SameLinks
  BY <1>5, <1>9, <1>10, <1>11, <1>14 DEF SameLinks
<1>16. \A k \in DOMAIN tables : lv[k] < Bottom =>
           \A i \in Idx : tables'[k][i].type = "ate" => tables[k][i].type = "ate"
  <2>1. \A k \in DOMAIN tables : lv[k] < Bottom => k # ins.table
    BY <1>5, Constants
  <2>2. \A k \in DOMAIN tables : k # ins.table => tables'[k] = tables[k]
    BY <1>11
  <2> QED
    BY <2>1, <2>2
<1>17. CASE b < ins.end
  <2>1. ins' = [on |-> ins.on, start |-> ins.start, addr |-> b, end |-> ins.end, level |-> 0,
                table |-> 1, cpu |-> ins.cpu]
    BY <1>3, <1>5, <1>17 DEF InsType
  <2>2. b \in Addrs
    <3>1. ins.end <= Space
      BY <1>5
    <3>2. b \in Nat /\ b < Space
      BY <1>6, <1>7, <1>17, <3>1
    <3> QED
      BY <3>2, Constants
  <2>3. ins' \in InsType
    BY <1>5, <2>1, <2>2, Constants DEF InsType
  <2>4. InsInv'
    BY <1>5, <1>17, <2>1 DEF InsInv, Space
  <2>5. ins'.table = 1 /\ ins'.level = 0
    BY <2>1
  <2>6. ins'.table \in DOMAIN tables /\ lv[ins'.table] = ins'.level
    BY <2>5 DEF Shape, TreeInv
  <2>7. raced' \in BOOLEAN /\ recorded' \subseteq Addrs
    BY <1>1, <1>3, <1>17 DEF Shape, TypeOK, Changed
  <2> QED
    BY <1>1, <1>4, <1>13, <1>15, <1>16, <2>3, <2>4, <2>6, <2>7, OnlyEntries
<1>18. CASE ~(b < ins.end)
  <2>1. ins' = NoIns /\ ins' \in InsType /\ InsInv' /\ ~ins'.on
    BY <1>1, <1>3, <1>18, NotInserting DEF InsInv
  <2>2. ins.start..(ins.end - 1) \subseteq Addrs
    BY <1>5, <1>6, Constants
  <2>3. raced' \in BOOLEAN /\ recorded' \subseteq Addrs
    BY <1>1, <1>3, <1>18, <2>2 DEF Shape, TypeOK, Changed
  <2> QED
    BY <1>1, <1>4, <1>13, <1>15, <1>16, <2>1, <2>3, OnlyEntries
<1> QED
  BY <1>17, <1>18

(* Down a link that is there.                                              *)
LEMMA InsertFollowsStep ==
    ASSUME NEW lv, Shape(lv), InsertDown, Here.type = "pte"
    PROVE  Shape(lv)'
<1>1. /\ Driving /\ ins.on /\ ins.level < Bottom
      /\ ins' = [ins EXCEPT !.level = @ + 1, !.table = Here.page]
      /\ UNCHANGED <<tables, raced, inserts, recorded, dump, file, load, new, user>>
  BY DEF InsertDown
<1>2. /\ ins \in InsType /\ ins.table \in DOMAIN tables /\ lv[ins.table] = ins.level
      /\ Index(ins.addr, ins.level) \in Idx /\ Here.page \in Nat
  BY <1>1, InsertionAt DEF InsType
<1>3. Here.page \in DOMAIN tables /\ lv[Here.page] = ins.level + 1
  BY <1>2 DEF Shape, TreeInv, Child, Here
<1>4. ins' = [on |-> ins.on, start |-> ins.start, addr |-> ins.addr, end |-> ins.end,
              level |-> ins.level + 1, table |-> Here.page, cpu |-> ins.cpu]
  BY <1>1, <1>2 DEF InsType
<1>5. ins.level + 1 \in Levels
  BY <1>1, <1>2, Constants, SMTT(30) DEF InsType
<1>6. ins' \in InsType
  BY <1>2, <1>4, <1>5 DEF InsType
<1>7. InsInv'
  BY <1>1, <1>4 DEF Shape, InsInv
<1>8. ins'.table \in DOMAIN tables /\ lv[ins'.table] = ins'.level
  BY <1>3, <1>4
<1>9. inserts' \in 0..MaxInserts /\ recorded' \subseteq Addrs
  BY <1>1 DEF Shape, TypeOK
<1> QED
  BY <1>1, <1>6, <1>7, <1>8, <1>9, OnlyIns

(* Down a link to a new table, which joins the tree.                       *)
NewLevels(lv) == [k \in 1..(Len(tables) + 1) |->
                     IF k = Len(tables) + 1 THEN ins.level + 1 ELSE lv[k]]

LEMMA NewTable ==
    ASSUME NEW lv, Shape(lv), InsertDown, Here.type # "pte"
    PROVE  /\ tables' \in Seq([Idx -> Entry])
           /\ Len(tables) \in Nat /\ Len(tables) > 0 /\ DOMAIN tables = 1..Len(tables)
           /\ DOMAIN tables' = 1..(Len(tables) + 1)
           /\ ins.table \in 1..Len(tables) /\ lv[ins.table] = ins.level
           /\ ins.level + 1 \in Levels /\ Index(ins.addr, ins.level) \in Idx
           /\ \A k \in 1..(Len(tables) + 1) : \A i \in Idx : \A c : Child(k, i, c)' <=>
                 \/ k \in 1..Len(tables) /\ Child(k, i, c)
                 \/ k = ins.table /\ i = Index(ins.addr, ins.level) /\ c = Len(tables) + 1
           /\ \A k \in 1..(Len(tables) + 1) : \A i \in Idx : tables'[k][i].type = "pte" =>
                 \/ k \in 1..Len(tables) /\ tables[k][i].type = "pte"
                    /\ tables'[k][i].page = tables[k][i].page
                 \/ tables'[k][i].page = Len(tables) + 1
           /\ \A k \in 1..Len(tables) : \A i \in Idx :
                 tables[k][i].type = "pte" => tables'[k][i] = tables[k][i]
           /\ \A k \in 1..(Len(tables) + 1) : \A i \in Idx : tables'[k][i].type = "ate" =>
                 k \in 1..Len(tables) /\ tables[k][i].type = "ate"
<1> DEFINE n == Len(tables)
           t == ins.table
           x == Index(ins.addr, ins.level)
           w == [tables EXCEPT ![t][x] = Pte(n + 1, "recorder")]
<1>1. ins.on /\ ins.level < Bottom /\ tables' = Append(w, Empty)
  BY DEF InsertDown
<1>2. /\ ins \in InsType /\ t \in DOMAIN tables /\ lv[t] = ins.level
      /\ \A l \in Levels : Index(ins.addr, l) \in Idx
  BY <1>1, InsertionAt
<1>3. ins.level \in Levels /\ x \in Idx /\ ins.level + 1 \in Levels
  BY <1>1, <1>2, Constants, SMTT(30) DEF InsType
<1>4. n \in Nat /\ DOMAIN tables = 1..n /\ 1 \in DOMAIN tables /\ tables[t][x].type # "pte"
  BY TablesTyped DEF Shape, TreeInv, Here
<1>5. tables \in [1..n -> [Idx -> Entry]]
  BY LenProperties DEF Shape, TypeOK
<1>6. Pte(n + 1, "recorder") \in Entry
  BY <1>4, Entries
<1>7. w \in [1..n -> [Idx -> Entry]]
  BY <1>5, <1>6
<1>8. \A k \in 1..n : \A i \in Idx :
         w[k][i] = IF k = t /\ i = x THEN Pte(n + 1, "recorder") ELSE tables[k][i]
  BY <1>2, <1>3, <1>4, <1>5
<1> HIDE DEF w, x
<1>9. w \in Seq([Idx -> Entry]) /\ Len(w) = n
  BY <1>4, <1>7, SeqOfFunction
<1>10. /\ tables' \in Seq([Idx -> Entry]) /\ Len(tables') = n + 1 /\ tables'[n + 1] = Empty
       /\ \A k \in 1..n : tables'[k] = w[k]
  BY <1>1, <1>9, Entries, AppendProperties
<1>11. DOMAIN tables' = 1..(n + 1)
  BY <1>10, LenProperties
<1> HIDE DEF n, t
<1>12. /\ \A i \in Idx : tables'[n + 1][i].type # "pte" /\ tables'[n + 1][i].type # "ate"
       /\ \A k \in 1..n : \A i \in Idx :
            tables'[k][i] = IF k = t /\ i = x THEN Pte(n + 1, "recorder") ELSE tables[k][i]
       /\ Pte(n + 1, "recorder").type = "pte" /\ Pte(n + 1, "recorder").page = n + 1
       /\ \A k \in 1..(n + 1) : k \in 1..n \/ k = n + 1
       /\ t \in 1..n /\ n + 1 \notin 1..n
  BY <1>2, <1>4, <1>8, <1>10, Entries
<1>13. \A k \in 1..(n + 1) : \A i \in Idx : \A c : Child(k, i, c)' <=>
          \/ k \in 1..n /\ Child(k, i, c)
          \/ k = t /\ i = x /\ c = n + 1
  BY <1>3, <1>4, <1>12 DEF Child
<1>14. /\ \A k \in 1..(n + 1) : \A i \in Idx : tables'[k][i].type = "pte" =>
              \/ k \in 1..n /\ tables[k][i].type = "pte"
                 /\ tables'[k][i].page = tables[k][i].page
              \/ tables'[k][i].page = n + 1
       /\ \A k \in 1..n : \A i \in Idx :
              tables[k][i].type = "pte" => tables'[k][i] = tables[k][i]
       /\ \A k \in 1..(n + 1) : \A i \in Idx : tables'[k][i].type = "ate" =>
              k \in 1..n /\ tables[k][i].type = "ate"
  BY <1>3, <1>4, <1>12
<1> QED
  BY <1>2, <1>3, <1>4, <1>10, <1>11, <1>12, <1>13, <1>14 DEF n, t, x

LEMMA InsertLinksStep ==
    ASSUME NEW lv, Shape(lv), InsertDown, Here.type # "pte"
    PROVE  Inv'
<1> DEFINE n == Len(tables)
           t == ins.table
           x == Index(ins.addr, ins.level)
<1>1. /\ Driving /\ ins.on /\ Changed
      /\ ins' = [ins EXCEPT !.level = @ + 1, !.table = n + 1]
      /\ UNCHANGED <<inserts, recorded, dump, file, load, new, user>>
  BY DEF InsertDown
<1>2. /\ ins \in InsType /\ TypeOK /\ ins.addr < ins.end /\ ins.end <= Space
  BY <1>1, InsertionAt DEF Shape
<1>3. /\ tables' \in Seq([Idx -> Entry])
      /\ n \in Nat /\ n > 0 /\ DOMAIN tables = 1..n /\ DOMAIN tables' = 1..(n + 1)
      /\ t \in 1..n /\ lv[t] = ins.level /\ ins.level + 1 \in Levels /\ x \in Idx
  BY NewTable
<1>4. /\ \A k \in 1..(n + 1) : \A i \in Idx : \A c : Child(k, i, c)' <=>
            \/ k \in 1..n /\ Child(k, i, c)
            \/ k = t /\ i = x /\ c = n + 1
      /\ \A k \in 1..(n + 1) : \A i \in Idx : tables'[k][i].type = "pte" =>
             \/ k \in 1..n /\ tables[k][i].type = "pte"
                /\ tables'[k][i].page = tables[k][i].page
             \/ tables'[k][i].page = n + 1
      /\ \A k \in 1..n : \A i \in Idx :
             tables[k][i].type = "pte" => tables'[k][i] = tables[k][i]
      /\ \A k \in 1..(n + 1) : \A i \in Idx : tables'[k][i].type = "ate" =>
             k \in 1..n /\ tables[k][i].type = "ate"
  BY NewTable
<1> PICK lw : lw = NewLevels(lv)
  OBVIOUS
<1>5. /\ lw \in [1..(n + 1) -> Levels] /\ lw[n + 1] = ins.level + 1
      /\ \A k \in 1..n : lw[k] = lv[k]
      /\ \A k \in 1..(n + 1) : k \in 1..n \/ k = n + 1
      /\ n + 1 \notin 1..n
  BY <1>3 DEF NewLevels, Shape, TreeInv
<1> HIDE DEF n, x
<1>6. TypeOK' /\ InsInv' /\ (ins'.on => ins'.table = n + 1 /\ ins'.level = ins.level + 1)
  <2>1. ins' = [on |-> ins.on, start |-> ins.start, addr |-> ins.addr, end |-> ins.end,
                level |-> ins.level + 1, table |-> n + 1, cpu |-> ins.cpu]
    BY <1>1, <1>2 DEF InsType
  <2>2. ins' \in InsType
    BY <1>2, <1>3, <2>1 DEF InsType
  <2>3. InsInv'
    BY <1>2, <2>1 DEF InsInv, Space
  <2>4. raced' \in BOOLEAN
    BY <1>1, <1>2 DEF TypeOK, Changed
  <2> QED
    BY <1>1, <1>2, <1>3, <2>1, <2>2, <2>3, <2>4 DEF TypeOK, InsType
<1>7. QuietInv'
  BY <1>1, <1>2, QuietKept DEF Shape
<1>8. \A k, c \in 1..n : \A i \in Idx : Child(k, i, c) => k < c /\ lv[c] = lv[k] + 1
  BY <1>3 DEF Shape, TreeInv
<1>9. \A k \in 1..n : \A i \in Idx : tables[k][i].type = "pte" => tables[k][i].page \in 1..n
  BY <1>3 DEF Shape, TreeInv
<1>10. \A k \in 1..n : \A i \in Idx : \A c : Child(k, i, c) => c \in 1..n
  BY <1>9 DEF Child
<1>11. TreeInv(lw)'
  <2>1. 1 \in 1..n /\ lw[1] = 0
    BY <1>3, <1>5 DEF Shape, TreeInv
  <2>2. \A k, c \in 1..(n + 1) : \A i \in Idx : Child(k, i, c)' => k < c /\ lw[c] = lw[k] + 1
    <3>1. \A k \in 1..n : \A c : \A i \in Idx : Child(k, i, c) => k < c /\ lw[c] = lw[k] + 1
      BY <1>5, <1>8, <1>10
    <3>2. t < n + 1 /\ lw[n + 1] = lw[t] + 1
      BY <1>3, <1>5
    <3> QED
      BY <1>4, <3>1, <3>2
  <2>3. \A k \in 1..(n + 1) : \A i \in Idx :
           tables'[k][i].type = "pte" => tables'[k][i].page \in 1..(n + 1)
    BY <1>3, <1>4, <1>9, SMTT(30)
  <2>4. \A c \in 1..(n + 1) : \A k, m \in 1..(n + 1) : \A i, j \in Idx :
           Child(k, i, c)' /\ Child(m, j, c)' => k = m /\ i = j
    <3>1. \A c \in 1..n : \A k, m \in 1..n : \A i, j \in Idx :
             Child(k, i, c) /\ Child(m, j, c) => k = m /\ i = j
      BY <1>3 DEF Shape, TreeInv
    <3> QED
      BY <1>3, <1>4, <1>5, <1>10, <3>1
  <2>5. \A c \in (1..(n + 1)) \ {1} : \E k \in 1..(n + 1) : \E i \in Idx : Child(k, i, c)'
    <3>1. ASSUME NEW c \in 1..n, c # 1
          PROVE  \E k \in 1..(n + 1) : \E i \in Idx : Child(k, i, c)'
      <4>1. PICK k \in 1..n : \E i \in Idx : Child(k, i, c)
        BY <1>3, <3>1 DEF Shape, TreeInv
      <4>2. k \in 1..(n + 1)
        BY <1>3
      <4> QED
        BY <1>4, <4>1, <4>2
    <3>2. ASSUME NEW c, c = n + 1
          PROVE  \E k \in 1..(n + 1) : \E i \in Idx : Child(k, i, c)'
      <4>1. PICK k \in 1..(n + 1), i \in Idx : k = t /\ i = x
        BY <1>3
      <4> QED
        BY <1>4, <3>2, <4>1
    <3> QED
      BY <1>3, <1>5, <3>1, <3>2
  <2>6. ins'.on => ins'.table \in 1..(n + 1) /\ lw[ins'.table] = ins'.level
    BY <1>3, <1>5, <1>6
  <2>7. 1 \in 1..(n + 1)
    BY <1>3
  <2>8. \A k \in 1..(n + 1) : lw[k] < Bottom => \A i \in Idx : tables'[k][i].type # "ate"
    <3>1. \A k \in 1..n : lv[k] < Bottom => \A i \in Idx : tables[k][i].type # "ate"
      BY <1>3 DEF Shape, TreeInv
    <3> QED
      BY <1>4, <1>5, <3>1
  <2> QED
    BY <1>3, <1>5, <2>1, <2>2, <2>3, <2>4, <2>5, <2>6, <2>7, <2>8 DEF TreeInv
<1>12. \A p \in DOMAIN file : file[p].page \in 1..n /\ lw[file[p].page] = lv[file[p].page]
  BY <1>3, <1>5 DEF Shape, FileInv
<1>13. /\ \A k : Stored(k)' <=> Stored(k)
       /\ \A k, i : Past(k, i)' <=> Past(k, i)
       /\ \A c : Pending(c)' <=> Pending(c)
       /\ \A m \in DOMAIN file : \A p \in 0..Len(file) : Under(lw, m, p)' <=> Under(lv, m, p)
       /\ Full' <=> Full
  <2>1. \A m \in DOMAIN file : \A p \in 0..Len(file) : \A q \in (m + 1)..p : q \in DOMAIN file
    BY <1>2, FileTyped
  <2>2. \A m \in DOMAIN file : \A p \in 0..Len(file) : Under(lw, m, p)' <=> Under(lv, m, p)
    BY <1>1, <1>12, <2>1 DEF Under
  <2> QED
    BY <1>1, <2>2 DEF Stored, Past, Pending, DumpTop, Full
<1>14. DOMAIN file = 1..Len(file) /\ Len(file) \in Nat
  BY <1>2, FileTyped
<1>15. WalkInv(lw)'
  <2>1. ASSUME NEW d \in DOMAIN dump.stack
        PROVE  LET f == dump.stack[d] IN
               /\ f.level = d - 1 /\ f.table \in 1..(n + 1) /\ lw[f.table] = d - 1
               /\ f.i = -1 => ~Stored(f.table)'
               /\ f.i >= 0 => Stored(f.table)' \/ Full'
               /\ d < Len(dump.stack) =>
                    /\ f.i > 0 /\ tables'[f.table][f.i - 1].type = "pte"
                    /\ tables'[f.table][f.i - 1].page = dump.stack[d + 1].table
    <3>1. LET f == dump.stack[d] IN
          /\ f.level = d - 1 /\ f.table \in 1..n /\ lv[f.table] = d - 1
          /\ f.i = -1 => ~Stored(f.table)
          /\ f.i >= 0 => Stored(f.table) \/ Full
          /\ d < Len(dump.stack) =>
               f.i > 0 /\ Child(f.table, f.i - 1, dump.stack[d + 1].table)
      BY <1>3 DEF Shape, WalkInv
    <3>2. dump.stack[d].i \in -1..Width
      BY <1>2, DumpTyped
    <3>3. dump.stack[d].i > 0 => dump.stack[d].i - 1 \in Idx
      BY <3>2, Constants
    <3>4. dump.stack[d].table \in 1..(n + 1)
      BY <1>3, <3>1
    <3> QED
      BY <1>1, <1>4, <1>5, <1>13, <3>1, <3>3, <3>4, SMTT(30) DEF Child
  <2> QED
    BY <1>1, <1>3, <2>1 DEF Shape, WalkInv, DumpTop, Child
<1>16. FileInv(lw)'
  <2>1. /\ Len(file) <= dump.cap /\ (file # << >> => file[1].page = 1)
        /\ \A m, p \in DOMAIN file : file[m].page = file[p].page => m = p
    BY DEF Shape, FileInv
  <2>2. \A m \in DOMAIN file :
          /\ file[m].page \in 1..(n + 1)
          /\ \A i \in Idx : file[m].entries[i].type = "pte" =>
                               tables'[file[m].page][i] = file[m].entries[i]
    <3>1. \A m \in DOMAIN file : \A i \in Idx : file[m].entries[i].type = "pte" =>
             tables[file[m].page][i] = file[m].entries[i]
      BY DEF Shape, FileInv
    <3> QED
      BY <1>3, <1>4, <1>12, <3>1
  <2>3. \A k \in 1..(n + 1) : \A i \in Idx : \A p \in DOMAIN file :
           Child(k, i, file[p].page)' <=> k \in 1..n /\ Child(k, i, file[p].page)
    <3>1. \A p \in DOMAIN file : file[p].page # n + 1 /\ file'[p].page = file[p].page
      BY <1>1, <1>5, <1>12
    <3>2. \A k \in 1..(n + 1) : \A i \in Idx : \A c : c # n + 1 =>
             (Child(k, i, c)' <=> k \in 1..n /\ Child(k, i, c))
      BY <1>4
    <3> QED
      BY <3>1, <3>2 DEF Child
  <2>4. \A m \in DOMAIN file : file[m].page \in 1..n /\ file[m].page \in 1..(n + 1)
    BY <1>3, <1>12
  <2>5. \A p \in DOMAIN file : \A k \in 1..(n + 1) : \A i \in Idx :
           Child(k, i, file[p].page)' => Past(k, i)' /\ Stored(k)'
    BY <1>3, <1>13, <2>3 DEF Shape, FileInv
  <2>6. \A m, p \in DOMAIN file : \A i \in Idx :
           Child(file[m].page, i, file[p].page)' => m < p /\ Under(lw, m, p)'
    <3>1. \A p \in DOMAIN file : p \in 0..Len(file)
      BY <1>14
    <3>2. \A m, p \in DOMAIN file : \A i \in Idx :
             Child(file[m].page, i, file[p].page)' <=> Child(file[m].page, i, file[p].page)
      BY <1>1, <2>3, <2>4 DEF Child
    <3>3. \A m, p \in DOMAIN file : \A i \in Idx :
             Child(file[m].page, i, file[p].page) => m < p /\ Under(lv, m, p)
      BY DEF Shape, FileInv
    <3> QED
      BY <1>13, <3>1, <3>2, <3>3
  <2>7. \A m, r \in DOMAIN file : \A i, j \in Idx :
           i < j /\ file[m].entries[i].type = "pte" /\ Child(file[m].page, j, file[r].page)'
              => \E p \in 1..(r - 1) : file[p].page = file[m].entries[i].page
    <3>1. \A m, p \in DOMAIN file : \A i \in Idx :
             Child(file[m].page, i, file[p].page)' <=> Child(file[m].page, i, file[p].page)
      BY <1>1, <2>3, <2>4 DEF Child
    <3> QED
      BY <3>1 DEF Shape, FileInv
  <2> QED
    BY <1>1, <1>3, <2>1, <2>2, <2>5, <2>6, <2>7 DEF FileInv
<1>17. StoreInv(lw)'
  <2>1. Len(file) \in 0..Len(file)
    BY <1>14
  <2> QED
    BY <1>1, <1>13, <2>1 DEF Shape, StoreInv
<1>18. LoadInv'
  BY <1>1 DEF Shape, LoadInv, Driving
<1> QED
  BY <1>6, <1>7, <1>11, <1>15, <1>16, <1>17, <1>18 DEF Shape, Inv

-----------------------------------------------------------------------------
(* The walk.                                                               *)

(* The stack of the walk: its top, and one frame at most for a table.      *)
LEMMA Walking ==
    ASSUME NEW lv, Shape(lv), dump.pc = "walk", dump.stack # << >>
    PROVE  /\ Len(dump.stack) \in Nat /\ Len(dump.stack) > 0
           /\ DOMAIN dump.stack = 1..Len(dump.stack) /\ DumpTop = dump.stack[Len(dump.stack)]
           /\ DumpTop \in DumpFrame /\ DumpTop.table \in DOMAIN tables
           /\ DumpTop.level = Len(dump.stack) - 1 /\ DumpTop.level \in Levels
           /\ lv[DumpTop.table] = Len(dump.stack) - 1 /\ DumpTop.i \in -1..Width
           /\ \A d \in DOMAIN dump.stack :
                 dump.stack[d].table = DumpTop.table => d = Len(dump.stack)
           /\ \A d \in DOMAIN dump.stack : d # Len(dump.stack) => dump.stack[d].i > 0
           /\ load.pc = "no"
<1>1. TypeOK /\ WalkInv(lv) /\ LoadInv
  BY DEF Shape
<1>2. /\ Len(dump.stack) \in Nat /\ Len(dump.stack) > 0
      /\ DOMAIN dump.stack = 1..Len(dump.stack) /\ DumpTop = dump.stack[Len(dump.stack)]
      /\ DumpTop \in DumpFrame
  BY <1>1, DumpTyped, Popped DEF DumpTop
<1>3. Len(dump.stack) \in DOMAIN dump.stack
  BY <1>2
<1>4. /\ DumpTop.table \in DOMAIN tables /\ DumpTop.level = Len(dump.stack) - 1
      /\ lv[DumpTop.table] = Len(dump.stack) - 1
  BY <1>1, <1>2, <1>3 DEF WalkInv
<1>5. DumpTop.level \in Levels /\ DumpTop.i \in -1..Width
  BY <1>1, <1>2, <1>3, DumpTyped
<1>6. \A d \in DOMAIN dump.stack :
         /\ lv[dump.stack[d].table] = d - 1
         /\ d < Len(dump.stack) => dump.stack[d].i > 0
  BY <1>1 DEF WalkInv
<1>7. \A d \in DOMAIN dump.stack :
         dump.stack[d].table = DumpTop.table => d = Len(dump.stack)
  BY <1>2, <1>4, <1>6
<1>8. \A d \in DOMAIN dump.stack : d # Len(dump.stack) => dump.stack[d].i > 0
  BY <1>2, <1>6
<1>9. load.pc = "no"
  BY <1>1 DEF LoadInv
<1> QED
  BY <1>2, <1>4, <1>5, <1>7, <1>8, <1>9

(* A step of the walk that leaves the file.                                *)
LEMMA FileKept ==
    ASSUME NEW lv, Shape(lv), load.pc = "no", UNCHANGED <<drvVars, file, load, new, user>>,
           dump'.cap = dump.cap,
           \A k \in DOMAIN tables : \A i \in Idx : Stored(k) /\ Past(k, i) => Past(k, i)',
           \A n \in DOMAIN file : \A i \in Idx : \A k, c :
              /\ k = file[n].page /\ c = file[n].entries[i].page
              /\ file[n].entries[i].type = "pte" /\ Past(k, i)'
              => Stored(c) \/ Pending(c)' \/ (Full /\ Under(lv, n, Len(file))),
           \A d \in DOMAIN dump'.stack : \A n \in DOMAIN file :
              file[n].page = dump'.stack[d].table => Under(lv, n, Len(file))
    PROVE  InsInv' /\ TreeInv(lv)' /\ FileInv(lv)' /\ StoreInv(lv)' /\ LoadInv'
<1>1. /\ tables' = tables /\ ins' = ins /\ file' = file /\ load' = load /\ new' = new
  BY DEF drvVars
<1>2. InsInv' /\ TreeInv(lv)'
  BY <1>1 DEF Shape, InsInv, TreeInv, Child
<1>3. /\ \A k : Stored(k)' <=> Stored(k)
      /\ Full' <=> Full
      /\ \A n, p : Under(lv, n, p)' <=> Under(lv, n, p)
      /\ \A k, i, c : Child(k, i, c)' <=> Child(k, i, c)
  BY <1>1 DEF Stored, Full, Under, Child
<1>4. FileInv(lv)'
  <2>1. \A p \in DOMAIN file : \A k \in DOMAIN tables : \A i \in Idx :
           tables[k][i].type = "pte" /\ tables[k][i].page = file[p].page
              => Past(k, i)' /\ Stored(k)'
    BY <1>3 DEF Shape, FileInv, Child
  <2>2. \A n, p \in DOMAIN file : \A i \in Idx :
           /\ tables[file[n].page][i].type = "pte"
           /\ tables[file[n].page][i].page = file[p].page
           => n < p /\ Under(lv, n, p)'
    BY <1>3 DEF Shape, FileInv, Child
  <2>3. /\ Len(file) <= dump'.cap /\ (file # << >> => file[1].page = 1)
        /\ \A n \in DOMAIN file :
              /\ file[n].page \in DOMAIN tables
              /\ \A i \in Idx : file[n].entries[i].type = "pte" =>
                                   tables[file[n].page][i] = file[n].entries[i]
        /\ \A n, p \in DOMAIN file : file[n].page = file[p].page => n = p
        /\ \A n, r \in DOMAIN file : \A i, j \in Idx :
              /\ i < j
              /\ file[n].entries[i].type = "pte"
              /\ tables[file[n].page][j].type = "pte"
              /\ tables[file[n].page][j].page = file[r].page
              => \E p \in 1..(r - 1) : file[p].page = file[n].entries[i].page
    BY DEF Shape, FileInv, Child
  <2> QED
    BY <1>1, <2>1, <2>2, <2>3 DEF FileInv, Child
<1>5. StoreInv(lv)'
  <2>1. \A n \in DOMAIN file : \A i \in Idx :
           file[n].entries[i].type = "pte" /\ Past(file[n].page, i)' =>
              \/ Stored(file[n].entries[i].page) \/ Pending(file[n].entries[i].page)'
              \/ Full /\ Under(lv, n, Len(file))
    BY <1>1 DEF Past, Pending
  <2>2. \A n \in DOMAIN file : \A i \in Idx :
           Stored(file[n].entries[i].page)' <=> Stored(file[n].entries[i].page)
    BY <1>1 DEF Stored
  <2>3. \A n : Under(lv, n, Len(file))' <=> Under(lv, n, Len(file))
    BY <1>1 DEF Under
  <2> QED
    BY <1>1, <1>3, <2>1, <2>2, <2>3 DEF StoreInv
<1>6. LoadInv'
  BY <1>1 DEF Shape, LoadInv
<1> QED
  BY <1>2, <1>4, <1>5, <1>6

LEMMA DumpBeginStep ==
    ASSUME NEW lv, Shape(lv), DumpBegin
    PROVE  Shape(lv)'
<1> DEFINE f == [table |-> 1, level |-> 0, i |-> -1]
<1>1. /\ dump.pc = "no" /\ UNCHANGED <<drvVars, file, load, new, user>>
      /\ dump' = [pc |-> "walk", cap |-> Len(tables), count |-> 0, stack |-> <<f>>]
  BY DEF DumpBegin
<1>2. f \in DumpFrame /\ f.table = 1 /\ f.level = 0 /\ f.i = -1
  BY Constants DEF DumpFrame
<1> HIDE DEF f
<1>3. /\ dump'.pc = "walk" /\ dump'.cap = Len(tables) /\ dump'.count = 0
      /\ dump'.stack = <<f>> /\ dump'.stack \in Seq(DumpFrame) /\ Len(dump'.stack) = 1
      /\ dump'.stack # << >> /\ dump'.stack[1] = f /\ DOMAIN dump'.stack = 1..1
  BY <1>1, <1>2
<1>4. /\ TypeOK /\ file = << >> /\ load.pc = "no" /\ 1 \in DOMAIN tables /\ lv[1] = 0
      /\ Len(tables) \in Nat /\ Len(tables) > 0
  BY <1>1, TablesTyped DEF Shape, WalkInv, LoadInv, TreeInv
<1>5. DOMAIN file = {} /\ Len(file) = 0 /\ file' = file /\ tables' = tables
  BY <1>1, <1>4 DEF drvVars
<1>6. InsInv' /\ TreeInv(lv)'
  BY <1>1 DEF Shape, InsInv, TreeInv, Child, drvVars
<1>7. dump' \in DumpType
  BY <1>1, <1>3, <1>4 DEF DumpType
<1>8. TypeOK'
  BY <1>1, <1>3, <1>4, <1>7, Constants DEF TypeOK, DumpType, drvVars
<1>9. QuietInv'
  BY <1>3, <1>5 DEF QuietInv
<1>10. WalkInv(lv)'
  <2>1. \A d \in DOMAIN dump'.stack : d = 1 /\ dump'.stack[d] = f
    BY <1>3
  <2>2. ~Stored(1)'
    BY <1>5 DEF Stored
  <2>3. DumpTop'.i = -1
    BY <1>2, <1>3 DEF DumpTop, Last
  <2> QED
    BY <1>2, <1>3, <1>4, <1>5, <2>1, <2>2, <2>3 DEF WalkInv, Stored
<1>11. FileInv(lv)' /\ StoreInv(lv)'
  BY <1>3, <1>4, <1>5 DEF FileInv, StoreInv
<1>12. LoadInv'
  BY <1>1, <1>4 DEF Shape, LoadInv
<1> QED
  BY <1>6, <1>8, <1>9, <1>10, <1>11, <1>12 DEF Shape

LEMMA DumpEndStep ==
    ASSUME NEW lv, Shape(lv), DumpEnd
    PROVE  Shape(lv)'
<1>1. /\ dump.pc = "walk" /\ dump.stack = << >> /\ dump' = [dump EXCEPT !.pc = "tables"]
      /\ UNCHANGED <<drvVars, file, load, new, user>>
  BY DEF DumpEnd
<1>2. TypeOK /\ load.pc = "no" /\ file # << >>
  BY <1>1 DEF Shape, LoadInv, WalkInv
<1>3. /\ dump'.pc = "tables" /\ dump'.stack = dump.stack /\ dump'.cap = dump.cap
      /\ dump'.count = dump.count
      /\ dump' \in DumpType
  BY <1>1, <1>2 DEF TypeOK, DumpType
<1>4. TypeOK'
  BY <1>1, <1>2, <1>3 DEF TypeOK, DumpType, drvVars
<1>5. QuietInv'
  BY <1>1, <1>3 DEF Shape, QuietInv, drvVars
<1>6. WalkInv(lv)'
  BY <1>1, <1>2, <1>3 DEF WalkInv
<1>7. InsInv' /\ TreeInv(lv)' /\ FileInv(lv)' /\ StoreInv(lv)' /\ LoadInv'
  <2>1. \A k, i : Past(k, i)' <=> Past(k, i)
    BY <1>3 DEF Past
  <2>2. \A c : Pending(c)' <=> Pending(c)
    BY <1>3 DEF Pending, DumpTop
  <2>3. \A d \in DOMAIN dump'.stack : \A n \in DOMAIN file :
           file[n].page = dump'.stack[d].table => Under(lv, n, Len(file))
    BY <1>3 DEF Shape, StoreInv
  <2>4. \A n \in DOMAIN file : \A i \in Idx : \A k, c :
           /\ k = file[n].page /\ c = file[n].entries[i].page
           /\ file[n].entries[i].type = "pte" /\ Past(k, i)'
           => Stored(c) \/ Pending(c)' \/ (Full /\ Under(lv, n, Len(file)))
    BY <2>1, <2>2 DEF Shape, StoreInv
  <2> QED
    BY <1>1, <1>2, <1>3, <2>1, <2>3, <2>4, FileKept
<1> QED
  BY <1>4, <1>5, <1>6, <1>7 DEF Shape

LEMMA DumpRegionsStep ==
    ASSUME NEW lv, Shape(lv), DumpRegions
    PROVE  Shape(lv)'
<1>1. /\ dump.pc = "tables" /\ dump' = [dump EXCEPT !.pc = "done"]
      /\ UNCHANGED <<drvVars, file, load, new, user>>
  BY DEF DumpRegions
<1>2. TypeOK /\ load.pc = "no" /\ file # << >> /\ dump.stack = << >>
  BY <1>1 DEF Shape, LoadInv, WalkInv
<1>3. /\ dump'.pc = "done" /\ dump'.stack = dump.stack /\ dump'.cap = dump.cap
      /\ dump'.count = dump.count
      /\ dump' \in DumpType
  BY <1>1, <1>2 DEF TypeOK, DumpType
<1>4. TypeOK'
  BY <1>1, <1>2, <1>3 DEF TypeOK, DumpType, drvVars
<1>5. QuietInv'
  BY <1>1, <1>3 DEF Shape, QuietInv, drvVars
<1>6. WalkInv(lv)'
  BY <1>1, <1>2, <1>3 DEF WalkInv
<1>7. InsInv' /\ TreeInv(lv)' /\ FileInv(lv)' /\ StoreInv(lv)' /\ LoadInv'
  <2>1. \A k, i : Past(k, i)' <=> Past(k, i)
    BY <1>3 DEF Past
  <2>2. \A c : Pending(c)' <=> Pending(c)
    BY <1>3 DEF Pending, DumpTop
  <2>3. \A d \in DOMAIN dump'.stack : \A n \in DOMAIN file :
           file[n].page = dump'.stack[d].table => Under(lv, n, Len(file))
    BY <1>3 DEF Shape, StoreInv
  <2>4. \A n \in DOMAIN file : \A i \in Idx : \A k, c :
           /\ k = file[n].page /\ c = file[n].entries[i].page
           /\ file[n].entries[i].type = "pte" /\ Past(k, i)'
           => Stored(c) \/ Pending(c)' \/ (Full /\ Under(lv, n, Len(file)))
    BY <2>1, <2>2 DEF Shape, StoreInv
  <2> QED
    BY <1>1, <1>2, <1>3, <2>1, <2>3, <2>4, FileKept
<1> QED
  BY <1>4, <1>5, <1>6, <1>7 DEF Shape

(* Back to the table above; a table of the bottom level has no links.      *)
LEMMA DumpReturnStep ==
    ASSUME NEW lv, Shape(lv), DumpReturn
    PROVE  Shape(lv)'
<1> DEFINE s == dump.stack
           n == Len(dump.stack)
<1>1. /\ dump.pc = "walk" /\ s # << >> /\ DumpTop.i >= 0
      /\ DumpTop.level = Bottom \/ DumpTop.i = Width
      /\ dump' = [dump EXCEPT !.stack = Front(@)]
      /\ UNCHANGED <<drvVars, file, load, new, user>>
  BY DEF DumpReturn
<1>2. /\ TypeOK /\ n \in Nat /\ n > 0 /\ DOMAIN s = 1..n /\ DumpTop = s[n] /\ load.pc = "no"
      /\ DumpTop.level = n - 1 /\ lv[DumpTop.table] = n - 1 /\ DumpTop.table \in DOMAIN tables
      /\ \A d \in 1..n : s[d].table = DumpTop.table => d = n
  BY <1>1, Walking DEF Shape
<1>3. /\ dump'.pc = "walk" /\ dump'.stack = Front(s) /\ dump'.cap = dump.cap
      /\ dump'.count = dump.count
  BY <1>1, <1>2 DEF TypeOK
<1>4. /\ Front(s) \in Seq(DumpFrame) /\ Len(Front(s)) = n - 1
      /\ DOMAIN Front(s) = 1..(n - 1) /\ \A d \in 1..(n - 1) : Front(s)[d] = s[d]
  BY <1>1, <1>2, DumpTyped, Popped
<1>5. dump' \in DumpType
  BY <1>1, <1>2, <1>4 DEF TypeOK, DumpType
<1>6. TypeOK'
  <2>1. Len(dump'.stack) <= Bottom + 1
    BY <1>2, <1>3, <1>4, Constants DEF TypeOK
  <2> QED
    BY <1>1, <1>2, <1>5, <2>1 DEF TypeOK, DumpType, drvVars
<1>7. QuietInv'
  BY <1>1, <1>3 DEF Shape, QuietInv, drvVars
<1>8. file # << >>
  <2>1. file = << >> => DumpTop.i = -1
    BY <1>1 DEF Shape, WalkInv
  <2> QED
    BY <1>1, <2>1
<1> HIDE DEF s, n
<1>9. WalkInv(lv)'
  <2>1. ASSUME NEW d \in 1..(n - 1)
        PROVE  LET f == s[d] IN
               /\ f.level = d - 1 /\ f.table \in DOMAIN tables /\ lv[f.table] = d - 1
               /\ f.i = -1 => ~Stored(f.table)
               /\ f.i >= 0 => Stored(f.table) \/ Full
               /\ d < n - 1 => f.i > 0 /\ Child(f.table, f.i - 1, s[d + 1].table)
    <3>1. d \in 1..n /\ (d < n - 1 => d < n)
      BY <1>2
    <3> QED
      BY <1>2, <3>1 DEF Shape, WalkInv, s, n
  <2>2. \A d \in 1..(n - 1) : d < n - 1 => Front(s)[d + 1] = s[d + 1]
    BY <1>2, <1>4
  <2>3. Front(s) # << >> => Front(s)[1] = s[1] /\ s[1].table = 1
    <3>1. Front(s) # << >> => 1 \in 1..(n - 1)
      BY <1>2, <1>4, EmptySeq
    <3> QED
      BY <1>1, <1>4, <3>1 DEF Shape, WalkInv, s
  <2>4. \A k : Stored(k)' <=> Stored(k)
    BY <1>1 DEF Stored
  <2>5. Full' <=> Full
    BY <1>1, <1>3 DEF Full
  <2>6. ASSUME NEW d \in DOMAIN dump'.stack
        PROVE  LET f == dump'.stack[d] IN
               /\ f.level = d - 1 /\ f.table \in DOMAIN tables' /\ lv[f.table] = d - 1
               /\ f.i = -1 => ~(\E p \in DOMAIN file' : file'[p].page = f.table)
               /\ f.i >= 0 => (\E p \in DOMAIN file' : file'[p].page = f.table) \/ Full'
               /\ d < Len(dump'.stack) =>
                    /\ f.i > 0 /\ tables'[f.table][f.i - 1].type = "pte"
                    /\ tables'[f.table][f.i - 1].page = dump'.stack[d + 1].table
    <3>1. d \in 1..(n - 1) /\ dump'.stack[d] = s[d] /\ Len(dump'.stack) = n - 1
      BY <1>3, <1>4
    <3>2. d < n - 1 => dump'.stack[d + 1] = s[d + 1]
      BY <1>2, <1>3, <2>2, <3>1
    <3> QED
      BY <1>1, <2>1, <2>5, <3>1, <3>2 DEF Child, Stored, drvVars
  <2>7. dump'.cap > 0
    BY <1>1, <1>3 DEF Shape, WalkInv
  <2> QED
    BY <1>1, <1>3, <1>4, <1>8, <2>3, <2>6, <2>7 DEF WalkInv, Stored, Child
<1>10. \A k, i : Past(k, i) => Past(k, i)'
  BY <1>2, <1>3, <1>4 DEF Past, s
<1>11. ASSUME NEW m \in DOMAIN file, NEW i \in Idx, file[m].entries[i].type = "pte",
              Past(file[m].page, i)'
       PROVE  \/ Stored(file[m].entries[i].page)
              \/ Full /\ Under(lv, m, Len(file))
  <2>1. /\ tables[file[m].page][i] = file[m].entries[i] /\ file[m].page \in DOMAIN tables
    BY <1>11 DEF Shape, FileInv
  <2>2. ~Pending(file[m].entries[i].page)
    BY <1>1 DEF Pending
  <2>3. ASSUME ~Past(file[m].page, i) PROVE FALSE
    <3>1. PICK d \in 1..n : s[d].table = file[m].page /\ ~(s[d].i > i)
      BY <1>2, <2>3 DEF Past, s
    <3>2. d = n
      <4>1. ASSUME d # n PROVE FALSE
        <5>1. d \in 1..(n - 1)
          BY <1>2, <4>1
        <5>2. s[d].i > i
          <6>1. dump'.stack[d] = s[d] /\ d \in DOMAIN dump'.stack /\ file' = file
            BY <1>1, <1>3, <1>4, <5>1
          <6> QED
            BY <1>11, <3>1, <6>1 DEF Past
        <5> QED
          BY <3>1, <5>2
      <4> QED
        BY <4>1
    <3>3. DumpTop.table = file[m].page /\ ~(DumpTop.i > i)
      BY <1>2, <3>1, <3>2
    <3>4. DumpTop.level = Bottom
      BY <1>1, <3>3, Constants
    <3>5. lv[file[m].page] = Bottom
      BY <1>2, <3>3, <3>4
    <3>6. /\ tables[file[m].page][i].page \in DOMAIN tables
          /\ lv[tables[file[m].page][i].page] = Bottom + 1
      BY <1>11, <2>1, <3>5 DEF Shape, TreeInv, Child
    <3>7. lv[tables[file[m].page][i].page] \in Levels
      BY <3>6 DEF Shape, TreeInv
    <3> QED
      BY <3>6, <3>7, Constants
  <2> QED
    BY <1>11, <2>2, <2>3 DEF Shape, StoreInv
<1>12. \A d \in DOMAIN dump'.stack : \A m \in DOMAIN file :
          file[m].page = dump'.stack[d].table => Under(lv, m, Len(file))
  <2>1. \A d \in 1..(n - 1) : d \in 1..n
    BY <1>2
  <2>2. \A d \in 1..n : \A m \in DOMAIN file :
           file[m].page = s[d].table => Under(lv, m, Len(file))
    BY <1>2 DEF Shape, StoreInv, s
  <2> QED
    BY <1>3, <1>4, <2>1, <2>2
<1>13. \A m \in DOMAIN file : \A i \in Idx : \A k, c :
          /\ k = file[m].page /\ c = file[m].entries[i].page
          /\ file[m].entries[i].type = "pte" /\ Past(k, i)'
          => Stored(c) \/ Pending(c)' \/ (Full /\ Under(lv, m, Len(file)))
  BY <1>1, <1>11 DEF Past
<1>14. InsInv' /\ TreeInv(lv)' /\ FileInv(lv)' /\ StoreInv(lv)' /\ LoadInv'
  BY <1>1, <1>2, <1>3, <1>10, <1>12, <1>13, FileKept
<1> QED
  BY <1>6, <1>7, <1>9, <1>14 DEF Shape

(* To the next entry, and down if it is a link.                            *)
LEMMA DumpEntryStep ==
    ASSUME NEW lv, Shape(lv), DumpEntry
    PROVE  Shape(lv)'
<1> DEFINE s == dump.stack
           n == Len(dump.stack)
           t == DumpTop.table
           x == DumpTop.i
           e == tables[DumpTop.table][DumpTop.i]
           u == [dump.stack EXCEPT ![Len(dump.stack)].i = @ + 1]
           g == [table |-> e.page, level |-> DumpTop.level + 1, i |-> -1]
<1>1. /\ dump.pc = "walk" /\ s # << >> /\ DumpTop.level < Bottom /\ x \in Idx
      /\ dump' = [dump EXCEPT !.stack = IF e.type = "pte" THEN Append(u, g) ELSE u]
      /\ UNCHANGED <<drvVars, file, load, new, user>>
  BY DEF DumpEntry
<1>2. /\ TypeOK /\ n \in Nat /\ n > 0 /\ DOMAIN s = 1..n /\ DumpTop = s[n] /\ load.pc = "no"
      /\ DumpTop \in DumpFrame /\ t \in DOMAIN tables
      /\ DumpTop.level = n - 1 /\ lv[t] = n - 1
      /\ \A d \in 1..n : s[d].table = t => d = n
      /\ \A d \in 1..n : d # n => s[d].i > 0
  BY <1>1, Walking DEF Shape
<1>3. /\ dump'.pc = "walk" /\ dump'.cap = dump.cap /\ dump'.count = dump.count
      /\ dump'.stack = IF e.type = "pte" THEN Append(u, g) ELSE u
  BY <1>1, <1>2 DEF TypeOK
<1>4. /\ x \in Nat /\ x < Width /\ x + 1 \in -1..Width /\ x + 1 > 0 /\ n \in Levels
      /\ n <= Bottom /\ e \in Entry /\ e.page \in Nat
  <2>1. e \in Entry /\ e.page \in Nat
    BY <1>1, <1>2, TablesTyped
  <2> HIDE DEF e, t
  <2>2. x \in Nat /\ x < Width /\ x + 1 \in -1..Width /\ x + 1 > 0
    BY <1>1, Constants
  <2>3. n \in Levels /\ n <= Bottom
    BY <1>1, <1>2, Constants
  <2> QED
    BY <2>1, <2>2, <2>3
<1>5. /\ u \in Seq(DumpFrame) /\ Len(u) = n /\ DOMAIN u = 1..n
      /\ \A d \in 1..(n - 1) : u[d] = s[d]
      /\ u[n].table = t /\ u[n].level = n - 1 /\ u[n].i = x + 1
  <2>1. s \in [1..n -> DumpFrame]
    BY <1>2, DumpTyped
  <2>2. u = [d \in 1..n |-> IF d = n THEN [s[n] EXCEPT !.i = x + 1] ELSE s[d]]
    BY <1>2, <2>1
  <2>3. /\ [s[n] EXCEPT !.i = x + 1] = [table |-> t, level |-> n - 1, i |-> x + 1]
        /\ [table |-> t, level |-> n - 1, i |-> x + 1] \in DumpFrame
    BY <1>2, <1>4 DEF DumpFrame
  <2> HIDE DEF u, s
  <2>4. u \in [1..n -> DumpFrame]
    BY <2>1, <2>2, <2>3
  <2>5. u \in Seq(DumpFrame) /\ Len(u) = n
    BY <1>2, <2>4, SeqOfFunction, SMTT(30)
  <2> QED
    BY <1>2, <2>2, <2>3, <2>4, <2>5
<1>6. g \in DumpFrame /\ g.table = e.page /\ g.level = n /\ g.i = -1
  <2>1. DumpTop.level + 1 = n /\ -1 \in -1..Width
    BY <1>2, Constants
  <2> HIDE DEF e, n
  <2> QED
    BY <1>4, <2>1 DEF DumpFrame
<1> HIDE DEF u, g, s, t, x, n
<1> DEFINE z == dump'.stack
<1>7. /\ z \in Seq(DumpFrame) /\ Len(z) = (IF e.type = "pte" THEN n + 1 ELSE n)
      /\ DOMAIN z = 1..Len(z) /\ \A d \in 1..n : z[d] = u[d]
      /\ e.type = "pte" => z[n + 1] = g
  <2>1. CASE e.type = "pte"
    BY <1>2, <1>3, <1>5, <1>6, <2>1, AppendProperties, LenProperties
  <2>2. CASE e.type # "pte"
    BY <1>2, <1>3, <1>5, <2>2
  <2> QED
    BY <2>1, <2>2
<1>8. /\ \A d \in 1..(n - 1) : d \in DOMAIN z /\ z[d] = s[d]
      /\ n \in DOMAIN z /\ z[n].table = t /\ z[n].level = n - 1 /\ z[n].i = x + 1
      /\ \A d \in DOMAIN z :
            \/ d \in 1..(n - 1)
            \/ d = n
            \/ d = n + 1 /\ e.type = "pte" /\ z[d] = g
      /\ Len(z) \in Nat /\ Len(z) <= Bottom + 1 /\ z # << >>
  <2> HIDE DEF z, e
  <2>1. Len(z) \in {n, n + 1} /\ DOMAIN z = 1..Len(z) /\ n \in 1..n
    BY <1>2, <1>7
  <2>2. \A d \in 1..(n - 1) : d \in DOMAIN z /\ z[d] = s[d]
    BY <1>2, <1>5, <1>7, <2>1
  <2>3. n \in DOMAIN z /\ z[n] = u[n]
    BY <1>2, <1>7, <2>1
  <2>4. \A d \in DOMAIN z :
            \/ d \in 1..(n - 1)
            \/ d = n
            \/ d = n + 1 /\ e.type = "pte" /\ z[d] = g
    BY <1>2, <1>7
  <2>5. Len(z) \in Nat /\ Len(z) <= Bottom + 1 /\ z # << >>
    BY <1>2, <1>4, <2>1, <2>3, EmptySeq, Constants
  <2> QED
    BY <1>5, <2>2, <2>3, <2>4, <2>5
<1>9. TypeOK'
  <2>1. dump' \in DumpType
    BY <1>1, <1>2, <1>3, <1>7 DEF TypeOK, DumpType
  <2> QED
    BY <1>1, <1>2, <1>8, <2>1 DEF TypeOK, DumpType, drvVars
<1> HIDE DEF z
<1>10. QuietInv'
  BY <1>1, <1>3 DEF Shape, QuietInv, drvVars
<1>11. file # << >>
  <2>1. file = << >> => DumpTop.i = -1
    BY <1>1 DEF Shape, WalkInv
  <2> QED
    BY <1>4, <2>1 DEF x
<1>12. /\ tables' = tables /\ file' = file /\ dump'.stack = z
       /\ \A k : Stored(k)' <=> Stored(k)
  BY <1>1 DEF drvVars, Stored, z
<1>13. ASSUME e.type = "pte"
       PROVE  /\ Child(t, x, e.page) /\ ~Stored(e.page)
              /\ e.page \in DOMAIN tables /\ lv[e.page] = n
  <2>1. Child(t, x, e.page)
    BY <1>13 DEF Child, t, x
  <2>2. e.page \in DOMAIN tables
    BY <1>1, <1>2, <1>13 DEF Shape, TreeInv, t, x
  <2>3. lv[e.page] = n
    BY <1>1, <1>2, <2>1, <2>2 DEF Shape, TreeInv
  <2>4. ~Past(t, x)
    BY <1>2, <1>4 DEF Past, s, t, x
  <2>5. ~Stored(e.page)
    BY <1>1, <1>2, <2>1, <2>4 DEF Shape, FileInv, Stored
  <2> QED
    BY <2>1, <2>2, <2>3, <2>5
<1> HIDE DEF e
<1>14. WalkInv(lv)'
  <2>1. ASSUME NEW d \in DOMAIN z
        PROVE  LET f == z[d] IN
               /\ f.level = d - 1 /\ f.table \in DOMAIN tables /\ lv[f.table] = d - 1
               /\ f.i = -1 => ~(\E p \in DOMAIN file : file[p].page = f.table)
               /\ f.i >= 0 => (\E p \in DOMAIN file : file[p].page = f.table) \/ Full
               /\ d < Len(z) =>
                    /\ f.i > 0 /\ tables[f.table][f.i - 1].type = "pte"
                    /\ tables[f.table][f.i - 1].page = z[d + 1].table
    <3>1. ASSUME d \in 1..n
          PROVE  LET f == s[d] IN
                 /\ f.level = d - 1 /\ f.table \in DOMAIN tables /\ lv[f.table] = d - 1
                 /\ f.i = -1 => ~Stored(f.table)
                 /\ f.i >= 0 => Stored(f.table) \/ Full
                 /\ d < n => f.i > 0 /\ Child(f.table, f.i - 1, s[d + 1].table)
      BY <1>2, <3>1 DEF Shape, WalkInv, s, n
    <3>2. CASE d \in 1..(n - 1)
      <4>1. d \in 1..n /\ d < n /\ z[d] = s[d]
        BY <1>2, <1>8, <3>2
      <4>2. z[d + 1].table = s[d + 1].table
        <5>1. d + 1 \in 1..(n - 1) \/ d + 1 = n
          BY <1>2, <3>2
        <5> QED
          BY <1>2, <1>8, <5>1 DEF t
      <4> QED
        BY <3>1, <4>1, <4>2 DEF Child, Stored
    <3>3. CASE d = n
      <4>1. n \in 1..n /\ s[n].i = x /\ s[n].table = t
        BY <1>2 DEF t, x
      <4>2. Stored(t) \/ Full
        BY <1>4, <3>1, <3>3, <4>1
      <4>3. /\ z[d].level = d - 1 /\ z[d].table = t /\ z[d].i = x + 1 /\ x + 1 > 0
            /\ x + 1 # -1 /\ x + 1 - 1 = x /\ t \in DOMAIN tables /\ lv[t] = d - 1
        BY <1>2, <1>4, <1>8, <3>3
      <4>4. d < Len(z) => e.type = "pte" /\ z[d + 1].table = e.page
        BY <1>2, <1>6, <1>7, <3>3
      <4> QED
        <5>1. (\E p \in DOMAIN file : file[p].page = z[d].table) \/ Full
          BY <4>2, <4>3 DEF Stored
        <5>2. z[d].i - 1 = x
          BY <1>4, <4>3
        <5>3. d < Len(z) =>
                 /\ tables[z[d].table][z[d].i - 1].type = "pte"
                 /\ tables[z[d].table][z[d].i - 1].page = z[d + 1].table
          BY <1>13, <4>3, <4>4, <5>2 DEF Child
        <5> QED
          BY <4>3, <5>1, <5>3
    <3>4. CASE d = n + 1 /\ e.type = "pte" /\ z[d] = g
      <4>1. Len(z) = n + 1
        BY <1>7, <3>4
      <4>2. /\ z[d].level = d - 1 /\ z[d].table = e.page /\ z[d].i = -1 /\ d - 1 = n
            /\ ~(d < Len(z)) /\ ~(z[d].i >= 0)
        BY <1>2, <1>6, <3>4, <4>1
      <4> QED
        BY <1>13, <3>4, <4>2 DEF Stored
    <3> QED
      BY <1>8, <3>2, <3>3, <3>4
  <2>2. z[1].table = 1
    <3>1. s[1].table = 1
      BY <1>1 DEF Shape, WalkInv, s
    <3>2. CASE n = 1
      BY <1>2, <1>8, <3>1, <3>2 DEF t
    <3>3. CASE n # 1
      <4>1. 1 \in 1..(n - 1)
        BY <1>2, <3>3
      <4> QED
        BY <1>8, <3>1, <4>1
    <3> QED
      BY <3>2, <3>3
  <2>3. dump'.cap > 0 /\ Full' = Full
    BY <1>1, <1>3 DEF Shape, WalkInv, Full
  <2> QED
    BY <1>3, <1>11, <1>12, <2>1, <2>2, <2>3 DEF WalkInv, Stored, Child
<1>15. \A k \in DOMAIN tables : \A i \in Idx : Stored(k) /\ Past(k, i) => Past(k, i)'
  <2>1. ASSUME NEW k \in DOMAIN tables, NEW i \in Idx, Stored(k), Past(k, i),
               NEW d \in DOMAIN z, z[d].table = k
        PROVE  z[d].i > i
    <3>1. CASE d \in 1..(n - 1)
      BY <1>2, <1>8, <2>1, <3>1 DEF Past, s
    <3>2. CASE d = n
      <4>1. s[n].table = k /\ n \in DOMAIN s
        BY <1>2, <1>8, <2>1, <3>2 DEF t
      <4>2. x > i
        BY <1>2, <2>1, <4>1 DEF Past, s, x
      <4> QED
        BY <1>4, <1>8, <3>2, <4>2, Constants
    <3>3. CASE d = n + 1 /\ e.type = "pte" /\ z[d] = g
      BY <1>6, <1>13, <2>1, <3>3
    <3> QED
      BY <1>8, <3>1, <3>2, <3>3
  <2> QED
    BY <1>12, <2>1 DEF Past
<1>16. ASSUME NEW m \in DOMAIN file, NEW i \in Idx, file[m].entries[i].type = "pte",
              \A d \in DOMAIN z : z[d].table = file[m].page => z[d].i > i
       PROVE  \/ Stored(file[m].entries[i].page)
              \/ Last(z).table = file[m].entries[i].page /\ Last(z).i = -1
              \/ Full /\ Under(lv, m, Len(file))
  <2>1. tables[file[m].page][i] = file[m].entries[i]
    BY <1>16 DEF Shape, FileInv
  <2>2. ~Pending(file[m].entries[i].page)
    BY <1>4 DEF Pending, x
  <2>3. CASE Past(file[m].page, i)
    BY <1>16, <2>2, <2>3 DEF Shape, StoreInv
  <2>4. CASE ~Past(file[m].page, i)
    <3>1. PICK d \in 1..n : s[d].table = file[m].page /\ ~(s[d].i > i)
      BY <1>2, <2>4 DEF Past, s
    <3>2. d \notin 1..(n - 1)
      BY <1>8, <1>16, <3>1
    <3>3. d = n
      BY <1>2, <3>2
    <3>4. file[m].page = t /\ ~(x > i)
      BY <1>2, <3>1, <3>3 DEF t, x
    <3>5. x + 1 > i
      BY <1>8, <1>16, <3>4
    <3>6. i = x
      BY <1>4, <3>4, <3>5, Constants
    <3>7. e = file[m].entries[i]
      BY <2>1, <3>4, <3>6 DEF e, t, x
    <3>8. Last(z) = g
      BY <1>2, <1>7, <1>16, <3>7 DEF Last
    <3> QED
      BY <1>6, <3>7, <3>8
  <2> QED
    BY <2>3, <2>4
<1>17. \A m \in DOMAIN file : \A i \in Idx : \A k, c :
          /\ k = file[m].page /\ c = file[m].entries[i].page
          /\ file[m].entries[i].type = "pte" /\ Past(k, i)'
          => Stored(c) \/ Pending(c)' \/ (Full /\ Under(lv, m, Len(file)))
  <2>1. \A k, i : Past(k, i)' => \A d \in DOMAIN z : z[d].table = k => z[d].i > i
    BY <1>12 DEF Past
  <2>2. \A c : Last(z).table = c /\ Last(z).i = -1 => Pending(c)'
    BY <1>8, <1>12 DEF Pending, DumpTop
  <2> QED
    BY <1>16, <2>1, <2>2
<1>18. \A d \in DOMAIN z : \A m \in DOMAIN file :
          file[m].page = z[d].table => Under(lv, m, Len(file))
  <2>1. \A d \in 1..n : \A m \in DOMAIN file :
           file[m].page = s[d].table => Under(lv, m, Len(file))
    BY <1>2 DEF Shape, StoreInv, s
  <2>2. e.type = "pte" => \A m \in DOMAIN file : file[m].page # g.table
    BY <1>6, <1>13 DEF Stored
  <2>3. \A d \in 1..(n - 1) : d \in 1..n /\ z[d].table = s[d].table
    BY <1>2, <1>8
  <2>4. n \in 1..n /\ z[n].table = s[n].table
    BY <1>2, <1>8 DEF t
  <2> QED
    BY <1>8, <2>1, <2>2, <2>3, <2>4
<1>19. InsInv' /\ TreeInv(lv)' /\ FileInv(lv)' /\ StoreInv(lv)' /\ LoadInv'
  <2>1. \A d \in DOMAIN dump'.stack : \A m \in DOMAIN file :
           file[m].page = dump'.stack[d].table => Under(lv, m, Len(file))
    BY <1>12, <1>18
  <2> QED
    BY <1>1, <1>2, <1>3, <1>15, <1>17, <2>1, FileKept
<1> QED
  BY <1>9, <1>10, <1>14, <1>19 DEF Shape

(* The file has at most as many tables as there are, and all of them if it *)
(* has as many.                                                            *)
LEMMA Counted ==
    ASSUME NEW lv, Shape(lv)
    PROVE  /\ Len(file) <= Len(tables)
           /\ Len(file) = Len(tables) <=> \A k \in DOMAIN tables : Stored(k)
<1>1. /\ Len(file) \in Nat /\ DOMAIN file = 1..Len(file)
      /\ Len(tables) \in Nat /\ DOMAIN tables = 1..Len(tables)
  BY FileTyped, TablesTyped DEF Shape
<1> DEFINE f == [n \in 1..Len(file) |-> file[n].page]
<1>2. f \in Injection(1..Len(file), 1..Len(tables))
  <2>1. /\ \A n \in 1..Len(file) : file[n].page \in 1..Len(tables)
        /\ \A n, p \in 1..Len(file) : file[n].page = file[p].page => n = p
    BY <1>1 DEF Shape, FileInv
  <2> QED
    BY <2>1 DEF Injection, IsInjective
<1>3. f \in Surjection(1..Len(file), 1..Len(tables)) <=> \A k \in DOMAIN tables : Stored(k)
  <2>1. f \in [1..Len(file) -> 1..Len(tables)]
    BY <1>2 DEF Injection
  <2>2. f \in Surjection(1..Len(file), 1..Len(tables))
           <=> \A k \in 1..Len(tables) : \E n \in 1..Len(file) : f[n] = k
    BY <2>1 DEF Surjection
  <2> QED
    BY <1>1, <2>2 DEF Stored
<1>4. /\ IsFiniteSet(1..Len(tables))
      /\ Cardinality(1..Len(tables)) = Len(tables)
      /\ Cardinality(1..Len(file)) = Len(file)
  <2>1. 1 \in Int /\ Len(tables) \in Int /\ Len(file) \in Int
    BY <1>1
  <2>2. /\ IsFiniteSet(1..Len(tables))
        /\ Cardinality(1..Len(tables)) = IF 1 > Len(tables) THEN 0 ELSE Len(tables) - 1 + 1
        /\ Cardinality(1..Len(file)) = IF 1 > Len(file) THEN 0 ELSE Len(file) - 1 + 1
    BY <2>1, FS_Interval
  <2> QED
    BY <1>1, <2>2
<1> HIDE DEF f
<1>5. /\ Cardinality(1..Len(file)) <= Cardinality(1..Len(tables))
      /\ Cardinality(1..Len(file)) = Cardinality(1..Len(tables))
            <=> f \in Surjection(1..Len(file), 1..Len(tables))
  BY <1>2, <1>4, FS_Injection
<1> QED
  BY <1>3, <1>4, <1>5

(* The walk is about to store the table on top: it is not in the file, and *)
(* the link that led to it is in the table below it on the stack.          *)
LEMMA AtTable ==
    ASSUME NEW lv, Shape(lv), dump.pc = "walk", dump.stack # << >>, DumpTop.i = -1
    PROVE  /\ ~Stored(DumpTop.table)
           /\ Len(dump.stack) = 1 => DumpTop.table = 1 /\ file = << >>
           /\ Len(dump.stack) > 1 =>
                LET f == dump.stack[Len(dump.stack) - 1] IN
                /\ Len(dump.stack) - 1 \in DOMAIN dump.stack
                /\ f.table \in DOMAIN tables /\ lv[f.table] = Len(dump.stack) - 2
                /\ f.i - 1 \in Idx /\ Child(f.table, f.i - 1, DumpTop.table)
                /\ Stored(f.table) \/ Full
                /\ \A i \in 0..(f.i - 1) : Past(f.table, i)
           /\ \A k \in DOMAIN tables : \A i \in Idx : Child(k, i, DumpTop.table) =>
                LET f == dump.stack[Len(dump.stack) - 1] IN
                Len(dump.stack) > 1 /\ k = f.table /\ i = f.i - 1
<1> DEFINE s == dump.stack
           n == Len(dump.stack)
           t == DumpTop.table
           f == dump.stack[Len(dump.stack) - 1]
<1>1. /\ TypeOK /\ n \in Nat /\ n > 0 /\ DOMAIN s = 1..n /\ DumpTop = s[n]
      /\ t \in DOMAIN tables
  BY Walking DEF Shape
<1>2. s[1].table = 1 /\ ~Stored(t)
  <2>1. n \in DOMAIN s
    BY <1>1
  <2> QED
    BY <1>1, <2>1 DEF Shape, WalkInv
<1>3. n = 1 => t = 1 /\ file = << >>
  <2>1. file # << >> => Stored(1)
    <3>1. file # << >> => 1 \in DOMAIN file
      BY <1>1, FileTyped, EmptySeq
    <3> QED
      BY <3>1 DEF Shape, FileInv, Stored
  <2> QED
    BY <1>1, <1>2, <2>1
<1>4. ASSUME n > 1
      PROVE  /\ n - 1 \in DOMAIN s
             /\ f.table \in DOMAIN tables /\ lv[f.table] = n - 2
             /\ f.i - 1 \in Idx /\ Child(f.table, f.i - 1, t)
             /\ Stored(f.table) \/ Full
             /\ \A i \in 0..(f.i - 1) : Past(f.table, i)
  <2>1. n - 1 \in 1..n /\ n - 1 < n /\ n - 1 + 1 = n /\ n - 1 - 1 = n - 2
    BY <1>1, <1>4
  <2>2. /\ f.table \in DOMAIN tables /\ lv[f.table] = n - 2 /\ f.i > 0
        /\ Child(f.table, f.i - 1, t) /\ (f.i >= 0 => Stored(f.table) \/ Full)
    BY <1>1, <2>1 DEF Shape, WalkInv
  <2>3. f.i \in -1..Width
    BY <1>1, <2>1, DumpTyped
  <2>4. f.i - 1 \in Idx /\ f.i >= 0
    BY <2>2, <2>3, Constants, SMTT(30)
  <2>5. ASSUME NEW d \in DOMAIN s, s[d].table = f.table
        PROVE  d = n - 1
    <3>1. lv[s[d].table] = d - 1
      BY <1>1 DEF Shape, WalkInv
    <3> QED
      BY <1>1, <2>2, <2>5, <3>1
  <2>6. \A i \in 0..(f.i - 1) : Past(f.table, i)
    BY <2>3, <2>5 DEF Past
  <2> QED
    BY <1>1, <2>1, <2>2, <2>4, <2>6
<1>5. ASSUME NEW k \in DOMAIN tables, NEW i \in Idx, Child(k, i, t)
      PROVE  n > 1 /\ k = f.table /\ i = f.i - 1
  <2>1. n > 1
    <3>1. k < t /\ k \in Nat /\ k > 0
      BY <1>1, <1>5, TablesTyped DEF Shape, TreeInv
    <3>2. t # 1
      BY <3>1
    <3>3. n # 1
      BY <1>3, <3>2
    <3>4. n \in Nat /\ n > 0
      BY <1>1
    <3> HIDE DEF n
    <3> QED
      BY <3>3, <3>4
  <2> HIDE DEF t, f
  <2>2. f.table \in DOMAIN tables /\ f.i - 1 \in Idx /\ Child(f.table, f.i - 1, t)
    BY <1>4, <2>1
  <2>3. \A a, b \in DOMAIN tables : \A x, y \in Idx :
           Child(a, x, t) /\ Child(b, y, t) => a = b /\ x = y
    BY <1>1 DEF Shape, TreeInv
  <2>4. k = f.table /\ i = f.i - 1
    BY <1>5, <2>2, <2>3
  <2> QED
    BY <2>1, <2>4
<1> QED
  BY <1>2, <1>3, <1>4, <1>5

(* A table that is stored, or not for want of room.                        *)
LEMMA TableTop ==
    ASSUME NEW lv, Shape(lv), DumpTable
    PROVE  /\ dump'.pc = "walk" /\ dump'.cap = dump.cap /\ dump'.count = dump.count + 1
           /\ dump'.stack \in Seq(DumpFrame) /\ dump'.stack # << >>
           /\ Len(dump'.stack) = Len(dump.stack) /\ DOMAIN dump'.stack = DOMAIN dump.stack
           /\ \A d \in DOMAIN dump.stack :
                 /\ d # Len(dump.stack) => dump'.stack[d] = dump.stack[d]
                 /\ dump'.stack[d].table = dump.stack[d].table
                 /\ dump'.stack[d].level = dump.stack[d].level
           /\ dump'.stack[Len(dump.stack)].i = 0
           /\ \A k : \A i \in Idx : Past(k, i)' <=> Past(k, i)
           /\ \A c : ~Pending(c)'
           /\ dump' \in DumpType
<1> DEFINE s == dump.stack
           n == Len(dump.stack)
           z == [dump.stack EXCEPT ![Len(dump.stack)].i = 0]
<1>1. /\ dump.pc = "walk" /\ s # << >> /\ DumpTop.i = -1
      /\ dump' = [dump EXCEPT !.count = @ + 1, !.stack[Len(dump.stack)].i = 0]
  BY DEF DumpTable
<1>2. /\ TypeOK /\ n \in Nat /\ n > 0 /\ DOMAIN s = 1..n /\ DumpTop = s[n]
      /\ DumpTop \in DumpFrame /\ DumpTop = s[n]
  BY <1>1, Walking DEF Shape
<1>3. /\ dump'.pc = "walk" /\ dump'.cap = dump.cap /\ dump'.count = dump.count + 1
      /\ dump'.stack = z
  BY <1>1, <1>2 DEF TypeOK
<1>4. s \in [1..n -> DumpFrame]
  BY <1>2, DumpTyped
<1>5. z = [d \in 1..n |-> IF d = n THEN [s[n] EXCEPT !.i = 0] ELSE s[d]]
  BY <1>2, <1>4
<1>6. /\ [s[n] EXCEPT !.i = 0] \in DumpFrame
      /\ [s[n] EXCEPT !.i = 0].table = s[n].table
      /\ [s[n] EXCEPT !.i = 0].level = s[n].level
      /\ [s[n] EXCEPT !.i = 0].i = 0
  <2>1. [s[n] EXCEPT !.i = 0] = [table |-> s[n].table, level |-> s[n].level, i |-> 0]
    BY <1>2 DEF DumpFrame
  <2>2. s[n].table \in Nat /\ s[n].level \in Levels /\ 0 \in -1..Width
    BY <1>2, Constants DEF DumpFrame
  <2> HIDE DEF s, n
  <2> QED
    BY <2>1, <2>2 DEF DumpFrame
<1> HIDE DEF z, s, n
<1>7. z \in [1..n -> DumpFrame]
  BY <1>4, <1>5, <1>6
<1>8. z \in Seq(DumpFrame) /\ Len(z) = n /\ DOMAIN z = 1..n
  BY <1>2, <1>7, SeqOfFunction
<1>9. /\ \A d \in 1..n : /\ d # n => z[d] = s[d]
                         /\ z[d].table = s[d].table /\ z[d].level = s[d].level
      /\ z[n].i = 0
  BY <1>2, <1>5, <1>6
<1>10. z # << >>
  BY <1>2, <1>8, EmptySeq
<1>11. \A k : \A i \in Idx : Past(k, i)' <=> Past(k, i)
  <2>1. \A i \in Idx : ~(0 > i) /\ ~(-1 > i)
    BY Constants
  <2>2. s[n].i = -1 /\ n \in 1..n
    BY <1>1, <1>2
  <2>3. \A k : \A i \in Idx :
           (\A d \in 1..n : z[d].table = k => z[d].i > i)
              <=> (\A d \in 1..n : s[d].table = k => s[d].i > i)
    BY <1>9, <2>1, <2>2
  <2>4. dump'.stack = z /\ DOMAIN z = 1..n /\ DOMAIN s = 1..n /\ s = dump.stack
    BY <1>2, <1>3, <1>8 DEF s
  <2> QED
    BY <2>3, <2>4 DEF Past
<1>12. \A c : ~Pending(c)'
  <2>1. Last(dump'.stack).i = 0
    BY <1>3, <1>8, <1>9 DEF Last
  <2> QED
    BY <2>1 DEF Pending, DumpTop
<1>13. dump' \in DumpType
  <2>1. dump' = [dump EXCEPT !.count = @ + 1, !.stack = z]
    BY <1>1, <1>2 DEF TypeOK, z
  <2>2. dump.count + 1 \in Nat
    BY <1>2 DEF TypeOK
  <2> QED
    BY <1>2, <1>8, <2>1, <2>2 DEF TypeOK, DumpType
<1> QED
  BY <1>2, <1>3, <1>8, <1>9, <1>10, <1>11, <1>12, <1>13 DEF s, n

LEMMA NoRoomStep ==
    ASSUME NEW lv, Shape(lv), DumpTable, Full
    PROVE  Shape(lv)'
<1> DEFINE s == dump.stack
           n == Len(dump.stack)
           t == DumpTop.table
           z == dump'.stack
<1>1. /\ dump.pc = "walk" /\ s # << >> /\ DumpTop.i = -1
      /\ file' = file /\ UNCHANGED <<drvVars, file, load, new, user>>
  <2>1. TypeOK
    BY DEF Shape
  <2>2. ~(Len(file) < dump.cap)
    BY <2>1, FileTyped, DumpTyped DEF Full
  <2> QED
    BY <2>2 DEF DumpTable
<1>2. /\ TypeOK /\ n \in Nat /\ n > 0 /\ DOMAIN s = 1..n /\ DumpTop = s[n] /\ load.pc = "no"
      /\ t \in DOMAIN tables
      /\ \A d \in 1..n : d # n => s[d].i > 0
  BY <1>1, Walking DEF Shape
<1>3. /\ dump'.pc = "walk" /\ dump'.cap = dump.cap /\ dump'.count = dump.count + 1
      /\ z \in Seq(DumpFrame) /\ z # << >> /\ Len(z) = n /\ DOMAIN z = 1..n
      /\ \A d \in 1..n : /\ d # n => z[d] = s[d]
                         /\ z[d].table = s[d].table /\ z[d].level = s[d].level
      /\ z[n].i = 0 /\ n \in 1..n
      /\ dump' \in DumpType
  BY <1>2, TableTop
<1>4. /\ \A k : \A i \in Idx : Past(k, i)' <=> Past(k, i)
      /\ \A c : ~Pending(c)'
  BY TableTop
<1>5. file # << >> /\ dump.cap > 0
  <2>1. dump.cap > 0
    BY <1>1 DEF Shape, WalkInv
  <2>2. Len(file) > 0
    BY <1>2, <2>1, FileTyped, DumpTyped DEF Full
  <2> QED
    BY <2>1, <2>2, EmptySeq
<1>6. /\ ~Stored(t)
      /\ \A k \in DOMAIN tables : \A i \in Idx : Child(k, i, t) => k = s[n - 1].table /\ n > 1
  BY <1>1, AtTable
<1>7. /\ \A k : Stored(k)' <=> Stored(k)
      /\ tables' = tables
  BY <1>1 DEF Stored, drvVars
<1>8. TypeOK'
  BY <1>1, <1>2, <1>3 DEF TypeOK, DumpType, drvVars
<1>9. QuietInv'
  <2>1. CASE raced
    BY <1>1, <2>1 DEF QuietInv, drvVars
  <2>2. CASE ~raced
    <3>1. dump.cap = Len(tables)
      BY <1>1, <2>2 DEF Shape, QuietInv
    <3>2. Len(file) <= Len(tables) /\ Len(file) # Len(tables)
      BY <1>2, <1>6, Counted
    <3>3. Len(file) \in Nat /\ Len(tables) \in Nat
      BY <1>2, FileTyped, TablesTyped
    <3>4. Len(file) >= Len(tables)
      BY <3>1 DEF Full
    <3> QED
      BY <3>2, <3>3, <3>4
  <2> QED
    BY <2>1, <2>2
<1> HIDE DEF s, n, t, z
<1>10. WalkInv(lv)'
  <2>1. ASSUME NEW d \in 1..n
        PROVE  LET f == z[d] IN
               /\ f.level = d - 1 /\ f.table \in DOMAIN tables /\ lv[f.table] = d - 1
               /\ f.i = -1 => ~Stored(f.table)
               /\ d < n =>
                    /\ f.i > 0 /\ tables[f.table][f.i - 1].type = "pte"
                    /\ tables[f.table][f.i - 1].page = z[d + 1].table
    <3>1. LET f == s[d] IN
          /\ f.level = d - 1 /\ f.table \in DOMAIN tables /\ lv[f.table] = d - 1
          /\ f.i = -1 => ~Stored(f.table)
          /\ d < n => f.i > 0 /\ Child(f.table, f.i - 1, s[d + 1].table)
      BY <1>2 DEF Shape, WalkInv, s, n
    <3>2. CASE d = n
      BY <1>2, <1>3, <3>1, <3>2
    <3>3. CASE d # n
      <4>1. d + 1 \in 1..n
        BY <1>2, <3>3
      <4>2. z[d] = s[d] /\ z[d + 1].table = s[d + 1].table
        BY <1>3, <3>3, <4>1
      <4> QED
        BY <3>1, <4>2 DEF Child
    <3> QED
      BY <3>2, <3>3
  <2>2. z[1].table = 1
    <3>1. s[1].table = 1 /\ 1 \in 1..n
      BY <1>1, <1>2 DEF Shape, WalkInv, s
    <3> QED
      BY <1>3, <3>1
  <2>3. Full'
    BY <1>1, <1>3 DEF Full
  <2>4. dump'.stack = z
    BY DEF z
  <2> QED
    BY <1>1, <1>3, <1>5, <1>7, <2>1, <2>2, <2>3, <2>4, SMTT(30) DEF WalkInv, Stored, Child
<1>11. ASSUME NEW m \in DOMAIN file, NEW i \in Idx, file[m].entries[i].type = "pte",
              Past(file[m].page, i)
       PROVE  \/ Stored(file[m].entries[i].page)
              \/ Full /\ Under(lv, m, Len(file))
  <2>1. CASE Pending(file[m].entries[i].page)
    <3>1. file[m].page \in DOMAIN tables /\ Child(file[m].page, i, t)
      BY <1>11, <2>1 DEF Shape, FileInv, Pending, Child, t
    <3>2. file[m].page = s[n - 1].table /\ n > 1
      BY <1>6, <3>1
    <3>3. n - 1 \in DOMAIN s
      BY <1>2, <3>2
    <3> QED
      BY <3>2, <3>3 DEF Shape, StoreInv, s
  <2>2. CASE ~Pending(file[m].entries[i].page)
    BY <1>11, <2>2 DEF Shape, StoreInv
  <2> QED
    BY <2>1, <2>2
<1>12. \A m \in DOMAIN file : \A i \in Idx : \A k, c :
          /\ k = file[m].page /\ c = file[m].entries[i].page
          /\ file[m].entries[i].type = "pte" /\ Past(k, i)'
          => Stored(c) \/ Pending(c)' \/ (Full /\ Under(lv, m, Len(file)))
  BY <1>4, <1>11
<1>13. \A d \in DOMAIN dump'.stack : \A m \in DOMAIN file :
          file[m].page = dump'.stack[d].table => Under(lv, m, Len(file))
  BY <1>2, <1>3 DEF Shape, StoreInv, s, z
<1>14. InsInv' /\ TreeInv(lv)' /\ FileInv(lv)' /\ StoreInv(lv)' /\ LoadInv'
  BY <1>1, <1>2, <1>3, <1>4, <1>12, <1>13, FileKept
<1> QED
  BY <1>8, <1>9, <1>10, <1>14 DEF Shape

(* What the file is after a table has been stored.                         *)
LEMMA Appended ==
    ASSUME NEW lv, Shape(lv), DumpTable, ~Full
    PROVE  LET N == Len(file) + 1
               t == DumpTop.table
           IN
           /\ UNCHANGED <<drvVars, load, new, user>>
           /\ file' \in Seq(FileRec) /\ Len(file') = N /\ file' # << >>
           /\ Len(file) \in Nat /\ DOMAIN file = 1..Len(file) /\ DOMAIN file' = 1..N
           /\ \A m \in 1..Len(file) : m \in 1..N /\ file'[m] = file[m]
           /\ N \in 1..N /\ file'[N].page = t /\ file'[N].entries = tables[t]
           /\ \A m \in 1..N : m \in 1..Len(file) \/ m = N
           /\ N <= dump.cap
           /\ \A k : Stored(k)' <=> Stored(k) \/ k = t
<1> DEFINE L == Len(file)
           t == DumpTop.table
           r == [page |-> t, entries |-> tables[t]]
<1>1. /\ dump.pc = "walk" /\ dump.stack # << >> /\ TypeOK
      /\ UNCHANGED <<drvVars, load, new, user>>
  BY DEF DumpTable, Shape
<1>2. t \in DOMAIN tables /\ t \in Nat
  BY <1>1, Walking, TablesTyped
<1>3. r \in FileRec /\ r.page = t /\ r.entries = tables[t]
  BY <1>1, <1>2, TablesTyped DEF FileRec
<1>4. file \in Seq(FileRec) /\ L \in Nat /\ DOMAIN file = 1..L /\ dump.cap \in Nat
  BY <1>1, FileTyped, DumpTyped
<1>5. L < dump.cap
  BY <1>4 DEF Full
<1>6. file' = Append(file, r)
  BY <1>5 DEF DumpTable
<1> HIDE DEF r, t
<1>7. /\ file' \in Seq(FileRec) /\ Len(file') = L + 1 /\ file'[L + 1] = r
      /\ \A m \in 1..L : file'[m] = file[m]
  BY <1>3, <1>4, <1>6, AppendProperties
<1>8. DOMAIN file' = 1..(L + 1)
  BY <1>7, LenProperties
<1>9. file' # << >>
  BY <1>4, <1>7, EmptySeq
<1> HIDE DEF L
<1>10. /\ \A m \in 1..L : m \in 1..(L + 1)
       /\ \A m \in 1..(L + 1) : m \in 1..L \/ m = L + 1
       /\ L + 1 \in 1..(L + 1) /\ L + 1 <= dump.cap
  BY <1>4, <1>5
<1>11. \A k : Stored(k)' <=> Stored(k) \/ k = t
  BY <1>3, <1>4, <1>7, <1>8, <1>10 DEF Stored
<1> QED
  BY <1>1, <1>3, <1>4, <1>7, <1>8, <1>9, <1>10, <1>11 DEF L, t

LEMMA StoredStep ==
    ASSUME NEW lv, Shape(lv), DumpTable, ~Full
    PROVE  Shape(lv)'
<1> DEFINE s == dump.stack
           n == Len(dump.stack)
           t == DumpTop.table
           z == dump'.stack
           L == Len(file)
           N == Len(file) + 1
           F == file'
           up == dump.stack[Len(dump.stack) - 1]
<1>1. /\ dump.pc = "walk" /\ s # << >> /\ DumpTop.i = -1
  BY DEF DumpTable
<1>2. /\ TypeOK /\ n \in Nat /\ n > 0 /\ DOMAIN s = 1..n /\ DumpTop = s[n] /\ load.pc = "no"
      /\ t \in DOMAIN tables /\ lv[t] = n - 1
      /\ \A d \in 1..n : d # n => s[d].i > 0
      /\ \A d \in 1..n : s[d].table = t => d = n
  BY <1>1, Walking DEF Shape
<1>3. /\ dump'.pc = "walk" /\ dump'.cap = dump.cap /\ dump'.count = dump.count + 1
      /\ z # << >> /\ Len(z) = n /\ DOMAIN z = 1..n
      /\ \A d \in 1..n : /\ d # n => z[d] = s[d]
                         /\ z[d].table = s[d].table /\ z[d].level = s[d].level
      /\ z[n].i = 0 /\ n \in 1..n
      /\ dump' \in DumpType
  BY <1>2, TableTop
<1>4. /\ \A k : \A i \in Idx : Past(k, i)' <=> Past(k, i)
      /\ \A c : ~Pending(c)'
  BY TableTop
<1>5. /\ UNCHANGED <<drvVars, load, new, user>>
      /\ F \in Seq(FileRec) /\ Len(F) = N /\ F # << >>
      /\ L \in Nat /\ DOMAIN file = 1..L /\ DOMAIN F = 1..N
      /\ \A m \in 1..L : m \in 1..N /\ F[m] = file[m]
      /\ N \in 1..N /\ F[N].page = t /\ F[N].entries = tables[t]
      /\ \A m \in 1..N : m \in 1..L \/ m = N
      /\ N <= dump.cap
      /\ \A k : Stored(k)' <=> Stored(k) \/ k = t
  BY Appended
<1>6. /\ ~Stored(t)
      /\ n = 1 => t = 1 /\ file = << >>
      /\ n > 1 => /\ n - 1 \in DOMAIN s /\ up.table \in DOMAIN tables /\ lv[up.table] = n - 2
                  /\ up.i - 1 \in Idx /\ Child(up.table, up.i - 1, t) /\ Stored(up.table)
                  /\ \A i \in 0..(up.i - 1) : Past(up.table, i)
      /\ \A k \in DOMAIN tables : \A i \in Idx :
            Child(k, i, t) => n > 1 /\ k = up.table /\ i = up.i - 1
  BY <1>1, AtTable
<1>7. /\ tables' = tables /\ raced' = raced /\ ins' = ins /\ file' = F /\ dump'.stack = z
      /\ new' = new /\ load' = load
  BY <1>5 DEF drvVars
<1>8. TypeOK'
  <2>1. file' \in Seq([page : Nat, entries : [Idx -> Entry]])
    BY <1>5 DEF FileRec
  <2>2. Len(dump'.stack) <= Bottom + 1
    BY <1>2, <1>3 DEF TypeOK
  <2> QED
    BY <1>2, <1>3, <1>5, <2>1, <2>2 DEF TypeOK, DumpType, drvVars
<1>9. \A m \in 1..L : file[m].page # t /\ file[m].page \in DOMAIN tables
  BY <1>5, <1>6 DEF Stored, Shape, FileInv
<1> HIDE DEF s, n, t, z, L, N, F, up
<1>10. N = L + 1 /\ L \in Nat /\ Len(file) = L /\ Len(file') = N
  BY <1>5, <1>7 DEF N, L
<1>11. InsInv' /\ TreeInv(lv)' /\ LoadInv'
  BY <1>7, <1>2, <1>5 DEF Shape, InsInv, TreeInv, LoadInv, Child
<1>12. QuietInv'
  <2>1. ASSUME ~raced
        PROVE  /\ dump.cap = Len(tables) /\ dump.count + 1 = N
               /\ \A m \in 1..N : F[m].entries = tables[F[m].page]
    <3>1. /\ dump.cap = Len(tables) /\ dump.count = L
          /\ \A m \in 1..L : file[m].entries = tables[file[m].page]
      BY <1>1, <1>5, <2>1 DEF Shape, QuietInv, L
    <3> QED
      BY <1>5, <1>10, <3>1
  <2> QED
    BY <1>3, <1>5, <1>7, <1>10, <2>1 DEF QuietInv
<1>13. WalkInv(lv)'
  <2>1. ASSUME NEW d \in 1..n
        PROVE  LET f == z[d] IN
               /\ f.level = d - 1 /\ f.table \in DOMAIN tables /\ lv[f.table] = d - 1
               /\ f.i # -1
               /\ f.table = t \/ Stored(f.table)
               /\ d < n =>
                    /\ f.i > 0 /\ tables[f.table][f.i - 1].type = "pte"
                    /\ tables[f.table][f.i - 1].page = z[d + 1].table
    <3>1. LET f == s[d] IN
          /\ f.level = d - 1 /\ f.table \in DOMAIN tables /\ lv[f.table] = d - 1
          /\ f.i >= 0 => Stored(f.table)
          /\ d < n => f.i > 0 /\ Child(f.table, f.i - 1, s[d + 1].table)
      BY <1>2 DEF Shape, WalkInv, s, n
    <3>2. CASE d = n
      BY <1>2, <1>3, <3>1, <3>2 DEF t
    <3>3. CASE d # n
      <4>1. d + 1 \in 1..n
        BY <1>2, <3>3
      <4>2. z[d] = s[d] /\ z[d + 1].table = s[d + 1].table
        BY <1>3, <3>3, <4>1
      <4>3. s[d].i \in -1..Width
        BY <1>2, DumpTyped DEF s
      <4>4. s[d].i > 0 /\ s[d].i # -1 /\ s[d].i >= 0
        <5>1. s[d].i > 0
          BY <1>2, <3>3
        <5>2. s[d].i \in Int
          BY <4>3, Constants
        <5> QED
          BY <5>1, <5>2
      <4> QED
        BY <3>1, <4>2, <4>4 DEF Child
    <3> QED
      BY <3>2, <3>3
  <2>2. z[1].table = 1
    <3>1. s[1].table = 1 /\ 1 \in 1..n
      BY <1>1, <1>2 DEF Shape, WalkInv, s
    <3> QED
      BY <1>3, <3>1
  <2>3. dump'.cap > 0
    BY <1>1, <1>3 DEF Shape, WalkInv
  <2>4. \A k : k = t \/ Stored(k) => \E m \in DOMAIN F : F[m].page = k
    BY <1>5, <1>7 DEF Stored
  <2>5. ASSUME NEW d \in DOMAIN dump'.stack
        PROVE  LET f == dump'.stack[d] IN
               /\ f.level = d - 1 /\ f.table \in DOMAIN tables' /\ lv[f.table] = d - 1
               /\ f.i # -1
               /\ \E p \in DOMAIN file' : file'[p].page = f.table
               /\ d < Len(dump'.stack) =>
                    /\ f.i > 0 /\ tables'[f.table][f.i - 1].type = "pte"
                    /\ tables'[f.table][f.i - 1].page = dump'.stack[d + 1].table
    <3>1. d \in 1..n /\ Len(dump'.stack) = n
      BY <1>3, <1>7
    <3>2. \E p \in DOMAIN file' : file'[p].page = z[d].table
      BY <1>7, <2>1, <2>4, <3>1
    <3> QED
      BY <1>7, <2>1, <3>1, <3>2
  <2>6. file' # << >> /\ dump'.stack[1].table = 1
    BY <1>5, <1>7, <2>2
  <2> QED
    BY <1>3, <2>3, <2>5, <2>6 DEF WalkInv, Stored, Child
<1>14. ASSUME NEW m \in 1..L, NEW i \in Idx, Child(file[m].page, i, t)
       PROVE  /\ n > 1 /\ file[m].page = up.table /\ i = up.i - 1
              /\ Under(lv, m, L) /\ lv[file[m].page] = n - 2
  <2>1. n > 1 /\ file[m].page = up.table /\ i = up.i - 1
    BY <1>6, <1>9, <1>14
  <2>2. n - 1 \in DOMAIN s /\ up = s[n - 1]
    BY <1>6, <2>1 DEF up, s, n
  <2>3. Under(lv, m, L)
    BY <1>5, <2>1, <2>2 DEF Shape, StoreInv, s, L
  <2> QED
    BY <1>6, <2>1, <2>3
<1>15. ASSUME NEW m \in 1..L, Under(lv, m, L), n - 1 > lv[file[m].page]
       PROVE  \A q \in (m + 1)..N : lv[F[q].page] > lv[F[m].page]
  <2>1. \A q \in (m + 1)..L : lv[F[q].page] > lv[F[m].page]
    <3>1. \A q \in (m + 1)..L : q \in 1..L /\ lv[file[q].page] > lv[file[m].page]
      BY <1>10, <1>15 DEF Under
    <3> QED
      BY <1>5, <3>1
  <2>2. lv[F[N].page] > lv[F[m].page]
    BY <1>2, <1>5, <1>15
  <2>3. \A q \in (m + 1)..N : q \in (m + 1)..L \/ q = N
    BY <1>10
  <2> QED
    BY <2>1, <2>2, <2>3
<1>16. \A m \in 1..N : \A i \in Idx : ~Child(t, i, F[m].page)
  <2>1. \A m \in 1..L : \A i \in Idx : ~Child(t, i, F[m].page)
    BY <1>2, <1>5, <1>6 DEF Shape, FileInv
  <2>2. \A i \in Idx : ~Child(t, i, t)
    <3>1. \A i \in Idx : Child(t, i, t) => t < t
      BY <1>2 DEF Shape, TreeInv
    <3>2. t \in Nat
      BY <1>2, TablesTyped
    <3> QED
      BY <3>1, <3>2
  <2> QED
    BY <1>5, <2>1, <2>2
<1>17. FileInv(lv)'
  <2>1. Len(file') <= dump'.cap /\ file'[1].page = 1
    <3>1. CASE n = 1
      <4>1. t = 1 /\ L = 0
        BY <1>6, <3>1, EmptySeq DEF L, n
      <4>2. N = 1
        BY <1>10, <4>1
      <4> QED
        BY <1>3, <1>5, <1>7, <4>1, <4>2
    <3>2. CASE n # 1
      <4>1. n > 1
        BY <1>2, <3>2
      <4>2. PICK m \in DOMAIN file : file[m].page = up.table
        BY <1>6, <4>1 DEF Stored
      <4>3. 1 \in 1..L /\ file # << >>
        BY <1>5, <4>2, EmptySeq
      <4> QED
        BY <1>3, <1>5, <1>7, <4>3 DEF Shape, FileInv
    <3> QED
      BY <3>1, <3>2
  <2>2. \A m \in 1..N :
          /\ F[m].page \in DOMAIN tables
          /\ \A i \in Idx : F[m].entries[i].type = "pte" =>
                               tables[F[m].page][i] = F[m].entries[i]
    <3>1. \A m \in 1..L :
             /\ file[m].page \in DOMAIN tables
             /\ \A i \in Idx : file[m].entries[i].type = "pte" =>
                                  tables[file[m].page][i] = file[m].entries[i]
      BY <1>5 DEF Shape, FileInv
    <3> QED
      BY <1>2, <1>5, <3>1
  <2>3. \A m, p \in 1..N : F[m].page = F[p].page => m = p
    <3>1. \A m, p \in 1..L : file[m].page = file[p].page => m = p
      BY <1>5 DEF Shape, FileInv
    <3> QED
      BY <1>5, <1>9, <3>1
  <2>4. ASSUME NEW p \in 1..N, NEW k \in DOMAIN tables, NEW i \in Idx, Child(k, i, F[p].page)
        PROVE  Past(k, i) /\ (Stored(k) \/ k = t)
    <3>1. CASE p \in 1..L
      BY <1>5, <2>4, <3>1 DEF Shape, FileInv
    <3>2. CASE p = N
      <4>1. n > 1 /\ k = up.table /\ i = up.i - 1
        BY <1>5, <1>6, <2>4, <3>2
      <4>2. i \in 0..i
        BY Constants
      <4> QED
        BY <1>6, <4>1, <4>2
    <3> QED
      BY <1>5, <3>1, <3>2
  <2>5. ASSUME NEW m \in 1..N, NEW p \in 1..N, NEW i \in Idx, Child(F[m].page, i, F[p].page)
        PROVE  m < p /\ \A q \in (m + 1)..p : lv[F[q].page] > lv[F[m].page]
    <3>1. m \in 1..L
      BY <1>5, <1>16, <2>5
    <3>2. CASE p \in 1..L
      <4>1. m < p /\ Under(lv, m, p)
        BY <1>5, <2>5, <3>1, <3>2 DEF Shape, FileInv
      <4>2. \A q \in (m + 1)..p : q \in 1..L
        BY <1>10, <3>2
      <4> QED
        BY <1>5, <3>1, <4>1, <4>2 DEF Under
    <3>3. CASE p = N
      <4>1. Child(file[m].page, i, t)
        BY <1>5, <2>5, <3>1, <3>3
      <4>2. Under(lv, m, L) /\ lv[file[m].page] = n - 2
        BY <1>14, <3>1, <4>1
      <4>3. n - 1 > lv[file[m].page]
        BY <1>2, <4>2
      <4>4. \A q \in (m + 1)..N : lv[F[q].page] > lv[F[m].page]
        BY <1>15, <3>1, <4>2, <4>3
      <4> QED
        BY <1>10, <3>1, <3>3, <4>4
    <3> QED
      BY <1>5, <3>2, <3>3
  <2>6. ASSUME NEW m \in 1..N, NEW r \in 1..N, NEW i \in Idx, NEW j \in Idx,
               i < j, F[m].entries[i].type = "pte", Child(F[m].page, j, F[r].page)
        PROVE  \E p \in 1..(r - 1) : F[p].page = F[m].entries[i].page
    <3>1. m \in 1..L /\ F[m] = file[m] /\ m \in DOMAIN file
      BY <1>5, <1>16, <2>6
    <3>2. CASE r \in 1..L
      <4>1. \E p \in 1..(r - 1) : file[p].page = file[m].entries[i].page
        BY <1>5, <2>6, <3>1, <3>2 DEF Shape, FileInv
      <4>2. \A p \in 1..(r - 1) : p \in 1..L
        BY <1>10, <3>2
      <4> QED
        BY <1>5, <3>1, <4>1, <4>2
    <3>3. CASE r = N
      <4>1. n > 1 /\ file[m].page = up.table /\ j = up.i - 1
        BY <1>5, <1>14, <2>6, <3>1, <3>3
      <4>2. up.i \in Int
        <5>1. n - 1 \in DOMAIN s /\ up = s[n - 1]
          BY <1>6, <4>1 DEF up, s, n
        <5>2. s[n - 1].i \in -1..Width
          BY <1>2, <5>1, DumpTyped DEF s
        <5> QED
          BY <5>1, <5>2, Constants
      <4>3. Past(file[m].page, i)
        <5>1. i \in 0..(up.i - 1)
          BY <2>6, <4>1, <4>2, Constants
        <5> QED
          BY <1>6, <4>1, <5>1
      <4>4. \/ Stored(file[m].entries[i].page)
            \/ Pending(file[m].entries[i].page)
        BY <2>6, <3>1, <4>3 DEF Shape, StoreInv
      <4>5. ~Pending(file[m].entries[i].page)
        <5>1. tables[file[m].page][i] = file[m].entries[i]
          BY <2>6, <3>1 DEF Shape, FileInv
        <5>2. Child(file[m].page, i, file[m].entries[i].page)
          BY <2>6, <3>1, <5>1 DEF Child
        <5>3. ~Child(file[m].page, i, t)
          <6>1. Child(file[m].page, i, t) => i = j
            BY <1>14, <3>1, <4>1
          <6> QED
            BY <2>6, <6>1, Constants
        <5> QED
          BY <5>2, <5>3 DEF Pending, t
      <4>6. PICK p \in 1..L : file[p].page = file[m].entries[i].page
        BY <1>5, <4>4, <4>5 DEF Stored
      <4> QED
        BY <1>5, <1>10, <3>1, <3>3, <4>6
    <3> QED
      BY <1>5, <3>2, <3>3
  <2>7. \A p \in DOMAIN file' : \A k \in DOMAIN tables : \A i \in Idx :
           Child(k, i, F[p].page) => Past(k, i)' /\ Stored(k)'
    BY <1>4, <1>5, <1>7, <2>4
  <2>8. \A m, r \in DOMAIN file' : \A i, j \in Idx :
           i < j /\ file'[m].entries[i].type = "pte" /\ Child(F[m].page, j, F[r].page)
              => \E p \in 1..(r - 1) : file'[p].page = file'[m].entries[i].page
    <3>1. DOMAIN file' = 1..N /\ file' = F
      BY <1>5, <1>7
    <3> QED
      BY <2>6, <3>1
  <2> QED
    BY <1>5, <1>7, <2>1, <2>2, <2>3, <2>5, <2>7, <2>8 DEF FileInv, Child, Under
<1>18. StoreInv(lv)'
  <2>1. ASSUME NEW m \in 1..N, NEW i \in Idx, F[m].entries[i].type = "pte",
               Past(F[m].page, i)
        PROVE  \E q \in DOMAIN F : F[q].page = F[m].entries[i].page
    <3>1. CASE m = N
      <4>1. s[n].table = t /\ s[n].i = -1 /\ n \in DOMAIN s
        BY <1>1, <1>2, <1>3 DEF t
      <4>2. ~(-1 > i)
        BY Constants
      <4>3. F[m].page = t
        BY <1>5, <3>1
      <4>4. ~Past(t, i)
        BY <4>1, <4>2 DEF Past, s
      <4> QED
        BY <2>1, <4>3, <4>4
    <3>2. CASE m \in 1..L
      <4>1. F[m] = file[m] /\ m \in DOMAIN file
        BY <1>5, <3>2
      <4>2. Stored(file[m].entries[i].page) \/ Pending(file[m].entries[i].page)
        BY <2>1, <4>1 DEF Shape, StoreInv
      <4>3. Pending(file[m].entries[i].page) => file[m].entries[i].page = t
        BY DEF Pending, t
      <4> QED
        BY <1>5, <4>1, <4>2, <4>3 DEF Stored
    <3> QED
      BY <1>5, <3>1, <3>2
  <2>2. ASSUME NEW d \in 1..n, NEW m \in 1..N, F[m].page = z[d].table
        PROVE  \A q \in (m + 1)..N : lv[F[q].page] > lv[F[m].page]
    <3>1. CASE m = N
      BY <1>10, <3>1
    <3>2. CASE m \in 1..L
      <4>1. F[m] = file[m] /\ m \in DOMAIN file
        BY <1>5, <3>2
      <4>2. file[m].page = s[d].table
        BY <1>3, <2>2, <4>1
      <4>3. Under(lv, m, L)
        BY <1>2, <4>1, <4>2 DEF Shape, StoreInv, s, L
      <4>4. s[d].table # t /\ lv[s[d].table] = d - 1
        BY <1>2, <1>9, <3>2, <4>2 DEF Shape, WalkInv, s
      <4>5. d # n
        BY <1>2, <4>4 DEF t
      <4>6. n - 1 > lv[file[m].page]
        BY <1>2, <4>2, <4>4, <4>5
      <4> QED
        BY <1>15, <3>2, <4>3, <4>6
    <3> QED
      BY <1>5, <3>1, <3>2
  <2>3. ASSUME NEW m \in DOMAIN file', NEW i \in Idx, file'[m].entries[i].type = "pte",
               \A d \in DOMAIN dump'.stack :
                  dump'.stack[d].table = file'[m].page => dump'.stack[d].i > i
        PROVE  \E q \in DOMAIN file' : file'[q].page = file'[m].entries[i].page
    <3>1. \A k : (\A d \in DOMAIN dump'.stack :
                     dump'.stack[d].table = k => dump'.stack[d].i > i) => Past(k, i)
      BY <1>4 DEF Past
    <3>2. Past(F[m].page, i)
      BY <1>7, <2>3, <3>1
    <3> QED
      BY <1>5, <1>7, <2>1, <2>3, <3>2
  <2>4. ASSUME NEW d \in DOMAIN dump'.stack, NEW m \in DOMAIN file',
               file'[m].page = dump'.stack[d].table
        PROVE  \A q \in (m + 1)..Len(file') : lv[file'[q].page] > lv[file'[m].page]
    BY <1>3, <1>5, <1>7, <1>10, <2>2, <2>4
  <2> QED
    BY <2>3, <2>4 DEF StoreInv, Past, Stored, Under
<1> QED
  BY <1>8, <1>11, <1>12, <1>13, <1>17, <1>18 DEF Shape

-----------------------------------------------------------------------------
(* What the dump has left for the replayer.                                *)

(* The links in the file, and the tables that they lead to.                *)
LEMMA Dumped ==
    ASSUME NEW lv, Shape(lv), dump.pc = "done"
    PROVE  /\ Len(file) \in Nat /\ DOMAIN file = 1..Len(file) /\ 1 \in DOMAIN file
           /\ file[1].page = 1 /\ lv[1] = 0
           /\ \A n \in DOMAIN file : /\ file[n].page \in DOMAIN tables
                                     /\ lv[file[n].page] \in Levels
           /\ \A n \in DOMAIN file : \A i \in Idx : IsLink(n, i) =>
                 /\ lv[file[n].page] < Bottom
                 /\ Stored(file[n].entries[i].page) \/ Under(lv, n, Len(file))
                 /\ \A p \in DOMAIN file : file[p].page = file[n].entries[i].page =>
                       n < p /\ Under(lv, n, p) /\ lv[file[p].page] = lv[file[n].page] + 1
           /\ \A n, r \in DOMAIN file : \A i, j \in Idx :
                 /\ i < j /\ IsLink(n, i) /\ IsLink(n, j)
                 /\ file[r].page = file[n].entries[j].page
                 => \E p \in 1..(r - 1) : file[p].page = file[n].entries[i].page
<1>1. TypeOK /\ file # << >> /\ dump.stack = << >>
  BY DEF Shape, WalkInv
<1>2. Len(file) \in Nat /\ DOMAIN file = 1..Len(file) /\ 1 \in DOMAIN file
  BY <1>1, FileTyped, EmptySeq
<1>3. file[1].page = 1 /\ lv[1] = 0
  BY <1>1 DEF Shape, FileInv, TreeInv
<1>4. \A n \in DOMAIN file : file[n].page \in DOMAIN tables /\ lv[file[n].page] \in Levels
  BY DEF Shape, FileInv, TreeInv
<1>5. ASSUME NEW n \in DOMAIN file, NEW i \in Idx, IsLink(n, i)
      PROVE  /\ Child(file[n].page, i, file[n].entries[i].page)
             /\ file[n].entries[i].page \in DOMAIN tables
             /\ lv[file[n].entries[i].page] = lv[file[n].page] + 1
  <2>1. file[n].entries[i].type = "pte" /\ tables[file[n].page][i] = file[n].entries[i]
    BY <1>5 DEF Shape, FileInv, IsLink
  <2>2. Child(file[n].page, i, file[n].entries[i].page)
    BY <2>1 DEF Child
  <2>3. file[n].entries[i].page \in DOMAIN tables
    BY <1>4, <2>1 DEF Shape, TreeInv
  <2> QED
    BY <1>4, <2>2, <2>3 DEF Shape, TreeInv
<1>6. ASSUME NEW n \in DOMAIN file, NEW i \in Idx, IsLink(n, i)
      PROVE  /\ lv[file[n].page] < Bottom
             /\ Stored(file[n].entries[i].page) \/ Under(lv, n, Len(file))
             /\ \A p \in DOMAIN file : file[p].page = file[n].entries[i].page =>
                   n < p /\ Under(lv, n, p) /\ lv[file[p].page] = lv[file[n].page] + 1
  <2>1. lv[file[n].page] < Bottom
    <3>1. lv[file[n].page] \in Levels /\ lv[file[n].page] + 1 \in Levels
      BY <1>4, <1>5, <1>6 DEF Shape, TreeInv
    <3>2. \A x \in Levels : x + 1 \in Levels => x < Bottom
      BY Constants
    <3> QED
      BY <3>1, <3>2
  <2>2. Past(file[n].page, i) /\ ~Pending(file[n].entries[i].page)
    <3>1. DOMAIN dump.stack = {}
      BY <1>1
    <3> QED
      BY <1>1, <3>1 DEF Past, Pending
  <2>3. Stored(file[n].entries[i].page) \/ Under(lv, n, Len(file))
    BY <1>6, <2>2 DEF Shape, StoreInv, IsLink
  <2>4. ASSUME NEW p \in DOMAIN file, file[p].page = file[n].entries[i].page
        PROVE  n < p /\ Under(lv, n, p) /\ lv[file[p].page] = lv[file[n].page] + 1
    <3>1. Child(file[n].page, i, file[p].page)
      BY <1>5, <1>6, <2>4
    <3> QED
      BY <1>5, <1>6, <2>4, <3>1 DEF Shape, FileInv
  <2> QED
    BY <2>1, <2>3, <2>4
<1>7. ASSUME NEW n \in DOMAIN file, NEW r \in DOMAIN file, NEW i \in Idx, NEW j \in Idx,
             i < j, IsLink(n, i), IsLink(n, j), file[r].page = file[n].entries[j].page
      PROVE  \E p \in 1..(r - 1) : file[p].page = file[n].entries[i].page
  <2>1. Child(file[n].page, j, file[r].page)
    BY <1>5, <1>7
  <2> QED
    BY <1>7, <2>1 DEF Shape, FileInv, IsLink
<1> QED
  BY <1>2, <1>3, <1>4, <1>6, <1>7

-----------------------------------------------------------------------------
(* The replayer.                                                           *)

LEMMA LoadTyped ==
    ASSUME TypeOK
    PROVE  /\ load.stack \in Seq(LoadFrame) /\ DOMAIN load.stack = 1..Len(load.stack)
           /\ Len(load.stack) \in Nat /\ load.offset \in Nat
           /\ \A d \in DOMAIN load.stack :
                 /\ load.stack[d] \in LoadFrame /\ load.stack[d].table \in Nat
                 /\ load.stack[d].at \in Nat /\ load.stack[d].level \in Levels
                 /\ load.stack[d].i \in 0..Width /\ load.stack[d].buf \in [Idx -> Entry]
           /\ new \in Seq([Idx -> Entry]) /\ Len(new) \in Nat /\ DOMAIN new = 1..Len(new)
           /\ \A k \in DOMAIN new :
                 new[k] \in [Idx -> Entry] /\ \A i \in Idx : new[k][i] \in Entry
           /\ user \in Seq([Idx -> Nat]) /\ Len(user) = Len(new) /\ DOMAIN user = DOMAIN new
           /\ \A k \in DOMAIN user : user[k] \in [Idx -> Nat]
<1>1. load.stack \in Seq(LoadFrame) /\ load.offset \in Nat
  BY DEF TypeOK
<1>2. DOMAIN load.stack = 1..Len(load.stack) /\ Len(load.stack) \in Nat
  BY <1>1, LenProperties
<1>3. \A d \in DOMAIN load.stack : load.stack[d] \in LoadFrame
  BY <1>1, <1>2, ElementOfSeq
<1>4. \A f \in LoadFrame : /\ f.table \in Nat /\ f.at \in Nat /\ f.level \in Levels
                           /\ f.i \in 0..Width /\ f.buf \in [Idx -> Entry]
  BY DEF LoadFrame
<1>5. new \in Seq([Idx -> Entry]) /\ Len(new) \in Nat /\ DOMAIN new = 1..Len(new)
  BY LenProperties DEF TypeOK
<1>6. \A k \in DOMAIN new : new[k] \in [Idx -> Entry]
  BY <1>5, ElementOfSeq
<1>7. user \in Seq([Idx -> Nat]) /\ Len(user) = Len(new) /\ DOMAIN user = DOMAIN new
  BY <1>5, LenProperties DEF TypeOK
<1>8. \A k \in DOMAIN user : user[k] \in [Idx -> Nat]
  BY <1>5, <1>7, ElementOfSeq
<1> QED
  BY <1>1, <1>2, <1>3, <1>4, <1>5, <1>6, <1>7, <1>8

(* A step of the replayer leaves what is known of the driver and the dump. *)
LEMMA DriverKept ==
    ASSUME NEW lv, Shape(lv), UNCHANGED <<drvVars, dump, file>>
    PROVE  /\ InsInv' /\ QuietInv' /\ TreeInv(lv)' /\ WalkInv(lv)' /\ FileInv(lv)'
           /\ StoreInv(lv)'
<1>1. /\ tables' = tables /\ ins' = ins /\ raced' = raced /\ dump' = dump /\ file' = file
  BY DEF drvVars
<1>2. InsInv' /\ QuietInv'
  BY <1>1 DEF Shape, InsInv, QuietInv
<1>3. TreeInv(lv)'
  BY <1>1 DEF Shape, TreeInv, Child
<1>4. WalkInv(lv)'
  BY <1>1, SMTT(30) DEF Shape, WalkInv, Child, Stored, Full, DumpTop
<1>5. FileInv(lv)'
  BY <1>1 DEF Shape, FileInv, Child, Stored, Past, Under
<1>6. StoreInv(lv)'
  BY <1>1 DEF Shape, StoreInv, Stored, Past, Under, Pending, Full, DumpTop
<1> QED
  BY <1>2, <1>3, <1>4, <1>5, <1>6

(* A call gets an empty table and the entries at its place of the file.    *)
LEMMA Called ==
    ASSUME NEW at \in DOMAIN file, NEW level \in Levels, TypeOK, Call(at, level),
           Len(load.stack) <= Bottom, UNCHANGED <<drvVars, dump, file>>
    PROVE  LET D == Len(load.stack) + 1
               M == Len(new) + 1
               f == load'.stack[D]
           IN
           /\ TypeOK' /\ load'.pc = "walk" /\ load'.offset = at
           /\ Len(load'.stack) = D /\ DOMAIN load'.stack = 1..D /\ load'.stack # << >>
           /\ \A d \in 1..D : d \in DOMAIN load.stack \/ d = D
           /\ \A d \in DOMAIN load.stack : d < D /\ load'.stack[d] = load.stack[d]
           /\ f.table = M /\ f.at = at /\ f.level = level /\ f.i = 0
           /\ f.buf = file[at].entries
           /\ Len(new') = M /\ DOMAIN new' = 1..M /\ M \in 1..M
           /\ \A k \in 1..M : k \in DOMAIN new \/ k = M
           /\ \A k \in DOMAIN new : k \in 1..M /\ k < M /\ new'[k] = new[k]
<1> DEFINE g == [table |-> Len(new) + 1, at |-> at, level |-> level, i |-> 0,
                 buf |-> file[at].entries]
           S == Len(load.stack)
           K == Len(new)
<1>1. /\ load' = [load EXCEPT !.pc = "walk", !.offset = at, !.stack = Append(@, g)]
      /\ new' = Append(new, Empty) /\ user' = Append(user, [i \in Idx |-> NoTable])
  BY DEF Call
<1>2. /\ load.stack \in Seq(LoadFrame) /\ DOMAIN load.stack = 1..S /\ S \in Nat
      /\ new \in Seq([Idx -> Entry]) /\ K \in Nat /\ DOMAIN new = 1..K
      /\ user \in Seq([Idx -> Nat]) /\ Len(user) = K
  BY LoadTyped
<1>3. at \in Nat /\ file[at].entries \in [Idx -> Entry]
  BY FileTyped
<1>4. /\ g \in LoadFrame /\ g.table = K + 1 /\ g.at = at /\ g.level = level /\ g.i = 0
      /\ g.buf = file[at].entries
  <2>1. K + 1 \in Nat /\ 0 \in 0..Width
    BY <1>2, Constants
  <2> HIDE DEF K
  <2> QED
    BY <1>3, <2>1 DEF LoadFrame, K
<1>5. Empty \in [Idx -> Entry]
      /\ [i \in Idx |-> NoTable] \in [Idx -> Nat]
  BY Entries DEF NoTable
<1> HIDE DEF g
<1>6. /\ load'.pc = "walk" /\ load'.offset = at /\ load'.stack = Append(load.stack, g)
      /\ load' \in [pc : {"no", "walk", "beyond", "regions", "done"},
                    stack : Seq(LoadFrame), offset : Nat]
  <2>1. Append(load.stack, g) \in Seq(LoadFrame)
    BY <1>2, <1>4, AppendProperties
  <2> QED
    BY <1>1, <1>3, <2>1 DEF TypeOK
<1>7. /\ load'.stack \in Seq(LoadFrame) /\ Len(load'.stack) = S + 1
      /\ load'.stack[S + 1] = g
      /\ \A d \in 1..S : load'.stack[d] = load.stack[d]
  BY <1>2, <1>4, <1>6, AppendProperties
<1>8. /\ new' \in Seq([Idx -> Entry]) /\ Len(new') = K + 1 /\ new'[K + 1] = Empty
      /\ \A k \in 1..K : new'[k] = new[k]
      /\ user' \in Seq([Idx -> Nat]) /\ Len(user') = K + 1
  BY <1>1, <1>2, <1>5, AppendProperties
<1>9. /\ DOMAIN load'.stack = 1..(S + 1) /\ DOMAIN new' = 1..(K + 1)
  BY <1>7, <1>8, LenProperties
<1>10. load'.stack # << >>
  BY <1>2, <1>7, EmptySeq
<1>11. TypeOK'
  <2>1. Len(load'.stack) <= Bottom + 1
    BY <1>2, <1>7, Constants
  <2> QED
    BY <1>6, <1>8, <2>1 DEF TypeOK, drvVars
<1> HIDE DEF S, K
<1>12. /\ \A d \in 1..(S + 1) : d \in 1..S \/ d = S + 1
       /\ \A d \in 1..S : d < S + 1
       /\ \A k \in 1..(K + 1) : k \in 1..K \/ k = K + 1
       /\ \A k \in 1..K : k \in 1..(K + 1) /\ k < K + 1
       /\ K + 1 \in 1..(K + 1)
  BY <1>2
<1> QED
  BY <1>2, <1>4, <1>5, <1>6, <1>7, <1>8, <1>9, <1>10, <1>11, <1>12 DEF S, K

(* A call gets a table of null pointers.                                   *)
LEMMA CalledUser ==
    ASSUME TypeOK, NEW at, NEW level, Call(at, level)
    PROVE  LET M == Len(new) + 1 IN
           /\ user'[M] = [i \in Idx |-> NoTable]
           /\ \A k \in DOMAIN new : user'[k] = user[k]
<1> DEFINE K == Len(new)
<1>1. user' = Append(user, [i \in Idx |-> NoTable])
  BY DEF Call
<1>2. user \in Seq([Idx -> Nat]) /\ Len(user) = K /\ K \in Nat /\ DOMAIN new = 1..K
  BY LoadTyped
<1>3. [i \in Idx |-> NoTable] \in [Idx -> Nat]
  BY DEF NoTable
<1>4. user'[K + 1] = [i \in Idx |-> NoTable] /\ \A k \in 1..K : user'[k] = user[k]
  BY <1>1, <1>2, <1>3, AppendProperties
<1> QED
  BY <1>2, <1>4


LEMMA LoadBeginStep ==
    ASSUME NEW lv, Shape(lv), LoadBegin
    PROVE  Shape(lv)'
<1>1. /\ load.pc = "no" /\ dump.pc = "done" /\ Call(1, 0) /\ UNCHANGED <<drvVars, dump, file>>
  BY DEF LoadBegin
<1>2. TypeOK /\ new = << >> /\ load.stack = << >>
  BY <1>1 DEF Shape, LoadInv
<1>3. 1 \in DOMAIN file
  BY <1>1, Dumped
<1>4. 0 \in Levels /\ Len(load.stack) = 0 /\ Len(load.stack) <= Bottom /\ Len(new) = 0
  BY <1>2, Constants, EmptySeq
<1>5. /\ TypeOK' /\ load'.pc = "walk" /\ load'.offset = 1
      /\ Len(load'.stack) = 1 /\ DOMAIN load'.stack = 1..1 /\ load'.stack # << >>
      /\ load'.stack[1].table = 1 /\ load'.stack[1].at = 1 /\ load'.stack[1].level = 0
      /\ load'.stack[1].i = 0 /\ load'.stack[1].buf = file[1].entries
      /\ Len(new') = 1 /\ DOMAIN new' = 1..1
  <2>1. Len(load.stack) + 1 = 1 /\ Len(new) + 1 = 1
    BY <1>4
  <2> QED
    BY <1>1, <1>2, <1>3, <1>4, <2>1, Called
<1>6. file' = file /\ dump' = dump
  BY <1>1
<1>7. \A x \in 1..1 : x = 1
  OBVIOUS
<1>8. FrameInv(1)'
  <2>1. /\ ~(1 < 1) /\ 1 - 1 = 0 /\ 1 \in 1..1
    OBVIOUS
  <2> QED
    BY <1>5, <1>6, <1>7, <2>1 DEF FrameInv
<1>9. LoadInv'
  <2>1. \A d \in DOMAIN load'.stack : FrameInv(d)'
    BY <1>5, <1>7, <1>8
  <2> QED
    BY <1>1, <1>3, <1>5, <1>6, <2>1 DEF LoadInv
<1> QED
  BY <1>1, <1>5, <1>9, DriverKept DEF Shape

(* Over with what follows the dump: no table of the replayer is under way. *)
LEMMA BeyondStep ==
    ASSUME NEW lv, Shape(lv), LoadChild, ~(load.offset < Len(file))
    PROVE  Shape(lv)' /\ load'.pc = "beyond"
<1>1. /\ load.pc = "walk" /\ load' = [load EXCEPT !.pc = "beyond"] /\ UNCHANGED <<new, user>>
      /\ UNCHANGED <<drvVars, dump, file>>
  BY DEF LoadChild
<1>2. TypeOK /\ dump.pc = "done"
  BY <1>1 DEF Shape, LoadInv
<1>3. /\ load'.pc = "beyond" /\ load'.stack = load.stack
      /\ load' \in [pc : {"no", "walk", "beyond", "regions", "done"},
                    stack : Seq(LoadFrame), offset : Nat]
  BY <1>1, <1>2 DEF TypeOK
<1>4. TypeOK'
  BY <1>1, <1>2, <1>3 DEF TypeOK, drvVars
<1>5. LoadInv'
  BY <1>1, <1>2, <1>3 DEF LoadInv
<1> QED
  BY <1>1, <1>3, <1>4, <1>5, DriverKept DEF Shape

(* The call on top, and the next of its entries that it follows.           *)
LEMMA OnTop ==
    ASSUME NEW lv, Shape(lv), load.pc = "walk"
    PROVE  LET D == Len(load.stack)
               f == LoadTop
           IN
           /\ D \in Nat /\ D > 0 /\ D \in DOMAIN load.stack /\ DOMAIN load.stack = 1..D
           /\ f = load.stack[D] /\ f.level = D - 1
           /\ f.at \in DOMAIN file /\ load.offset \in DOMAIN file /\ dump.pc = "done"
           /\ \A d \in DOMAIN load.stack : FrameInv(d) /\ load.stack[d].at \in DOMAIN file
           /\ NextLink \in 0..Width
           /\ NextLink < Width =>
                NextLink \in Idx /\ NextLink \in f.i..(Width - 1) /\ Takes(f, NextLink)
           /\ NextLink = Width => \A i \in f.i..(Width - 1) : ~Takes(f, i)
           /\ \A i \in f.i..(Width - 1) : Takes(f, i) => NextLink <= i
<1> DEFINE D == Len(load.stack)
           f == LoadTop
<1>1. /\ TypeOK /\ load.stack # << >> /\ load.offset \in DOMAIN file /\ dump.pc = "done"
      /\ \A d \in DOMAIN load.stack : FrameInv(d)
  BY DEF Shape, LoadInv
<1>2. /\ D \in Nat /\ D > 0 /\ DOMAIN load.stack = 1..D /\ f = load.stack[D]
      /\ D \in DOMAIN load.stack
  <2>1. load.stack \in Seq(LoadFrame) /\ DOMAIN load.stack = 1..D /\ load.stack # << >>
    BY <1>1, LoadTyped
  <2>2. D \in Nat /\ D > 0 /\ Last(load.stack) = load.stack[D]
    BY <2>1, Popped
  <2>3. D \in 1..D
    BY <2>2
  <2> QED
    BY <2>1, <2>2, <2>3 DEF LoadTop
<1>3. Len(file) \in Nat /\ DOMAIN file = 1..Len(file)
  BY <1>1, Dumped
<1>4. \A d \in DOMAIN load.stack : load.stack[d].at \in DOMAIN file
  BY <1>1, <1>3, SMTT(30) DEF FrameInv
<1>5. f.level = D - 1 /\ f.i \in 0..Width /\ f.at \in DOMAIN file
  BY <1>1, <1>2, <1>4, LoadTyped DEF FrameInv
<1> DEFINE S == {i \in f.i..(Width - 1) : Takes(f, i)}
<1> HIDE DEF f, D
<1>6. f.i \in Nat /\ Width \in Nat /\ f.i <= Width
  BY <1>5, Constants
<1>7. f.i..(Width - 1) \subseteq Idx /\ Idx \subseteq Nat
  BY <1>6, Constants
<1>8. NextLink = Min({Width} \cup S)
  BY DEF NextLink, Takes, f
<1>9. {Width} \cup S \subseteq Nat /\ {Width} \cup S # {}
  BY <1>6, <1>7
<1>10. S = {i \in f.i..(Width - 1) : Takes(f, i)}
  OBVIOUS
<1> HIDE DEF S
<1>11. NextLink \in {Width} \cup S /\ \A k \in {Width} \cup S : NextLink <= k
  BY <1>8, <1>9, Smallest
<1>12. NextLink \in 0..Width
  <2>1. NextLink \in Nat /\ NextLink <= Width
    BY <1>9, <1>11
  <2> QED
    BY <1>6, <2>1
<1>13. ASSUME NextLink < Width
       PROVE  NextLink \in Idx /\ NextLink \in f.i..(Width - 1) /\ Takes(f, NextLink)
  <2>1. NextLink # Width
    BY <1>6, <1>13
  <2>2. NextLink \in S
    BY <1>11, <2>1
  <2> QED
    BY <1>7, <1>10, <2>2
<1>14. \A i \in f.i..(Width - 1) : Takes(f, i) => NextLink <= i
  BY <1>10, <1>11
<1>15. ASSUME NextLink = Width, NEW i \in f.i..(Width - 1), Takes(f, i) PROVE FALSE
  <2>1. Width <= i /\ i < Width /\ i \in Nat
    BY <1>6, <1>7, <1>14, <1>15
  <2> QED
    BY <1>6, <2>1
<1> QED
  BY <1>1, <1>2, <1>4, <1>5, <1>12, <1>13, <1>14, <1>15 DEF f, D

(* The child is one level below the call on top, which is above the bottom.*)
LEMMA LoadChildStep ==
    ASSUME NEW lv, Shape(lv), LoadChild, load.offset < Len(file)
    PROVE  LET D == Len(load.stack)
               M == Len(new) + 1
               o == load.offset
               f == load'.stack[D + 1]
           IN
           /\ Shape(lv)' /\ load.pc = "walk" /\ load'.pc = "walk" /\ load'.offset = o + 1
           /\ D \in Levels /\ D \in Nat /\ D > 0 /\ D \in DOMAIN load.stack
           /\ DOMAIN load.stack = 1..D /\ DOMAIN load'.stack = 1..(D + 1) /\ Len(load'.stack) = D + 1
           /\ \A d \in 1..D : load'.stack[d] = load.stack[d]
           /\ f.table = M /\ f.at = o + 1 /\ f.level = D /\ f.i = 0
           /\ f.buf = file[o + 1].entries /\ o + 1 \in DOMAIN file
           /\ DOMAIN new = 1..Len(new) /\ Len(new) \in Nat
           /\ Len(new') = M /\ DOMAIN new' = 1..M
           /\ \A k \in DOMAIN new : new'[k] = new[k] /\ user'[k] = user[k]
           /\ user'[M] = [i \in Idx |-> NoTable]
           /\ UNCHANGED <<drvVars, dump, file>>
<1> DEFINE D == Len(load.stack)
           o == load.offset
           s == load.stack
           z == load'.stack
           M == Len(new) + 1
<1>1. /\ load.pc = "walk" /\ NextLink < Width /\ Call(o + 1, LoadTop.level + 1)
      /\ UNCHANGED <<drvVars, dump, file>> /\ file' = file /\ dump' = dump
  BY DEF LoadChild
<1>2. /\ TypeOK /\ D \in Nat /\ D > 0 /\ D \in DOMAIN s /\ DOMAIN s = 1..D /\ LoadTop = s[D]
      /\ LoadTop.level = D - 1 /\ o \in DOMAIN file /\ dump.pc = "done"
      /\ NextLink \in LoadTop.i..(Width - 1) /\ Takes(LoadTop, NextLink)
      /\ \A d \in DOMAIN s : FrameInv(d)
  BY <1>1, OnTop DEF Shape
<1>3. o \in Nat /\ o + 1 \in DOMAIN file
  <2>1. Len(file) \in Nat /\ DOMAIN file = 1..Len(file)
    BY <1>2, Dumped
  <2>2. o < Len(file)
    OBVIOUS
  <2> HIDE DEF o
  <2> QED
    BY <1>2, <2>1, <2>2
<1>4. D \in Levels /\ D <= Bottom /\ LoadTop.level + 1 = D
  <2>1. LoadTop.level < Bottom
    BY <1>2 DEF Takes, Follows
  <2> HIDE DEF D
  <2> QED
    BY <1>2, <2>1, Constants
<1>5. Len(new) \in Nat /\ DOMAIN new = 1..Len(new)
  BY <1>2, LoadTyped
<1>6. /\ TypeOK' /\ load'.pc = "walk" /\ load'.offset = o + 1
      /\ Len(z) = D + 1 /\ DOMAIN z = 1..(D + 1) /\ z # << >>
      /\ \A d \in 1..(D + 1) : d \in DOMAIN s \/ d = D + 1
      /\ \A d \in DOMAIN s : d < D + 1 /\ z[d] = s[d]
      /\ z[D + 1].table = M /\ z[D + 1].at = o + 1 /\ z[D + 1].level = D /\ z[D + 1].i = 0
      /\ z[D + 1].buf = file[o + 1].entries
      /\ Len(new') = M /\ DOMAIN new' = 1..M /\ M \in 1..M
      /\ \A k \in DOMAIN new : k \in 1..M /\ k < M /\ new'[k] = new[k]
  <2>1. Call(o + 1, D) /\ Len(load.stack) <= Bottom
    BY <1>1, <1>4
  <2>2. UNCHANGED <<drvVars, dump, file>> /\ TypeOK
    BY <1>1, <1>2
  <2> HIDE DEF o
  <2> QED
    BY <1>3, <1>4, <2>1, <2>2, Called
<1>7. user'[M] = [i \in Idx |-> NoTable] /\ \A k \in DOMAIN new : user'[k] = user[k]
  BY <1>1, <1>2, CalledUser
<1>8. /\ z = load'.stack /\ s = load.stack /\ o = load.offset /\ D = Len(load.stack)
      /\ M = Len(new) + 1
  OBVIOUS
<1> HIDE DEF D, o, s, z, M
<1>9. ASSUME NEW d \in DOMAIN s
      PROVE  FrameInv(d)'
  <2>1. FrameInv(d)
    BY <1>2
  <2>2. z[d] = s[d] /\ d < D + 1
    BY <1>6
  <2>3. s[d].at \in 1..(o + 1) /\ s[d].table \in DOMAIN new'
    BY <1>3, <1>5, <1>6, <1>8, <2>1 DEF FrameInv
  <2>4. \E i \in s[d].i..(Width - 1) : Takes(s[d], i)
    <3>1. CASE d = D
      BY <1>2, <3>1
    <3>2. CASE d # D
      <4>1. d < D
        BY <1>2, <3>2
      <4> QED
        BY <1>8, <2>1, <4>1 DEF FrameInv
    <3> QED
      BY <3>1, <3>2
  <2>5. \A e \in DOMAIN z : d < e => s[d].table < z[e].table
    <3>1. s[d].table \in DOMAIN new /\ s[d].table < M
      BY <1>6, <1>8, <2>1 DEF FrameInv
    <3> QED
      BY <1>6, <1>8, <2>1, <3>1 DEF FrameInv
  <2>6. s[d].level = d - 1 /\ \A i \in s[d].i..(Width - 1) : s[d].buf[i] = file[s[d].at].entries[i]
    BY <1>8, <2>1 DEF FrameInv
  <2>7. PICK g : g = z[d]
    OBVIOUS
  <2>8. \E i \in g.i..(Width - 1) : Takes(g, i)'
    BY <1>1, <2>2, <2>4, <2>7 DEF Takes
  <2> QED
    BY <1>1, <1>6, <1>8, <2>2, <2>3, <2>5, <2>6, <2>7, <2>8 DEF FrameInv
<1>10. ASSUME NEW d, d = D + 1
       PROVE  FrameInv(d)'
  <2>1. D \in Nat
    BY <1>2
  <2>2. d - 1 = D /\ ~(d < d) /\ \A e \in 1..(D + 1) : ~(d < e)
    BY <1>10, <2>1
  <2>3. o + 1 \in 1..(o + 1)
    BY <1>3
  <2>4. /\ z[d].table \in DOMAIN new' /\ z[d].at = o + 1 /\ z[d].level = d - 1
        /\ z[d].buf = file[o + 1].entries /\ Len(z) = d /\ DOMAIN z = 1..(D + 1)
    BY <1>6, <1>10, <2>2
  <2> QED
    BY <1>1, <1>6, <1>8, <2>2, <2>3, <2>4 DEF FrameInv
<1>11. load'.stack[1].table = 1
  <2>1. load.stack[1].table = 1 /\ 1 \in DOMAIN s
    BY <1>1, <1>2 DEF Shape, LoadInv
  <2> QED
    BY <1>6, <1>8, <2>1
<1>12. LoadInv'
  <2>1. \A d \in DOMAIN load'.stack : FrameInv(d)'
    BY <1>6, <1>8, <1>9, <1>10
  <2> QED
    BY <1>1, <1>2, <1>3, <1>6, <1>8, <1>11, <2>1 DEF LoadInv
<1>13. Shape(lv)'
  BY <1>1, <1>6, <1>12, DriverKept DEF Shape
<1> QED
  BY <1>1, <1>2, <1>3, <1>4, <1>5, <1>6, <1>7, <1>13 DEF D, o, s, z, M

(* The page of the call that returns has the entries of its buffer.        *)
LEMMA Returned ==
    ASSUME NEW lv, Shape(lv), LoadReturn
    PROVE  LET D == Len(load.stack)
               f == load.stack[D]
           IN
           /\ load.pc = "walk" /\ NextLink = Width /\ LoadTop = f /\ TypeOK
           /\ D \in Nat /\ D > 0 /\ D \in DOMAIN load.stack /\ DOMAIN load.stack = 1..D
           /\ f.table \in DOMAIN new /\ DOMAIN new' = DOMAIN new /\ Len(new') = Len(new)
           /\ new' \in Seq([Idx -> Entry]) /\ new'[f.table] = f.buf
           /\ \A k \in DOMAIN new : k # f.table => new'[k] = new[k]
           /\ \A i \in f.i..(Width - 1) : ~Takes(f, i)
           /\ Front(load.stack) = << >> <=> D = 1
<1> DEFINE D == Len(load.stack)
           f == load.stack[D]
<1>1. load.pc = "walk" /\ NextLink = Width /\ new' = [new EXCEPT ![LoadTop.table] = LoadTop.buf]
  BY DEF LoadReturn
<1>2. /\ D \in Nat /\ D > 0 /\ D \in DOMAIN load.stack /\ DOMAIN load.stack = 1..D
      /\ LoadTop = f /\ FrameInv(D) /\ TypeOK
      /\ \A i \in f.i..(Width - 1) : ~Takes(f, i)
  BY <1>1, OnTop DEF Shape
<1>3. /\ f.i \in 0..Width /\ f.buf \in [Idx -> Entry] /\ new \in Seq([Idx -> Entry])
      /\ Len(new) \in Nat /\ DOMAIN new = 1..Len(new) /\ load.stack \in Seq(LoadFrame)
  <2>1. D \in DOMAIN load.stack /\ TypeOK
    BY <1>2
  <2> HIDE DEF D
  <2> QED
    BY <2>1, LoadTyped
<1>4. f.table \in DOMAIN new
  BY <1>2 DEF FrameInv
<1>5. load.stack # << >> /\ (Front(load.stack) = << >> <=> D = 1)
  <2>1. load.stack # << >>
    BY <1>2, EmptySeq
  <2> QED
    BY <1>3, <2>1, Popped
<1> HIDE DEF f, D
<1>6. new' = [new EXCEPT ![f.table] = f.buf]
  BY <1>1, <1>2
<1>7. /\ DOMAIN new' = DOMAIN new /\ new'[f.table] = f.buf
      /\ \A k \in DOMAIN new : k # f.table => new'[k] = new[k]
  BY <1>3, <1>4, <1>6
<1>8. new \in [1..Len(new) -> [Idx -> Entry]]
  BY <1>3, LoadTyped, <1>2
<1>9. new' \in [1..Len(new) -> [Idx -> Entry]]
  BY <1>3, <1>4, <1>6, <1>8
<1>10. new' \in Seq([Idx -> Entry]) /\ Len(new') = Len(new)
  BY <1>3, <1>9, SeqOfFunction
<1> QED
  BY <1>1, <1>2, <1>4, <1>5, <1>7, <1>10 DEF f, D

LEMMA LastReturnStep ==
    ASSUME NEW lv, Shape(lv), LoadReturn, Len(load.stack) = 1
    PROVE  Shape(lv)'
<1>1. /\ Front(load.stack) = << >> /\ TypeOK /\ load.pc = "walk" /\ dump.pc = "done"
  BY Returned, OnTop
<1>2. /\ load' = [load EXCEPT !.stack = << >>, !.pc = "regions"] /\ user' = user
      /\ UNCHANGED <<drvVars, dump, file>> /\ dump' = dump
  BY <1>1 DEF LoadReturn
<1>3. /\ load'.pc = "regions" /\ load'.stack = << >>
      /\ load' \in [pc : {"no", "walk", "beyond", "regions", "done"},
                    stack : Seq(LoadFrame), offset : Nat]
  <2>1. << >> \in Seq(LoadFrame)
    BY EmptySeq
  <2> QED
    BY <1>1, <1>2, <2>1 DEF TypeOK
<1>4. new' \in Seq([Idx -> Entry]) /\ Len(new') = Len(new)
  BY Returned
<1>5. TypeOK'
  <2>1. Len(load'.stack) <= Bottom + 1
    BY <1>3, EmptySeq, Constants
  <2> QED
    BY <1>1, <1>2, <1>3, <1>4, <2>1 DEF TypeOK, drvVars
<1>6. LoadInv'
  BY <1>1, <1>2, <1>3 DEF LoadInv
<1> QED
  BY <1>2, <1>5, <1>6, DriverKept DEF Shape

(* The entry that the caller follows is the first of those to come.        *)
LEMMA Following ==
    ASSUME NEW lv, Shape(lv), load.pc = "walk", Len(load.stack) > 1
    PROVE  LET g == load.stack[Len(load.stack) - 1] IN
           /\ ParentLink \in g.i..(Width - 1) /\ ParentLink \in Idx /\ Takes(g, ParentLink)
           /\ ParentLink + 1 \in 0..Width
           /\ \A i \in g.i..(ParentLink - 1) : i \in Idx /\ i < ParentLink /\ ~Takes(g, i)
<1> DEFINE n == Len(load.stack) - 1
           g == load.stack[n]
           S == {i \in g.i..(Width - 1) : Takes(g, i)}
<1>1. /\ n \in DOMAIN load.stack /\ n < Len(load.stack) /\ FrameInv(n) /\ TypeOK
  <2>1. /\ Len(load.stack) \in Nat /\ DOMAIN load.stack = 1..Len(load.stack)
        /\ \A d \in DOMAIN load.stack : FrameInv(d)
    BY OnTop
  <2>2. n \in DOMAIN load.stack /\ n < Len(load.stack)
    BY <2>1
  <2> QED
    BY <2>1, <2>2 DEF Shape
<1> HIDE DEF n
<1>2. g.i \in 0..Width
  BY <1>1, LoadTyped
<1>3. S # {}
  <2>1. ASSUME NEW d, FrameInv(d), d < Len(load.stack)
        PROVE  \E i \in load.stack[d].i..(Width - 1) : Takes(load.stack[d], i)
    BY <2>1, Zenon DEF FrameInv
  <2>2. \E i \in g.i..(Width - 1) : Takes(g, i)
    BY <1>1, <2>1
  <2> QED
    BY <2>2
<1>4. ParentLink = Min(S)
  BY DEF ParentLink, Takes, n
<1> HIDE DEF g
<1>5. S \subseteq Nat
  BY <1>2, Constants
<1> HIDE DEF S
<1>6. ParentLink \in S /\ \A k \in S : ParentLink <= k
  BY <1>3, <1>4, <1>5, Smallest
<1>7. ParentLink \in g.i..(Width - 1) /\ Takes(g, ParentLink)
  BY <1>6 DEF S
<1>8. ParentLink \in Nat /\ ParentLink < Width /\ g.i \in Nat
  BY <1>2, <1>7, Constants
<1>9. ParentLink \in Idx /\ ParentLink + 1 \in 0..Width
  BY <1>8, Constants
<1>10. ASSUME NEW i \in g.i..(ParentLink - 1)
       PROVE  i \in Idx /\ i < ParentLink /\ ~Takes(g, i)
  <2>1. i \in Nat /\ i < ParentLink /\ i \in g.i..(Width - 1)
    BY <1>8, Constants
  <2>2. i \in Idx
    BY <1>8, <2>1, Constants
  <2>3. Takes(g, i) => ParentLink <= i
    BY <1>6, <2>1 DEF S
  <2> QED
    BY <1>8, <2>1, <2>2, <2>3
<1> QED
  BY <1>7, <1>9, <1>10 DEF g, n

(* What a return leaves on the stack.                                      *)
LEMMA ReturnedTo ==
    ASSUME NEW lv, Shape(lv), LoadReturn, Len(load.stack) > 1
    PROVE  LET n == Len(load.stack) - 1
               f == load.stack[Len(load.stack)]
               g == load.stack[n]
               z == load'.stack
               x == ParentLink
           IN
           /\ n \in Nat /\ n > 0 /\ Len(load.stack) = n + 1
           /\ n \in DOMAIN load.stack /\ n + 1 \in DOMAIN load.stack
           /\ \A d \in 1..n : d \in DOMAIN load.stack /\ d < n + 1
           /\ TypeOK' /\ load'.pc = "walk" /\ load'.offset = load.offset
           /\ Len(z) = n /\ DOMAIN z = 1..n /\ z # << >>
           /\ \A d \in 1..n : d # n => z[d] = load.stack[d]
           /\ z[n].table = g.table /\ z[n].at = g.at /\ z[n].level = g.level
           /\ z[n].i = x + 1
           /\ \A i \in Idx : z[n].buf[i] = IF i = x THEN Pte(f.table, "replayer") ELSE g.buf[i]
           /\ user' = [user EXCEPT ![g.table][x] = f.table]
           /\ UNCHANGED <<drvVars, dump, file>>
<1> DEFINE s == load.stack
           D == Len(load.stack)
           n == Len(load.stack) - 1
           f == load.stack[Len(load.stack)]
           g == load.stack[n]
           x == ParentLink
           up == Front(load.stack)
           e == Pte(f.table, "replayer")
           h == [g EXCEPT !.buf[x] = e, !.i = x + 1]
<1>1. /\ load.pc = "walk" /\ TypeOK /\ D \in Nat /\ DOMAIN s = 1..D /\ LoadTop = f
      /\ new' \in Seq([Idx -> Entry]) /\ Len(new') = Len(new) /\ f.table \in DOMAIN new
      /\ D \in DOMAIN s /\ (up = << >> <=> D = 1)
  BY Returned
<1>2. /\ s \in Seq(LoadFrame) /\ f.table \in Nat
      /\ Len(new) \in Nat /\ DOMAIN new = 1..Len(new)
      /\ user \in Seq([Idx -> Nat]) /\ Len(user) = Len(new) /\ DOMAIN user = DOMAIN new
      /\ \A k \in DOMAIN user : user[k] \in [Idx -> Nat]
  BY <1>1, LoadTyped
<1>3. /\ n \in Nat /\ n > 0 /\ D = n + 1 /\ n \in 1..D /\ n + 1 \in 1..D
      /\ \A d \in 1..n : d \in 1..D /\ d < n + 1
      /\ s # << >> /\ up # << >>
  BY <1>1, EmptySeq
<1>4. /\ up \in Seq(LoadFrame) /\ Len(up) = n /\ DOMAIN up = 1..n
      /\ \A d \in 1..n : up[d] = s[d]
  BY <1>2, <1>3, Popped
<1>5. /\ x \in Idx /\ x + 1 \in 0..Width
  BY <1>1, Following
<1>6. /\ g \in LoadFrame /\ g.table \in Nat /\ g.at \in Nat /\ g.level \in Levels
      /\ g.i \in 0..Width /\ g.buf \in [Idx -> Entry]
  BY <1>1, <1>3, LoadTyped
<1>7. e \in Entry
  BY <1>2, Entries
<1>8. Last(up) = g
  BY <1>3, <1>4 DEF Last
<1>9. /\ load' = [load EXCEPT !.stack = [up EXCEPT ![Len(up)].buf[x] = e,
                                                   ![Len(up)].i = x + 1]]
      /\ user' = [user EXCEPT ![g.table][x] = f.table]
      /\ UNCHANGED <<drvVars, dump, file>>
  BY <1>1, <1>3, <1>8 DEF LoadReturn
<1> HIDE DEF e, x, up, n, f, g
<1>10. /\ h = [table |-> g.table, at |-> g.at, level |-> g.level, i |-> x + 1,
               buf |-> [g.buf EXCEPT ![x] = e]]
  <2> DEFINE b == [g.buf EXCEPT ![x] = e]
  <2>1. g = [table |-> g.table, at |-> g.at, level |-> g.level, i |-> g.i, buf |-> g.buf]
    BY <1>6 DEF LoadFrame
  <2>2. [g EXCEPT !.buf[x] = e] = [g EXCEPT !.buf = b]
    OBVIOUS
  <2> HIDE DEF b
  <2>3. [g EXCEPT !.buf = b] =
           [table |-> g.table, at |-> g.at, level |-> g.level, i |-> g.i, buf |-> b]
    BY <1>6 DEF LoadFrame
  <2>4. h = [[g EXCEPT !.buf[x] = e] EXCEPT !.i = x + 1]
    BY <2>1
  <2>5. h = [table |-> g.table, at |-> g.at, level |-> g.level, i |-> x + 1, buf |-> b]
    <3> DEFINE r == [table |-> g.table, at |-> g.at, level |-> g.level, i |-> g.i, buf |-> b]
    <3>1. [r EXCEPT !.i = x + 1] =
             [table |-> g.table, at |-> g.at, level |-> g.level, i |-> x + 1, buf |-> b]
      OBVIOUS
    <3> HIDE DEF h, r
    <3>2. h = [r EXCEPT !.i = x + 1]
      BY <2>2, <2>3, <2>4 DEF r
    <3> QED
      BY <3>1, <3>2
  <2> QED
    BY <2>5 DEF b
<1> HIDE DEF h
<1>11. /\ h.table = g.table /\ h.at = g.at /\ h.level = g.level /\ h.i = x + 1
       /\ h.buf = [g.buf EXCEPT ![x] = e]
  BY <1>10
<1>12. /\ [g.buf EXCEPT ![x] = e] \in [Idx -> Entry]
       /\ \A i \in Idx : [g.buf EXCEPT ![x] = e][i] = IF i = x THEN e ELSE g.buf[i]
  BY <1>5, <1>6, <1>7
<1>13. h \in LoadFrame
  BY <1>5, <1>6, <1>10, <1>12 DEF LoadFrame
<1>14. up \in [1..n -> LoadFrame]
  BY <1>3, <1>4, LenProperties
<1>15. [up EXCEPT ![Len(up)].buf[x] = e, ![Len(up)].i = x + 1] =
          [d \in 1..n |-> IF d = n THEN h ELSE up[d]]
  <2>1. up[n] = g
    BY <1>3, <1>4 DEF g
  <2>2. Len(up) = n /\ n \in 1..n
    BY <1>3, <1>4
  <2> QED
    BY <1>14, <2>1, <2>2 DEF h
<1> DEFINE w == [d \in 1..n |-> IF d = n THEN h ELSE up[d]]
<1>16. w \in [1..n -> LoadFrame]
  BY <1>13, <1>14
<1>17. w \in Seq(LoadFrame) /\ Len(w) = n /\ DOMAIN w = 1..n
  BY <1>3, <1>16, SeqOfFunction
<1>18. w[n] = h /\ \A d \in 1..n : d # n => w[d] = s[d]
  BY <1>3, <1>4
<1> HIDE DEF w
<1>19. /\ load'.stack = w /\ load'.pc = "walk" /\ load'.offset = load.offset
       /\ load' \in [pc : {"no", "walk", "beyond", "regions", "done"},
                     stack : Seq(LoadFrame), offset : Nat]
  BY <1>1, <1>9, <1>15, <1>17 DEF TypeOK, w
<1>20. user' \in Seq([Idx -> Nat]) /\ Len(user') = Len(new')
  <2>1. user \in [1..Len(new) -> [Idx -> Nat]]
    BY <1>2, LenProperties
  <2>2. user' \in [1..Len(new) -> [Idx -> Nat]]
    <3>1. [user[g.table] EXCEPT ![x] = f.table] \in [Idx -> Nat] \/ g.table \notin 1..Len(new)
      BY <1>2, <1>5, <2>1
    <3> QED
      BY <1>9, <2>1, <3>1
  <2> QED
    BY <1>1, <1>2, <2>2, SeqOfFunction
<1>21. w # << >>
  BY <1>3, <1>17, EmptySeq
<1>22. TypeOK'
  <2>1. Len(load'.stack) <= Bottom + 1
    <3>1. Len(load.stack) <= Bottom + 1
      BY <1>1 DEF TypeOK
    <3>2. Len(load.stack) = n + 1
      BY <1>3 DEF D
    <3> QED
      BY <1>3, <1>17, <1>19, <3>1, <3>2, Constants
  <2> QED
    BY <1>1, <1>9, <1>19, <1>20, <2>1 DEF TypeOK, drvVars
<1>23. \A i \in Idx : h.buf[i] = IF i = x THEN e ELSE g.buf[i]
  BY <1>11, <1>12
<1> QED
  <2>1. /\ w[n].table = g.table /\ w[n].at = g.at /\ w[n].level = g.level
        /\ w[n].i = x + 1
        /\ \A i \in Idx : w[n].buf[i] = IF i = x THEN e ELSE g.buf[i]
    BY <1>11, <1>18, <1>23
  <2>2. /\ n \in Nat /\ n > 0 /\ Len(load.stack) = n + 1
        /\ n \in DOMAIN load.stack /\ n + 1 \in DOMAIN load.stack
        /\ \A d \in 1..n : d \in DOMAIN load.stack /\ d < n + 1
    BY <1>1, <1>3
  <2>3. user' = [user EXCEPT ![g.table][x] = f.table] /\ UNCHANGED <<drvVars, dump, file>>
    BY <1>9
  <2> QED
    BY <1>17, <1>18, <1>19, <1>21, <1>22, <2>1, <2>2, <2>3 DEF n, f, g, x, e

LEMMA CallerReturnStep ==
    ASSUME NEW lv, Shape(lv), LoadReturn, Len(load.stack) > 1
    PROVE  Shape(lv)'
<1> DEFINE s == load.stack
           n == Len(load.stack) - 1
           f == load.stack[Len(load.stack)]
           g == load.stack[n]
           x == ParentLink
           o == load.offset
           z == load'.stack
<1>1. /\ n \in Nat /\ n > 0 /\ Len(load.stack) = n + 1
      /\ n \in DOMAIN s
      /\ \A d \in 1..n : d \in DOMAIN s /\ d < n + 1
      /\ TypeOK' /\ load'.pc = "walk" /\ load'.offset = o
      /\ Len(z) = n /\ DOMAIN z = 1..n /\ z # << >>
      /\ \A d \in 1..n : d # n => z[d] = s[d]
      /\ z[n].table = g.table /\ z[n].at = g.at /\ z[n].level = g.level
      /\ z[n].i = x + 1
      /\ \A i \in Idx : i # x => z[n].buf[i] = g.buf[i]
      /\ UNCHANGED <<drvVars, dump, file>> /\ file' = file /\ dump' = dump
  BY ReturnedTo
<1>2. load.pc = "walk" /\ TypeOK /\ DOMAIN new' = DOMAIN new
  BY Returned
<1>3. x \in g.i..(Width - 1) /\ x \in Idx
  BY <1>1, <1>2, Following
<1>4. o \in DOMAIN file /\ dump.pc = "done" /\ \A d \in DOMAIN s : FrameInv(d)
  BY <1>2, OnTop
<1>5. g.i \in 0..Width
  BY <1>1, <1>2, LoadTyped
<1>6. z = load'.stack /\ s = load.stack /\ o = load.offset /\ g = s[n]
  OBVIOUS
<1> HIDE DEF s, n, f, g, x, o, z
<1>7. ASSUME NEW d \in 1..n
      PROVE  /\ s[d].level = d - 1 /\ s[d].at \in 1..o /\ s[d].table \in DOMAIN new
             /\ \A i \in s[d].i..(Width - 1) : s[d].buf[i] = file[s[d].at].entries[i]
             /\ d < n => \E i \in s[d].i..(Width - 1) : Takes(s[d], i)
             /\ \A e \in 1..n : d < e => s[d].table < s[e].table
  <2>1. FrameInv(d) /\ d < Len(load.stack)
    BY <1>1, <1>4
  <2>2. \A e \in 1..n : e \in DOMAIN s
    BY <1>1
  <2> QED
    BY <1>6, <2>1, <2>2 DEF FrameInv
<1>8. \A d \in 1..n : z[d].table = s[d].table /\ z[d].at = s[d].at /\ z[d].level = s[d].level
  BY <1>1, <1>6
<1>9. \A j \in (x + 1)..(Width - 1) : z[n].buf[j] = file[z[n].at].entries[j]
  <2>1. \A j \in (x + 1)..(Width - 1) : j \in g.i..(Width - 1) /\ j \in Idx /\ j # x
    BY <1>3, <1>5, Constants
  <2>2. n \in 1..n
    BY <1>1
  <2>3. \A j \in g.i..(Width - 1) : g.buf[j] = file[g.at].entries[j]
    BY <1>6, <1>7, <2>2
  <2> QED
    BY <1>1, <2>1, <2>3
<1>10. ASSUME NEW d \in 1..n
       PROVE  FrameInv(d)'
  <2>1. PICK h : h = z[d]
    OBVIOUS
  <2>2. /\ h.level = d - 1 /\ h.at \in 1..o /\ h.table \in DOMAIN new
        /\ \A e \in 1..n : d < e => h.table < z[e].table
    BY <1>7, <1>8, <2>1
  <2>3. \A i \in h.i..(Width - 1) : h.buf[i] = file[h.at].entries[i]
    <3>1. CASE d # n
      BY <1>1, <1>7, <2>1, <3>1
    <3>2. CASE d = n
      BY <1>1, <1>9, <2>1, <3>2
    <3> QED
      BY <3>1, <3>2
  <2>4. d < n => \E i \in h.i..(Width - 1) : Takes(h, i)'
    <3>1. d < n => h = s[d]
      BY <1>1, <2>1
    <3> QED
      BY <1>1, <1>7, <3>1 DEF Takes
  <2> QED
    <3>1. /\ load'.stack[d] = h /\ Len(load'.stack) = n /\ DOMAIN load'.stack = 1..n
          /\ load'.offset = o /\ file' = file /\ DOMAIN new' = DOMAIN new /\ load'.stack = z
      BY <1>1, <1>2, <1>6, <2>1
    <3> QED
      BY <2>2, <2>3, <2>4, <3>1 DEF FrameInv
<1>11. load'.stack[1].table = 1
  <2>1. load.stack[1].table = 1 /\ 1 \in 1..n
    BY <1>1, <1>2 DEF Shape, LoadInv
  <2> QED
    BY <1>6, <1>8, <2>1
<1>12. LoadInv'
  BY <1>1, <1>4, <1>6, <1>10, <1>11 DEF LoadInv
<1> QED
  BY <1>1, <1>12, DriverKept DEF Shape

LEMMA LoadRegionsStep ==
    ASSUME NEW lv, Shape(lv), LoadRegions
    PROVE  Shape(lv)'
<1> DEFINE P(k, i) == \E a \in recorded : UserTable(a, Bottom) = k /\ Index(a, Bottom) = i
           A(k, i) == CHOOSE a \in recorded : UserTable(a, Bottom) = k /\ Index(a, Bottom) = i
<1>1. /\ load.pc = "regions" /\ load' = [load EXCEPT !.pc = "done"]
      /\ new' = [k \in DOMAIN new |-> [i \in Idx |->
                   IF P(k, i) THEN Ate(A(k, i), "replayer") ELSE new[k][i]]]
      /\ UNCHANGED <<drvVars, dump, file, user>> /\ user' = user /\ dump' = dump
  BY DEF LoadRegions
<1>2. TypeOK /\ dump.pc = "done" /\ load.stack = << >>
  BY <1>1 DEF Shape, LoadInv
<1>3. /\ Len(new) \in Nat /\ DOMAIN new = 1..Len(new)
      /\ \A k \in DOMAIN new : \A i \in Idx : new[k][i] \in Entry
  BY <1>2, LoadTyped
<1>4. \A k, i : P(k, i) => A(k, i) \in Nat
  <2>1. \A k, i : P(k, i) => A(k, i) \in recorded
    OBVIOUS
  <2>2. recorded \subseteq Nat
    BY <1>2, Constants DEF TypeOK
  <2> QED
    BY <2>1, <2>2
<1> HIDE DEF P, A
<1>5. \A k \in DOMAIN new : \A i \in Idx : P(k, i) => Ate(A(k, i), "replayer") \in Entry
  BY <1>4, Entries
<1>6. new' \in Seq([Idx -> Entry]) /\ Len(new') = Len(new)
  <2>1. new' \in [1..Len(new) -> [Idx -> Entry]]
    BY <1>1, <1>3, <1>5
  <2> QED
    BY <1>3, <2>1, SeqOfFunction
<1>7. /\ load'.pc = "done" /\ load'.stack = load.stack
      /\ load' \in [pc : {"no", "walk", "beyond", "regions", "done"},
                    stack : Seq(LoadFrame), offset : Nat]
  BY <1>1, <1>2 DEF TypeOK
<1>8. TypeOK'
  BY <1>1, <1>2, <1>6, <1>7 DEF TypeOK, drvVars
<1>9. LoadInv'
  BY <1>1, <1>2, <1>7 DEF LoadInv
<1> QED
  BY <1>1, <1>8, <1>9, DriverKept DEF Shape


-----------------------------------------------------------------------------
(* The invariant.                                                          *)

LEMMA InvInit == Init => Inv
<1> SUFFICES ASSUME Init PROVE Inv
  OBVIOUS
<1> DEFINE lv == [k \in {1} |-> 0]
<1>1. /\ tables = <<Empty>> /\ inserts = 0 /\ ins = NoIns /\ recorded = {}
      /\ dump = [pc |-> "no", stack |-> << >>, cap |-> 0, count |-> 0]
      /\ raced = FALSE /\ file = << >>
      /\ load = [pc |-> "no", stack |-> << >>, offset |-> 0]
      /\ new = << >> /\ user = << >>
  BY DEF Init
<1>2. /\ tables \in Seq([Idx -> Entry]) /\ DOMAIN tables = {1} /\ tables[1] = Empty
      /\ \A i \in Idx : tables[1][i].type = "inval"
  BY <1>1, Entries
<1>3. ins \in InsType /\ ~ins.on
  BY <1>1, NotInserting
<1>4. /\ dump.pc = "no" /\ dump.stack = << >> /\ DOMAIN dump.stack = {} /\ dump.cap = 0
      /\ Len(dump.stack) = 0
      /\ dump \in DumpType
  BY <1>1 DEF DumpType
<1>5. /\ load.pc = "no" /\ load.stack = << >> /\ Len(load.stack) = 0
      /\ load \in [pc : {"no", "walk", "beyond", "regions", "done"}, stack : Seq(LoadFrame),
                   offset : Nat]
  BY <1>1
<1>6. file \in Seq(FileRec) /\ DOMAIN file = {} /\ Len(file) = 0
  BY <1>1
<1>7. new \in Seq([Idx -> Entry]) /\ user \in Seq([Idx -> Nat]) /\ Len(user) = Len(new)
  BY <1>1
<1>8. 0 <= Bottom + 1 /\ 0 \in 0..MaxInserts /\ 0 \in Levels
  BY Constants
<1>9. TypeOK
  BY <1>1, <1>2, <1>3, <1>4, <1>5, <1>6, <1>7, <1>8 DEF TypeOK, DumpType, InsType, FileRec
<1>10. lv \in [DOMAIN tables -> Levels] /\ lv[1] = 0 /\ 1 \in DOMAIN tables
  BY <1>2, <1>8
<1> HIDE DEF lv
<1>11. TreeInv(lv)
  BY <1>2, <1>3, <1>10 DEF TreeInv, Child
<1>12. WalkInv(lv)
  BY <1>1, <1>4 DEF WalkInv
<1>13. FileInv(lv) /\ StoreInv(lv)
  BY <1>1, <1>4, <1>6 DEF FileInv, StoreInv
<1>14. LoadInv
  BY <1>1, <1>5 DEF LoadInv
<1>15. InsInv /\ QuietInv
  BY <1>3, <1>4 DEF InsInv, QuietInv
<1> QED
  BY <1>9, <1>11, <1>12, <1>13, <1>14, <1>15 DEF Inv, Shape

(* A step that changes nothing.                                            *)
LEMMA StutterStep ==
    ASSUME NEW lv, Shape(lv), UNCHANGED vars
    PROVE  Shape(lv)'
<1>1. /\ UNCHANGED <<drvVars, dump, file>> /\ inserts' = inserts /\ ins' = ins /\ dump' = dump
      /\ tables' = tables /\ recorded' = recorded /\ raced' = raced /\ file' = file
      /\ load' = load /\ new' = new /\ user' = user
  BY DEF vars, drvVars
<1>2. TypeOK'
  BY <1>1 DEF Shape, TypeOK
<1>3. LoadInv'
  BY <1>1, SameLoad DEF Shape
<1> QED
  BY <1>1, <1>2, <1>3, DriverKept DEF Shape

LEMMA InvNext == Inv /\ [Next]_vars => Inv'
<1> SUFFICES ASSUME Inv, [Next]_vars PROVE Inv'
  OBVIOUS
<1>1. PICK lv : Shape(lv)
  BY DEF Inv
<1>2. Shape(lv)' => Inv'
  BY DEF Inv
<1>3. ASSUME NEW r \in Ranges, NEW cpu \in BOOLEAN, InsertBegin(r, cpu) PROVE Shape(lv)'
  BY <1>1, <1>3, InsertBeginStep
<1>4. ASSUME NEW a \in Addrs, CpuFault(a) \/ Teardown(a) PROVE Shape(lv)'
  BY <1>1, <1>4, CpuFaultStep, TeardownStep
<1>5. CASE InsertDown
  <2>1. CASE Here.type = "pte"
    BY <1>1, <1>2, <1>5, <2>1, InsertFollowsStep
  <2>2. CASE Here.type # "pte"
    BY <1>1, <1>5, <2>2, InsertLinksStep
  <2> QED
    BY <2>1, <2>2
<1>6. CASE InsertFails \/ InsertEntries
  BY <1>1, <1>2, <1>6, InsertFailsStep, InsertEntriesStep
<1>7. CASE DumpTable
  <2>1. CASE Full
    BY <1>1, <1>2, <1>7, <2>1, NoRoomStep
  <2>2. CASE ~Full
    BY <1>1, <1>2, <1>7, <2>2, StoredStep
  <2> QED
    BY <2>1, <2>2
<1>8. CASE DumpBegin \/ DumpEntry \/ DumpReturn \/ DumpEnd \/ DumpRegions
  BY <1>1, <1>2, <1>8, DumpBeginStep, DumpEntryStep, DumpReturnStep, DumpEndStep,
     DumpRegionsStep
<1>9. CASE LoadBegin \/ LoadRegions
  BY <1>1, <1>2, <1>9, LoadBeginStep, LoadRegionsStep
<1>10. CASE LoadChild
  <2>1. CASE load.offset < Len(file)
    BY <1>1, <1>2, <1>10, <2>1, LoadChildStep
  <2>2. CASE ~(load.offset < Len(file))
    BY <1>1, <1>2, <1>10, <2>2, BeyondStep
  <2> QED
    BY <2>1, <2>2
<1>11. CASE LoadReturn
  <2>1. Len(load.stack) \in Nat /\ Len(load.stack) > 0
    BY <1>1, <1>11, OnTop DEF LoadReturn
  <2>2. CASE Len(load.stack) = 1
    BY <1>1, <1>2, <1>11, <2>2, LastReturnStep
  <2>3. CASE Len(load.stack) > 1
    BY <1>1, <1>2, <1>11, <2>3, CallerReturnStep
  <2>4. Len(load.stack) = 1 \/ Len(load.stack) > 1
    <3>1. \A n \in Nat : n > 0 => n = 1 \/ n > 1
      OBVIOUS
    <3> QED
      BY <2>1, <3>1
  <2> QED
    BY <2>2, <2>3, <2>4
<1>12. CASE UNCHANGED vars
  BY <1>1, <1>2, <1>12, StutterStep
<1> QED
  BY <1>2, <1>3, <1>4, <1>5, <1>6, <1>7, <1>8, <1>9, <1>10, <1>11, <1>12 DEF Next, Over

-----------------------------------------------------------------------------
(* The types, which for the stacks of the dump and of gr_construct_pgt     *)
(* says that neither recursion goes below the bottom level, even where the *)
(* replayer takes the entries of a table of that level for links because   *)
(* it has met the table a level too high.                                  *)
THEOREM TypeCorrect == Spec => []TypeOK
<1>1. Inv => TypeOK
  BY DEF Inv, Shape
<1> QED
  BY <1>1, InvInit, InvNext, PTL DEF Spec

(* After a dump that nothing has disturbed, every table has been stored:   *)
(* the least one that has not would be linked by one that has.             *)
LEMMA AllStored ==
    ASSUME NEW lv, Shape(lv), dump.pc = "done", ~raced
    PROVE  \A k \in DOMAIN tables : Stored(k)
<1>1. /\ dump.stack = << >> /\ DOMAIN dump.stack = {} /\ 1 \in DOMAIN file /\ file[1].page = 1
  BY Dumped DEF Shape, WalkInv
<1>2. /\ dump.cap = Len(tables)
      /\ \A n \in DOMAIN file : file[n].entries = tables[file[n].page]
  BY DEF Shape, QuietInv
<1>3. CASE Full
  <2>1. Len(file) <= Len(tables) /\ (Len(file) = Len(tables) => \A k \in DOMAIN tables : Stored(k))
    BY Counted
  <2>2. Len(file) \in Nat /\ Len(tables) \in Nat /\ Len(file) >= Len(tables)
    BY <1>2, <1>3, FileTyped, TablesTyped DEF Full, Shape
  <2> QED
    BY <2>1, <2>2
<1>4. CASE ~Full
  <2> SUFFICES ASSUME {k \in DOMAIN tables : ~Stored(k)} # {} PROVE FALSE
    OBVIOUS
  <2> DEFINE S == {k \in DOMAIN tables : ~Stored(k)}
             c == Min(S)
  <2>1. S \subseteq Nat /\ DOMAIN tables \subseteq Nat
    BY TablesTyped DEF Shape
  <2>2. c \in S /\ \A k \in S : c <= k
    BY <2>1, Smallest
  <2>3. c \in DOMAIN tables /\ ~Stored(c) /\ c # 1
    BY <1>1, <2>2 DEF Stored
  <2> HIDE DEF c, S
  <2>4. PICK k \in DOMAIN tables, i \in Idx : Child(k, i, c)
    BY <2>3 DEF Shape, TreeInv
  <2>5. k < c
    BY <2>3, <2>4 DEF Shape, TreeInv
  <2>6. Stored(k)
    <3>1. k \in Nat /\ c \in Nat
      BY <2>1, <2>3
    <3> QED
      BY <2>2, <2>5, <3>1 DEF S
  <2>7. PICK n \in DOMAIN file : file[n].page = k
    BY <2>6 DEF Stored
  <2>8. file[n].entries[i].type = "pte" /\ file[n].entries[i].page = c
    BY <1>2, <2>4, <2>7 DEF Child
  <2>9. Past(file[n].page, i) /\ ~Pending(c)
    BY <1>1 DEF Past, Pending
  <2>10. Stored(c) \/ Pending(c) \/ Full
    BY <2>8, <2>9 DEF Shape, StoreInv
  <2> QED
    BY <1>4, <2>3, <2>9, <2>10
<1> QED
  BY <1>3, <1>4

(* gr_mmu_dump finds as many tables as the driver's count of table pages   *)
(* has sized the buffer for, and stores each of them as it is.             *)
THEOREM WholeDump == Spec => []DumpWhole
<1>1. ASSUME NEW lv, Shape(lv) PROVE DumpWhole
  <2> SUFFICES ASSUME dump.pc = "done", ~raced
               PROVE  /\ dump.count = dump.cap /\ Len(file) = dump.cap
                      /\ \A k \in DOMAIN tables : \E n \in DOMAIN file :
                            file[n] = [page |-> k, entries |-> tables[k]]
    BY DEF DumpWhole
  <2>1. \A k \in DOMAIN tables : Stored(k)
    BY <1>1, AllStored
  <2>2. Len(file) = Len(tables)
    BY <1>1, <2>1, Counted
  <2>3. /\ dump.cap = Len(tables) /\ dump.count = Len(file)
        /\ \A n \in DOMAIN file : file[n].entries = tables[file[n].page]
    BY <1>1 DEF Shape, QuietInv
  <2>4. ASSUME NEW k \in DOMAIN tables
        PROVE  \E n \in DOMAIN file : file[n] = [page |-> k, entries |-> tables[k]]
    <3>1. PICK n \in DOMAIN file : file[n].page = k
      BY <2>1 DEF Stored
    <3>2. file[n].entries = tables[k] /\ file[n] \in FileRec
      BY <1>1, <2>3, <3>1, FileTyped DEF Shape
    <3>3. file[n] = [page |-> k, entries |-> tables[k]]
      BY <3>1, <3>2 DEF FileRec
    <3> QED
      BY <3>3
  <2> QED
    BY <2>2, <2>3, <2>4
<1>2. Inv => DumpWhole
  BY <1>1 DEF Inv
<1> QED
  BY <1>2, InvInit, InvNext, PTL DEF Spec

-----------------------------------------------------------------------------
(* The walks through the tables.                                           *)

Recurs(f, x, n, T) == f[0] = x /\ \A l \in 1..n : f[l] = T[<<f[l - 1], l - 1>>]

(* There is a function with a given value at 0 and at each step.           *)
LEMMA Recursion ==
    ASSUME NEW X, NEW x \in X, NEW N \in Nat, NEW T \in [X \X Nat -> X]
    PROVE  \E f \in [0..N -> X] : Recurs(f, x, N, T)
<1> USE DEF Recurs
<1> DEFINE Good(n, f) == Recurs(f, x, n, T)
           S == {n \in Nat : \E f \in [0..n -> X] : Good(n, f)}
<1>1. 0 \in S
  <2> DEFINE f == [l \in 0..0 |-> x]
  <2>1. f \in [0..0 -> X] /\ f[0] = x /\ 1..0 = {}
    OBVIOUS
  <2> QED
    BY <2>1
<1>2. ASSUME NEW n \in 0..(N - 1), n \in S
      PROVE  n + 1 \in S
  <2>1. PICK f \in [0..n -> X] : Good(n, f)
    BY <1>2
  <2> DEFINE g == [l \in 0..(n + 1) |-> IF l = n + 1 THEN T[<<f[n], n>>] ELSE f[l]]
  <2>2. n \in Nat /\ n \in 0..n /\ f[n] \in X /\ T[<<f[n], n>>] \in X
    OBVIOUS
  <2>3. \A l \in 0..(n + 1) : l # n + 1 => l \in 0..n
    BY <2>2
  <2>4. g \in [0..(n + 1) -> X]
    BY <2>2, <2>3
  <2>5. g[n + 1] = T[<<f[n], n>>] /\ \A l \in 0..n : g[l] = f[l]
    BY <2>2
  <2>6. g[0] = x
    BY <2>1, <2>2, <2>5
  <2> HIDE DEF g
  <2>7. ASSUME NEW l \in 1..(n + 1) PROVE g[l] = T[<<g[l - 1], l - 1>>]
    <3>1. l - 1 \in 0..n /\ g[l - 1] = f[l - 1]
      BY <2>2, <2>5
    <3>2. CASE l = n + 1
      <4>1. l - 1 = n
        BY <2>2, <3>2
      <4> QED
        BY <2>5, <3>1, <3>2, <4>1
    <3>3. CASE l # n + 1
      <4>1. l \in 1..n /\ l \in 0..n
        BY <2>2, <3>3
      <4> QED
        BY <2>1, <2>5, <3>1, <4>1
    <3> QED
      BY <3>2, <3>3
  <2>8. n + 1 \in Nat /\ Good(n + 1, g)
    BY <2>2, <2>6, <2>7
  <2> QED
    BY <2>4, <2>8
<1>3. N \in S
  <2> HIDE DEF S
  <2>1. \A n \in 0..N : n \in S
    BY <1>1, <1>2, Upwards
  <2> QED
    BY <2>1
<1> QED
  BY <1>3

(* The tables on the way to an address, where the links stay in a set.     *)
LEMMA Walk ==
    ASSUME NEW tabs, NEW X, 1 \in X, NoTable \in X, NEW a \in Addrs,
           \A k \in X \ {NoTable} : \A i \in Idx :
              tabs[k][i].type = "pte" => tabs[k][i].page \in X
    PROVE  /\ TableAt(tabs, a, 0) = 1
           /\ \A l \in Levels : TableAt(tabs, a, l) \in X
           /\ \A l \in 1..Bottom : TableAt(tabs, a, l) =
                LET k == TableAt(tabs, a, l - 1) IN
                IF k = NoTable \/ tabs[k][Index(a, l - 1)].type # "pte" THEN NoTable
                ELSE tabs[k][Index(a, l - 1)].page
<1> DEFINE E(f) == [l \in Levels |->
                      IF l = 0 THEN 1
                      ELSE LET k == f[l - 1] IN
                           IF k = NoTable \/ tabs[k][Index(a, l - 1)].type # "pte" THEN NoTable
                           ELSE tabs[k][Index(a, l - 1)].page]
           At == CHOOSE f : f = E(f)
           T == [z \in X \X Nat |->
                   IF z[1] = NoTable \/ z[2] \notin Levels
                   THEN NoTable
                   ELSE IF tabs[z[1]][Index(a, z[2])].type # "pte" THEN NoTable
                   ELSE tabs[z[1]][Index(a, z[2])].page]
<1>1. \A l \in Levels : TableAt(tabs, a, l) = At[l]
  BY DEF TableAt
<1>2. T \in [X \X Nat -> X]
  <2>1. ASSUME NEW z \in X \X Nat PROVE T[z] \in X
    <3>1. z[1] \in X
      OBVIOUS
    <3>2. CASE z[1] = NoTable \/ z[2] \notin Levels
      BY <3>2
    <3>3. CASE z[1] # NoTable /\ z[2] \in Levels
      BY <3>1, <3>3, IndexInRange
    <3> QED
      BY <3>2, <3>3
  <2> QED
    BY <2>1
<1>3. PICK f \in [0..Bottom -> X] :
         f[0] = 1 /\ \A l \in 1..Bottom : f[l] = T[<<f[l - 1], l - 1>>]
  <2> HIDE DEF T
  <2>1. Bottom \in Nat /\ 1 \in X
    BY Constants
  <2>2. \E f \in [0..Bottom -> X] : Recurs(f, 1, Bottom, T)
    BY <1>2, <2>1, Recursion
  <2> QED
    BY <2>2 DEF Recurs
<1>4. f = E(f)
  <2>1. ASSUME NEW l \in 0..Bottom PROVE f[l] = E(f)[l]
    <3>1. CASE l = 0
      BY <1>3, <3>1, Constants
    <3>2. CASE l # 0
      <4>1. l \in 1..Bottom /\ l - 1 \in Levels /\ l - 1 \in Nat /\ f[l - 1] \in X
        BY <3>2, Constants
      <4>2. f[l] = T[<<f[l - 1], l - 1>>] /\ <<f[l - 1], l - 1>> \in X \X Nat
        BY <1>3, <4>1
      <4> QED
        BY <3>2, <4>1, <4>2, Constants
    <3> QED
      BY <3>1, <3>2
  <2>2. /\ E(f) = [l \in 0..Bottom |-> E(f)[l]]
        /\ f = [l \in 0..Bottom |-> f[l]]
    BY Constants
  <2> HIDE DEF E
  <2> QED
    BY <2>1, <2>2, Zenon
<1>5. At = E(At)
  <2> HIDE DEF E
  <2> QED
    BY <1>4
<1>6. \A l \in Levels : At[l] =
         IF l = 0 THEN 1
         ELSE LET k == At[l - 1] IN
              IF k = NoTable \/ tabs[k][Index(a, l - 1)].type # "pte" THEN NoTable
              ELSE tabs[k][Index(a, l - 1)].page
  <2>1. \A g : \A l \in Levels : E(g)[l] =
         IF l = 0 THEN 1
         ELSE LET k == g[l - 1] IN
              IF k = NoTable \/ tabs[k][Index(a, l - 1)].type # "pte" THEN NoTable
              ELSE tabs[k][Index(a, l - 1)].page
    OBVIOUS
  <2> HIDE DEF E, At
  <2> QED
    BY <1>5, <2>1, Zenon
<1> HIDE DEF At
<1>7. 0 \in Levels /\ \A l \in 1..Bottom : l \in Levels /\ l # 0 /\ l - 1 \in Levels
  BY Constants
<1>8. \A l \in Levels : At[l] \in X
  <2> DEFINE S == {l \in Levels : At[l] \in X}
  <2>1. 0 \in S
    BY <1>6, <1>7
  <2>2. ASSUME NEW n \in 0..(Bottom - 1), n \in S PROVE n + 1 \in S
    <3>1. n + 1 \in Levels /\ n + 1 # 0 /\ n + 1 - 1 = n /\ n \in Levels /\ At[n] \in X
      BY <2>2, Constants
    <3>2. Index(a, n) \in Idx
      BY <3>1, IndexInRange
    <3> QED
      BY <1>6, <3>1, <3>2
  <2>3. Bottom \in Nat
    BY Constants
  <2> HIDE DEF S
  <2>4. \A n \in 0..Bottom : n \in S
    BY <2>1, <2>2, <2>3, Upwards
  <2> QED
    BY <2>4, Constants DEF S
<1> QED
  BY <1>1, <1>6, <1>7, <1>8

(* The same for the tables of pointers.                                    *)
LEMMA UserWalk ==
    ASSUME NEW X, 1 \in X, NoTable \in X, NEW a \in Addrs,
           \A k \in X \ {NoTable} : \A i \in Idx : user[k][i] \in X
    PROVE  /\ UserTable(a, 0) = 1
           /\ \A l \in Levels : UserTable(a, l) \in X
           /\ \A l \in 1..Bottom : UserTable(a, l) =
                LET k == UserTable(a, l - 1) IN
                IF k = NoTable THEN NoTable ELSE user[k][Index(a, l - 1)]
<1> DEFINE E(f) == [l \in Levels |->
                      IF l = 0 THEN 1
                      ELSE IF f[l - 1] = NoTable THEN NoTable
                           ELSE user[f[l - 1]][Index(a, l - 1)]]
           At == CHOOSE f : f = E(f)
           T == [z \in X \X Nat |->
                   IF z[1] = NoTable \/ z[2] \notin Levels
                   THEN NoTable
                   ELSE user[z[1]][Index(a, z[2])]]
<1>1. \A l \in Levels : UserTable(a, l) = At[l]
  BY DEF UserTable
<1>2. T \in [X \X Nat -> X]
  <2>1. ASSUME NEW z \in X \X Nat PROVE T[z] \in X
    <3>1. z[1] \in X
      OBVIOUS
    <3>2. CASE z[1] = NoTable \/ z[2] \notin Levels
      BY <3>2
    <3>3. CASE z[1] # NoTable /\ z[2] \in Levels
      BY <3>1, <3>3, IndexInRange
    <3> QED
      BY <3>2, <3>3
  <2> QED
    BY <2>1
<1>3. PICK f \in [0..Bottom -> X] :
         f[0] = 1 /\ \A l \in 1..Bottom : f[l] = T[<<f[l - 1], l - 1>>]
  <2> HIDE DEF T
  <2>1. Bottom \in Nat /\ 1 \in X
    BY Constants
  <2>2. \E f \in [0..Bottom -> X] : Recurs(f, 1, Bottom, T)
    BY <1>2, <2>1, Recursion
  <2> QED
    BY <2>2 DEF Recurs
<1>4. f = E(f)
  <2>1. ASSUME NEW l \in 0..Bottom PROVE f[l] = E(f)[l]
    <3>1. CASE l = 0
      BY <1>3, <3>1, Constants
    <3>2. CASE l # 0
      <4>1. l \in 1..Bottom /\ l - 1 \in Levels /\ l - 1 \in Nat /\ f[l - 1] \in X
        BY <3>2, Constants
      <4>2. f[l] = T[<<f[l - 1], l - 1>>] /\ <<f[l - 1], l - 1>> \in X \X Nat
        BY <1>3, <4>1
      <4> QED
        BY <3>2, <4>1, <4>2, Constants
    <3> QED
      BY <3>1, <3>2
  <2>2. /\ E(f) = [l \in 0..Bottom |-> E(f)[l]]
        /\ f = [l \in 0..Bottom |-> f[l]]
    BY Constants
  <2> HIDE DEF E
  <2> QED
    BY <2>1, <2>2, Zenon
<1>5. At = E(At)
  <2> HIDE DEF E
  <2> QED
    BY <1>4
<1>6. \A l \in Levels : At[l] =
         IF l = 0 THEN 1
         ELSE IF At[l - 1] = NoTable THEN NoTable
                           ELSE user[At[l - 1]][Index(a, l - 1)]
  <2>1. \A g : \A l \in Levels : E(g)[l] =
         IF l = 0 THEN 1
         ELSE IF g[l - 1] = NoTable THEN NoTable
                           ELSE user[g[l - 1]][Index(a, l - 1)]
    OBVIOUS
  <2> HIDE DEF E, At
  <2> QED
    BY <1>5, <2>1, Zenon
<1> HIDE DEF At
<1>7. 0 \in Levels /\ \A l \in 1..Bottom : l \in Levels /\ l # 0 /\ l - 1 \in Levels
  BY Constants
<1>8. \A l \in Levels : At[l] \in X
  <2> DEFINE S == {l \in Levels : At[l] \in X}
  <2>1. 0 \in S
    BY <1>6, <1>7
  <2>2. ASSUME NEW n \in 0..(Bottom - 1), n \in S PROVE n + 1 \in S
    <3>1. n + 1 \in Levels /\ n + 1 # 0 /\ n + 1 - 1 = n /\ n \in Levels /\ At[n] \in X
      BY <2>2, Constants
    <3>2. Index(a, n) \in Idx
      BY <3>1, IndexInRange
    <3> QED
      BY <1>6, <3>1, <3>2
  <2>3. Bottom \in Nat
    BY Constants
  <2> HIDE DEF S
  <2>4. \A n \in 0..Bottom : n \in S
    BY <2>1, <2>2, <2>3, Upwards
  <2> QED
    BY <2>4, Constants DEF S
<1> QED
  BY <1>1, <1>6, <1>7, <1>8

-----------------------------------------------------------------------------
(* Addresses as digits of base Width.                                      *)

LEMMA Product == \A c, d \in Nat \ {0} : c * d \in Nat \ {0}
  BY SMT

LEMMA Quotient ==
    ASSUME NEW a \in Nat, NEW c \in Nat \ {0}
    PROVE  /\ a \div c \in Nat /\ a % c \in 0..(c - 1)
           /\ a = c * (a \div c) + (a % c)
<1>1. a \div c \in Int /\ a % c \in 0..(c - 1) /\ a = c * (a \div c) + (a % c)
  OBVIOUS
<1>2. a \div c >= 0
  BY <1>1
<1> QED
  BY <1>1, <1>2

(* Quotient and remainder are unique.                                      *)
LEMMA Unique ==
    ASSUME NEW q \in Nat, NEW p \in Nat, NEW c \in Nat \ {0},
           NEW r \in 0..(c - 1), NEW s \in 0..(c - 1), c * q + r = c * p + s
    PROVE  q = p /\ r = s
<1>1. ASSUME NEW u \in Nat, NEW v \in Nat, u < v PROVE c * u + c <= c * v
  <2>1. PICK d \in Nat : v = u + 1 + d
    <3>1. v - (u + 1) \in Nat /\ v = u + 1 + (v - (u + 1))
      BY <1>1
    <3> QED
      BY <3>1, Zenon
  <2>2. c * d \in Nat /\ c * u \in Nat
    BY SMT
  <2>3. c * v = c * u + c + c * d
    BY <2>1, SMT
  <2> QED
    BY <2>2, <2>3
<1>2. c * q \in Nat /\ c * p \in Nat
  BY SMT
<1>3. CASE q < p
  BY <1>1, <1>2, <1>3
<1>4. CASE p < q
  BY <1>1, <1>2, <1>4
<1>5. CASE q = p
  BY <1>2, <1>5
<1> QED
  BY <1>3, <1>4, <1>5

(* Division by a product.                                                  *)
LEMMA DivideTwice ==
    ASSUME NEW a \in Nat, NEW c \in Nat \ {0}, NEW d \in Nat \ {0}
    PROVE  a \div (c * d) = (a \div d) \div c
<1> DEFINE q == a \div d  r == a % d  s == q \div c  t == q % c
<1>1. q \in Nat /\ r \in 0..(d - 1) /\ a = d * q + r
  BY Quotient
<1>2. s \in Nat /\ t \in 0..(c - 1) /\ q = c * s + t
  BY <1>1, Quotient
<1>3. c * d \in Nat \ {0}
  BY Product
<1>4. a \div (c * d) \in Nat /\ a % (c * d) \in 0..(c * d - 1)
      /\ a = c * d * (a \div (c * d)) + (a % (c * d))
  BY <1>3, Quotient
<1> HIDE DEF q, r, s, t
<1>5. d * t + r \in 0..(c * d - 1)
  <2>1. PICK e \in Nat : c = t + 1 + e
    <3>1. c - (t + 1) \in Nat /\ c = t + 1 + (c - (t + 1))
      BY <1>2
    <3> QED
      BY <3>1, Zenon
  <2>2. d * t \in Nat /\ d * e \in Nat /\ t \in Nat /\ r \in Nat /\ r < d
    BY <1>1, <1>2, SMT
  <2>3. c * d = d * t + d + d * e
    BY <2>1, <2>2, SMT
  <2> QED
    BY <2>2, <2>3
<1>6. a = c * d * s + (d * t + r)
  <2>1. d * (c * s + t) = c * d * s + d * t
    BY <1>2, SMT
  <2>2. c * s \in Nat /\ c * d * s \in Nat /\ d * t \in Nat
    BY <1>2, <1>3, SMT
  <2> QED
    BY <1>1, <1>2, <2>1, <2>2
<1> DEFINE p == c * d
<1>7. /\ p \in Nat \ {0} /\ a \div p \in Nat /\ a % p \in 0..(p - 1) /\ d * t + r \in 0..(p - 1)
      /\ p * (a \div p) + (a % p) = p * s + (d * t + r)
  BY <1>3, <1>4, <1>5, <1>6
<1> HIDE DEF p
<1>8. a \div p = s
  BY <1>2, <1>7, Unique
<1> QED
  BY <1>8 DEF p, s, q

(* The digits of an address down to a level.                               *)
Upper(a, l) == a \div Width ^ (Bottom - l)

LEMMA Digits ==
    ASSUME NEW a \in Addrs
    PROVE  /\ \A l \in Levels : Upper(a, l) \in Nat /\ Index(a, l) \in 0..(Width - 1)
           /\ Upper(a, Bottom) = a
           /\ Upper(a, 0) = Index(a, 0)
           /\ \A l \in 1..Bottom : Upper(a, l) = Width * Upper(a, l - 1) + Index(a, l)
<1>1. a \in Nat /\ a < Space /\ Width \in Nat \ {0} /\ Bottom \in Nat /\ Levels = 0..Bottom
  BY Constants
<1>2. \A l \in Levels : Bottom - l \in 0..(Bottom + 1) /\ Width ^ (Bottom - l) \in Nat \ {0}
  BY <1>1, Powers
<1>3. \A l \in Levels : Upper(a, l) \in Nat
  BY <1>1, <1>2, Quotient DEF Upper
<1>4. \A l \in Levels : Index(a, l) \in 0..(Width - 1)
  BY IndexInRange, Constants
<1>5. Upper(a, Bottom) = a
  <2>1. Bottom - Bottom = 0 /\ Width ^ 0 = 1
    BY <1>1, PowersAssumption
  <2>2. \A x \in Nat : x \div 1 = x
    BY SMT
  <2> QED
    BY <1>1, <2>1, <2>2 DEF Upper
<1>6. \A l \in Levels : Index(a, l) = Upper(a, l) % Width
  BY DEF Upper, Index
<1>7. Upper(a, 0) = Index(a, 0)
  <2> DEFINE p == Width ^ (Bottom - 0)
             q == a \div p
  <2>1. 0 \in Levels /\ p \in Nat \ {0}
    BY <1>1, <1>2
  <2>2. q \in Nat /\ a % p \in 0..(p - 1) /\ a = p * q + (a % p)
    BY <1>1, <2>1, Quotient
  <2>3. Space = Width * p
    <3>1. Bottom \in 0..Bottom /\ Bottom - 0 = Bottom
      BY <1>1
    <3> QED
      BY <3>1, PowersAssumption DEF Space
  <2>4. Upper(a, 0) = q /\ Index(a, 0) = q % Width
    BY DEF Upper, Index
  <2> HIDE DEF q, p
  <2>5. q < Width
    <3> SUFFICES ASSUME ~(q < Width) PROVE FALSE
      OBVIOUS
    <3>1. PICK e \in Nat : q = Width + e
      <4>1. q - Width \in Nat /\ q = Width + (q - Width)
        BY <1>1, <2>2
      <4> QED
        BY <4>1, Zenon
    <3>2. p * q = Width * p + p * e /\ p * e \in Nat /\ Width * p \in Nat
      BY <1>1, <2>1, <3>1, SMT
    <3> DEFINE u == Width * p  v == p * q  w == p * e
    <3>3. u \in Nat /\ w \in Nat /\ v = u + w /\ a = v + (a % p) /\ a < u /\ a % p \in Nat
      <4>1. a % p \in Nat
        BY <2>1, <2>2
      <4> QED
        BY <1>1, <2>2, <2>3, <3>2, <4>1
    <3> HIDE DEF u, v, w
    <3> QED
      BY <3>3
  <2>6. q % Width = q
    <3>1. /\ q \div Width \in Nat /\ q % Width \in 0..(Width - 1)
          /\ q = Width * (q \div Width) + (q % Width)
      BY <1>1, <2>2, Quotient
    <3>2. Width * 0 + q = Width * (q \div Width) + (q % Width) /\ q \in 0..(Width - 1) /\ 0 \in Nat
      BY <1>1, <2>2, <2>5, <3>1
    <3> QED
      BY <1>1, <3>1, <3>2, Unique
  <2> QED
    BY <2>4, <2>6
<1>8. ASSUME NEW l \in 1..Bottom
      PROVE  Upper(a, l) = Width * Upper(a, l - 1) + Index(a, l)
  <2>1. /\ l \in Levels /\ l - 1 \in Levels /\ Bottom - l \in 0..Bottom
        /\ Bottom - l + 1 = Bottom - (l - 1)
    BY <1>1
  <2>2. Width ^ (Bottom - (l - 1)) = Width * Width ^ (Bottom - l)
    BY <2>1, PowersAssumption
  <2>3. Upper(a, l - 1) = Upper(a, l) \div Width
    <3> DEFINE p == Width ^ (Bottom - l)
    <3>1. p \in Nat \ {0} /\ Width ^ (Bottom - (l - 1)) = Width * p
      BY <1>2, <2>1, <2>2
    <3> HIDE DEF p
    <3>2. a \div (Width * p) = (a \div p) \div Width
      BY <1>1, <3>1, DivideTwice
    <3> QED
      BY <3>1, <3>2 DEF Upper, p
  <2> DEFINE u == Upper(a, l)
  <2>4. u \in Nat /\ Index(a, l) = u % Width
    BY <1>3, <1>6, <2>1
  <2> HIDE DEF u
  <2>5. u = Width * (u \div Width) + (u % Width)
    BY <1>1, <2>4, Quotient
  <2> QED
    BY <2>3, <2>4, <2>5 DEF u
<1> QED
  BY <1>3, <1>4, <1>5, <1>7, <1>8

(* Addresses with the same digits are the same.                            *)
LEMMA SameDigits ==
    ASSUME NEW a \in Addrs, NEW b \in Addrs, \A l \in Levels : Index(a, l) = Index(b, l)
    PROVE  a = b
<1> DEFINE S == {l \in Levels : Upper(a, l) = Upper(b, l)}
<1>1. Bottom \in Nat /\ Levels = 0..Bottom
  BY Constants
<1>2. 0 \in S
  BY <1>1, Digits
<1>3. ASSUME NEW n \in 0..(Bottom - 1), n \in S PROVE n + 1 \in S
  <2>1. n + 1 \in 1..Bottom /\ n + 1 \in Levels /\ n + 1 - 1 = n
    BY <1>1
  <2>2. Upper(a, n + 1) = Width * Upper(a, n) + Index(a, n + 1)
    BY <2>1, Digits
  <2>3. Upper(b, n + 1) = Width * Upper(b, n) + Index(b, n + 1)
    BY <2>1, Digits
  <2> QED
    BY <1>3, <2>1, <2>2, <2>3
<1> HIDE DEF S
<1>4. \A n \in 0..Bottom : n \in S
  BY <1>1, <1>2, <1>3, Upwards
<1>5. Upper(a, Bottom) = Upper(b, Bottom)
  BY <1>1, <1>4 DEF S
<1> QED
  BY <1>5, Digits

(* Addresses in one table of the bottom level: all digits but the last are *)
(* the same.                                                               *)
LEMMA SameTable ==
    ASSUME NEW a \in Addrs, NEW b \in Addrs, NEW j \in Nat, b = a + j,
           Index(a, Bottom) + j < Width
    PROVE  \A l \in 0..(Bottom - 1) : Index(a, l) = Index(b, l)
<1>1. Bottom \in Nat /\ Levels = 0..Bottom /\ Width \in Nat \ {0}
  BY Constants
<1>2. CASE Bottom = 0
  BY <1>2
<1>3. CASE Bottom # 0
  <2> DEFINE m == Bottom - 1
             S == {n \in 0..m : Upper(a, m - n) = Upper(b, m - n)}
  <2>1. m \in Nat /\ m \in Levels /\ Bottom \in Levels /\ Bottom \in 1..Bottom /\ Bottom - 1 = m
    BY <1>1, <1>3
  <2> HIDE DEF m
  <2>2. 0 \in S
    <3>1. /\ Upper(a, m) \in Nat /\ Upper(b, m) \in Nat /\ Index(a, Bottom) \in 0..(Width - 1)
          /\ Index(b, Bottom) \in 0..(Width - 1)
          /\ a = Width * Upper(a, m) + Index(a, Bottom)
          /\ b = Width * Upper(b, m) + Index(b, Bottom)
      <4>1. \A c \in Addrs : /\ Upper(c, m) \in Nat /\ Index(c, Bottom) \in 0..(Width - 1)
                             /\ Upper(c, Bottom) = c
                             /\ Upper(c, Bottom) = Width * Upper(c, m) + Index(c, Bottom)
        BY <2>1, Digits
      <4> QED
        BY <4>1
    <3>2. /\ Index(a, Bottom) + j \in 0..(Width - 1)
          /\ Width * Upper(a, m) + (Index(a, Bottom) + j) = Width * Upper(b, m) + Index(b, Bottom)
      <4> DEFINE u == Width * Upper(a, m)  v == Width * Upper(b, m)  x == Index(a, Bottom)
                 y == Index(b, Bottom)
      <4>1. u \in Nat
        BY <1>1, <3>1, SMT
      <4>2. a = u + x /\ b = v + y /\ x \in Nat /\ x + j < Width
        BY <1>1, <3>1
      <4> HIDE DEF u, v, x, y
      <4>3. x + j \in 0..(Width - 1) /\ u + (x + j) = v + y
        BY <1>1, <4>1, <4>2
      <4> QED
        BY <4>3 DEF u, v, x, y
    <3>3. Upper(a, m) = Upper(b, m)
      <4> DEFINE u == Upper(a, m)  v == Upper(b, m)  x == Index(a, Bottom) + j
                 y == Index(b, Bottom)
      <4>1. /\ u \in Nat /\ v \in Nat /\ x \in 0..(Width - 1) /\ y \in 0..(Width - 1)
            /\ Width * u + x = Width * v + y
        BY <3>1, <3>2
      <4> HIDE DEF u, v, x, y
      <4>2. u = v
        BY <1>1, <4>1, Unique
      <4> QED
        BY <4>2 DEF u, v
    <3>4. m - 0 = m /\ 0 \in 0..m
      BY <2>1
    <3> QED
      BY <3>3, <3>4
  <2>3. ASSUME NEW n \in 0..(m - 1), n \in S PROVE n + 1 \in S
    <3> DEFINE l == m - n
    <3>1. l \in 1..Bottom /\ l \in Levels /\ l - 1 = m - (n + 1) /\ n + 1 \in 0..m /\ l - 1 \in Levels
      BY <1>1, <2>1
    <3>2. Upper(a, l) = Upper(b, l)
      BY <2>3
    <3> HIDE DEF l
    <3>3. \A c \in Addrs : /\ Upper(c, l - 1) \in Nat /\ Index(c, l) \in 0..(Width - 1)
                           /\ Upper(c, l) = Width * Upper(c, l - 1) + Index(c, l)
      BY <3>1, Digits
    <3>4. Width * Upper(a, l - 1) + Index(a, l) = Width * Upper(b, l - 1) + Index(b, l)
      BY <3>2, <3>3
    <3>5. Upper(a, l - 1) = Upper(b, l - 1)
      <4> DEFINE u == Upper(a, l - 1)  v == Upper(b, l - 1)  x == Index(a, l)  y == Index(b, l)
      <4>1. /\ u \in Nat /\ v \in Nat /\ x \in 0..(Width - 1) /\ y \in 0..(Width - 1)
            /\ Width * u + x = Width * v + y
        BY <3>3, <3>4
      <4> HIDE DEF u, v, x, y
      <4>2. u = v
        BY <1>1, <4>1, Unique
      <4> QED
        BY <4>2 DEF u, v
    <3> QED
      BY <3>1, <3>5
  <2> HIDE DEF S
  <2>4. \A n \in 0..m : n \in S
    BY <2>1, <2>2, <2>3, Upwards
  <2>5. ASSUME NEW l \in 0..m PROVE Index(a, l) = Index(b, l)
    <3>1. m - l \in 0..m /\ m - (m - l) = l
      BY <2>1
    <3>2. Upper(a, l) = Upper(b, l)
      BY <2>4, <3>1 DEF S
    <3> QED
      BY <3>2 DEF Upper, Index
  <2> QED
    BY <2>1, <2>5
<1> QED
  BY <1>2, <1>3

-----------------------------------------------------------------------------
(* Walks through tables whose links lead to tables.                        *)

Closed(t) ==
    /\ 1 \in DOMAIN t /\ NoTable \notin DOMAIN t
    /\ \A k \in DOMAIN t : \A i \in Idx : t[k][i].type = "pte" => t[k][i].page \in DOMAIN t

(* What is a link in t is the same link in u.                              *)
LinksStay(t, u) ==
    \A k \in DOMAIN t :
        /\ k \in DOMAIN u
        /\ \A i \in Idx : t[k][i].type = "pte" =>
                             u[k][i].type = "pte" /\ u[k][i].page = t[k][i].page

LEMMA ClosedWalk ==
    ASSUME NEW t, Closed(t), NEW a \in Addrs
    PROVE  /\ TableAt(t, a, 0) = 1
           /\ \A l \in Levels : TableAt(t, a, l) # NoTable => TableAt(t, a, l) \in DOMAIN t
           /\ \A l \in 1..Bottom : TableAt(t, a, l) # NoTable =>
                 TableAt(t, a, l - 1) # NoTable /\ TableAt(t, a, l - 1) \in DOMAIN t
           /\ \A l \in 1..Bottom : TableAt(t, a, l - 1) # NoTable =>
                 TableAt(t, a, l) =
                    LET e == t[TableAt(t, a, l - 1)][Index(a, l - 1)] IN
                    IF e.type = "pte" THEN e.page ELSE NoTable
<1> DEFINE X == DOMAIN t \cup {NoTable}
<1>1. 1 \in X /\ NoTable \in X
  BY DEF Closed
<1>2. \A k \in X \ {NoTable} : \A i \in Idx : t[k][i].type = "pte" => t[k][i].page \in X
  BY DEF Closed
<1>3. X \ {NoTable} \subseteq DOMAIN t /\ \A l \in 1..Bottom : l - 1 \in Levels
  BY Constants
<1> HIDE DEF X
<1>4. /\ TableAt(t, a, 0) = 1
      /\ \A l \in Levels : TableAt(t, a, l) \in X
      /\ \A l \in 1..Bottom : TableAt(t, a, l) =
                LET k == TableAt(t, a, l - 1) IN
                IF k = NoTable \/ t[k][Index(a, l - 1)].type # "pte" THEN NoTable
                ELSE t[k][Index(a, l - 1)].page
  BY <1>1, <1>2, Walk
<1> QED
  BY <1>3, <1>4

(* A walk does not get lost while the links that it follows stay.          *)
LEMMA WayStays ==
    ASSUME NEW t, NEW u, Closed(t), Closed(u), LinksStay(t, u), NEW a \in Addrs
    PROVE  \A l \in Levels : TableAt(t, a, l) # NoTable => TableAt(u, a, l) = TableAt(t, a, l)
<1> DEFINE S == {l \in Levels : TableAt(t, a, l) # NoTable => TableAt(u, a, l) = TableAt(t, a, l)}
<1>1. 0 \in S /\ Bottom \in Nat /\ Levels = 0..Bottom
  BY ClosedWalk, Constants
<1>2. ASSUME NEW n \in 0..(Bottom - 1), n \in S PROVE n + 1 \in S
  <2>1. n + 1 \in Levels /\ n \in Levels /\ n + 1 \in 1..Bottom /\ n + 1 - 1 = n
    BY <1>1
  <2> SUFFICES ASSUME TableAt(t, a, n + 1) # NoTable
               PROVE  TableAt(u, a, n + 1) = TableAt(t, a, n + 1)
    BY <2>1
  <2> DEFINE k == TableAt(t, a, n)
             i == Index(a, n)
  <2>2. k # NoTable /\ k \in DOMAIN t /\ t[k][i].type = "pte" /\ TableAt(t, a, n + 1) = t[k][i].page
    BY <2>1, ClosedWalk
  <2>3. TableAt(u, a, n) = k
    BY <1>2, <2>2
  <2>4. TableAt(u, a, n + 1) = IF u[k][i].type = "pte" THEN u[k][i].page ELSE NoTable
    BY <2>1, <2>2, <2>3, ClosedWalk
  <2>5. i \in Idx
    BY <2>1, IndexInRange
  <2> HIDE DEF k, i
  <2> QED
    BY <2>2, <2>4, <2>5 DEF LinksStay
<1> HIDE DEF S
<1>3. \A n \in 0..Bottom : n \in S
  BY <1>1, <1>2, Upwards
<1> QED
  BY <1>1, <1>3 DEF S

(* Where the upper digits are the same, so is the way.                     *)
LEMMA SameWay ==
    ASSUME NEW t, Closed(t), NEW a \in Addrs, NEW b \in Addrs,
           \A l \in 0..(Bottom - 1) : Index(a, l) = Index(b, l)
    PROVE  \A l \in Levels : TableAt(t, a, l) = TableAt(t, b, l)
<1> DEFINE S == {l \in Levels : TableAt(t, a, l) = TableAt(t, b, l)}
<1>1. 0 \in S /\ Bottom \in Nat /\ Levels = 0..Bottom
  BY ClosedWalk, Constants
<1>2. ASSUME NEW n \in 0..(Bottom - 1), n \in S PROVE n + 1 \in S
  <2>1. n + 1 \in Levels /\ n \in Levels /\ n + 1 \in 1..Bottom /\ n + 1 - 1 = n
    BY <1>1
  <2>2. TableAt(t, a, n) = TableAt(t, b, n) /\ Index(a, n) = Index(b, n)
    BY <1>2
  <2>3. \A c \in Addrs :
           /\ TableAt(t, c, n + 1) # NoTable => TableAt(t, c, n) # NoTable
           /\ TableAt(t, c, n) # NoTable =>
                TableAt(t, c, n + 1) =
                   LET e == t[TableAt(t, c, n)][Index(c, n)] IN
                   IF e.type = "pte" THEN e.page ELSE NoTable
    BY <2>1, ClosedWalk
  <2>4. TableAt(t, a, n + 1) = TableAt(t, b, n + 1)
    BY <2>2, <2>3
  <2> QED
    BY <2>1, <2>4
<1> HIDE DEF S
<1>3. \A n \in 0..Bottom : n \in S
  BY <1>1, <1>2, Upwards
<1> QED
  BY <1>1, <1>3 DEF S

(* The driver's tables.                                                    *)
LEMMA TablesClosed ==
    ASSUME NEW lv, Shape(lv)
    PROVE  Closed(tables) /\ DOMAIN tables = 1..Len(tables) /\ Len(tables) \in Nat
<1>1. TypeOK /\ TreeInv(lv)
  BY DEF Shape
<1>2. DOMAIN tables = 1..Len(tables) /\ Len(tables) \in Nat
  BY <1>1, TablesTyped
<1> QED
  BY <1>1, <1>2 DEF TreeInv, Closed, NoTable

LEMMA TablesClosedNext ==
    ASSUME Inv'
    PROVE  Closed(tables') /\ DOMAIN tables' = 1..Len(tables') /\ Len(tables') \in Nat
<1>1. PICK lv : Shape(lv)'
  BY DEF Inv
<1>2. TypeOK' /\ TreeInv(lv)'
  BY <1>1 DEF Shape
<1>3. DOMAIN tables' = 1..Len(tables') /\ Len(tables') \in Nat
  BY <1>2, LenProperties DEF TypeOK
<1> QED
  BY <1>2, <1>3 DEF TreeInv, Closed, NoTable

(* A walk comes down one level at each step.                               *)
LEMMA LevelOfTable ==
    ASSUME NEW lv, Shape(lv), NEW a \in Addrs
    PROVE  \A l \in Levels : TableAt(tables, a, l) # NoTable => lv[TableAt(tables, a, l)] = l
<1> DEFINE S == {l \in Levels : TableAt(tables, a, l) # NoTable => lv[TableAt(tables, a, l)] = l}
<1>1. Bottom \in Nat /\ Levels = 0..Bottom /\ Closed(tables)
  BY TablesClosed, Constants
<1>2. 0 \in S
  BY <1>1, ClosedWalk DEF Shape, TreeInv
<1>3. ASSUME NEW n \in 0..(Bottom - 1), n \in S PROVE n + 1 \in S
  <2>1. n + 1 \in Levels /\ n \in Levels /\ n + 1 \in 1..Bottom /\ n + 1 - 1 = n
    BY <1>1
  <2> SUFFICES ASSUME TableAt(tables, a, n + 1) # NoTable
               PROVE  lv[TableAt(tables, a, n + 1)] = n + 1
    BY <2>1
  <2> DEFINE k == TableAt(tables, a, n)
             c == TableAt(tables, a, n + 1)
             i == Index(a, n)
  <2>2. /\ k # NoTable /\ k \in DOMAIN tables /\ tables[k][i].type = "pte"
        /\ c = tables[k][i].page /\ c \in DOMAIN tables /\ i \in Idx
    BY <1>1, <2>1, ClosedWalk, IndexInRange
  <2>3. lv[k] = n
    BY <1>3, <2>2
  <2> HIDE DEF k, i, c
  <2>4. Child(k, i, c)
    BY <2>2 DEF Child
  <2>5. lv[c] = lv[k] + 1
    BY <2>2, <2>4 DEF Shape, TreeInv
  <2> QED
    BY <2>3, <2>5 DEF c
<1> HIDE DEF S
<1>4. \A n \in 0..Bottom : n \in S
  BY <1>1, <1>2, <1>3, Upwards
<1> QED
  BY <1>1, <1>4 DEF S

(* A table of the bottom level is for addresses with the same upper digits.*)
LEMMA SameUpper ==
    ASSUME NEW lv, Shape(lv), NEW a \in Addrs, NEW b \in Addrs,
           TableAt(tables, a, Bottom) # NoTable,
           TableAt(tables, a, Bottom) = TableAt(tables, b, Bottom)
    PROVE  \A l \in 0..(Bottom - 1) : Index(a, l) = Index(b, l)
<1> DEFINE At(c, l) == TableAt(tables, c, l)
           S == {n \in Levels : /\ At(a, Bottom - n) # NoTable
                                /\ At(a, Bottom - n) = At(b, Bottom - n)
                                /\ \A l \in (Bottom - n)..(Bottom - 1) : Index(a, l) = Index(b, l)}
<1>1. Bottom \in Nat /\ Levels = 0..Bottom /\ Closed(tables)
  BY TablesClosed, Constants
<1>2. 0 \in S
  <2>1. Bottom - 0 = Bottom /\ Bottom..(Bottom - 1) = {} /\ 0 \in Levels
    BY <1>1
  <2> QED
    BY <2>1
<1>3. ASSUME NEW n \in 0..(Bottom - 1), n \in S PROVE n + 1 \in S
  <2> DEFINE m == Bottom - n - 1
  <2>1. /\ n + 1 \in Levels /\ m + 1 = Bottom - n /\ m = Bottom - (n + 1) /\ m \in Levels
        /\ m + 1 \in 1..Bottom /\ m + 1 - 1 = m /\ m + 1 \in Levels
        /\ \A l \in m..(Bottom - 1) : l = m \/ l \in (m + 1)..(Bottom - 1)
    BY <1>1
  <2>2. /\ At(a, m + 1) # NoTable /\ At(a, m + 1) = At(b, m + 1)
        /\ \A l \in (m + 1)..(Bottom - 1) : Index(a, l) = Index(b, l)
    BY <1>3, <2>1
  <2> HIDE DEF m
  <2>3. \A c \in Addrs : At(c, m + 1) # NoTable =>
           /\ At(c, m) # NoTable /\ At(c, m) \in DOMAIN tables /\ Index(c, m) \in Idx
           /\ At(c, m + 1) \in DOMAIN tables
           /\ tables[At(c, m)][Index(c, m)].type = "pte"
           /\ tables[At(c, m)][Index(c, m)].page = At(c, m + 1)
    BY <1>1, <2>1, ClosedWalk, IndexInRange
  <2> HIDE DEF At
  <2>4. /\ At(a, m) \in DOMAIN tables /\ Index(a, m) \in Idx /\ At(a, m + 1) \in DOMAIN tables
        /\ At(b, m) \in DOMAIN tables /\ Index(b, m) \in Idx /\ At(a, m) # NoTable
        /\ Child(At(a, m), Index(a, m), At(a, m + 1)) /\ Child(At(b, m), Index(b, m), At(a, m + 1))
    BY <2>2, <2>3 DEF Child
  <2>5. At(a, m) = At(b, m) /\ Index(a, m) = Index(b, m)
    <3>1. \A c \in DOMAIN tables : \A j, k \in DOMAIN tables : \A x, y \in Idx :
             Child(j, x, c) /\ Child(k, y, c) => j = k /\ x = y
      BY DEF Shape, TreeInv
    <3> QED
      BY <2>4, <3>1
  <2>6. \A l \in m..(Bottom - 1) : Index(a, l) = Index(b, l)
    BY <2>1, <2>2, <2>5
  <2> QED
    BY <2>1, <2>4, <2>5, <2>6
<1> HIDE DEF S
<1>4. \A n \in 0..Bottom : n \in S
  BY <1>1, <1>2, <1>3, Upwards
<1>5. Bottom \in 0..Bottom /\ Bottom - Bottom = 0
  BY <1>1
<1> QED
  BY <1>4, <1>5 DEF S

-----------------------------------------------------------------------------
(* The addresses that the driver's tables have had an entry for.           *)

Reached(a) == TableAt(tables, a, Bottom) # NoTable

InsAt == TableAt(tables, ins.addr, ins.level)

(* Every recorded address has a table of the bottom level, which stays when*)
(* its entry is taken back, and the insertion under way is on the way to   *)
(* its address.                                                            *)
ReachInv ==
    /\ \A a \in recorded : Reached(a)
    /\ ins.on => /\ ins.table = InsAt
                 /\ \A b \in ins.start..(ins.addr - 1) : Reached(b)

LEMMA ReachStays ==
    ASSUME Inv, Inv', LinksStay(tables, tables')
    PROVE  \A a \in Addrs :
              /\ Reached(a) => Reached(a)'
              /\ \A l \in Levels : TableAt(tables, a, l) # NoTable =>
                                      TableAt(tables', a, l) = TableAt(tables, a, l)
<1>1. Closed(tables) /\ Closed(tables')
  BY TablesClosed, TablesClosedNext DEF Inv
<1> SUFFICES ASSUME NEW a \in Addrs
             PROVE  /\ Reached(a) => Reached(a)'
                    /\ \A l \in Levels : TableAt(tables, a, l) # NoTable =>
                                            TableAt(tables', a, l) = TableAt(tables, a, l)
  OBVIOUS
<1>2. \A l \in Levels : TableAt(tables, a, l) # NoTable =>
                           TableAt(tables', a, l) = TableAt(tables, a, l)
  BY <1>1, WayStays
<1>3. Bottom \in Levels
  BY Constants
<1> QED
  BY <1>2, <1>3 DEF Reached

(* The insertion is at a table, and all addresses in use are addresses.    *)
LEMMA InsertionIn ==
    ASSUME Inv
    PROVE  /\ ins \in InsType /\ recorded \subseteq Addrs
           /\ ins.on => ins.table \in DOMAIN tables /\ ins.table # NoTable
           /\ ins.start..(ins.addr - 1) \subseteq Addrs
<1>1. PICK lv : Shape(lv)
  BY DEF Inv
<1>2. ins \in InsType /\ recorded \subseteq Addrs
  BY <1>1 DEF Shape, TypeOK, InsType
<1>3. ins.on => ins.table \in DOMAIN tables
  BY <1>1 DEF Shape, TreeInv
<1>4. NoTable \notin DOMAIN tables
  BY <1>1, TablesClosed DEF Closed
<1>5. ins.start \in Addrs /\ ins.addr \in Addrs
  BY <1>2 DEF InsType
<1>6. ins.start..(ins.addr - 1) \subseteq Addrs
  BY <1>5, Constants
<1> QED
  BY <1>2, <1>3, <1>4, <1>6

(* A step that leaves the links and the insertion, or ends it.             *)
LEMMA ReachKept ==
    ASSUME Inv, Inv', ReachInv, LinksStay(tables, tables'), ins' = ins \/ ~ins'.on,
           \A a \in recorded' : a \in recorded \/ (a \in Addrs /\ Reached(a))
    PROVE  ReachInv'
<1>1. /\ ins \in InsType /\ recorded \subseteq Addrs
      /\ ins.on => ins.table # NoTable
      /\ ins.start..(ins.addr - 1) \subseteq Addrs
  BY InsertionIn
<1>2. \A a \in Addrs :
              /\ Reached(a) => Reached(a)'
              /\ \A l \in Levels : TableAt(tables, a, l) # NoTable =>
                                      TableAt(tables', a, l) = TableAt(tables, a, l)
  BY ReachStays
<1>3. ASSUME NEW a \in recorded' PROVE Reached(a)'
  <2>1. a \in Addrs /\ Reached(a)
    BY <1>1 DEF ReachInv
  <2> QED
    BY <1>2, <2>1
<1>4. ASSUME ins' = ins, ins.on
      PROVE  /\ ins'.table = InsAt'
             /\ \A b \in ins'.start..(ins'.addr - 1) : Reached(b)'
  <2>1. ins.addr \in Addrs /\ ins.level \in Levels
    BY <1>1 DEF InsType
  <2>2. ins.table = TableAt(tables, ins.addr, ins.level)
    BY <1>4 DEF ReachInv, InsAt
  <2>3. TableAt(tables', ins.addr, ins.level) = ins.table
    BY <1>1, <1>2, <1>4, <2>1, <2>2
  <2>4. ins'.table = InsAt'
    BY <1>4, <2>3 DEF InsAt
  <2>5. \A b \in ins.start..(ins.addr - 1) : b \in Addrs /\ Reached(b)
    BY <1>1, <1>4 DEF ReachInv
  <2>6. \A b \in ins.start..(ins.addr - 1) : Reached(b)'
    BY <1>2, <2>5
  <2> QED
    BY <1>4, <2>4, <2>6
<1> QED
  BY <1>3, <1>4 DEF ReachInv

LEMMA ReachBegin ==
    ASSUME Inv, Inv', ReachInv, NEW r \in Ranges, NEW cpu \in BOOLEAN, InsertBegin(r, cpu)
    PROVE  ReachInv'
<1>1. tables' = tables /\ recorded' = recorded
      /\ ins' = [NoIns EXCEPT !.on = TRUE, !.start = r.start, !.addr = r.start,
                              !.end = r.start + r.nr, !.cpu = cpu]
  BY DEF InsertBegin
<1>2. ins'.start = r.start /\ ins'.addr = r.start /\ ins'.level = 0 /\ ins'.table = 1
  BY <1>1 DEF NoIns
<1>3. r.start \in Addrs
  BY RangesAssumption
<1>4. Closed(tables')
  BY TablesClosedNext
<1>5. TableAt(tables', r.start, 0) = 1
  BY <1>3, <1>4, ClosedWalk
<1>6. ins'.table = InsAt'
  BY <1>2, <1>5 DEF InsAt
<1>7. ins'.start..(ins'.addr - 1) = {}
  BY <1>2, <1>3, Constants
<1>8. \A a \in recorded' : Reached(a)'
  BY <1>1 DEF ReachInv, Reached
<1> QED
  BY <1>6, <1>7, <1>8 DEF ReachInv

LEMMA ReachDown ==
    ASSUME Inv, Inv', ReachInv, InsertDown
    PROVE  ReachInv'
<1>1. PICK lv : Shape(lv)
  BY DEF Inv
<1>2. ins.on /\ ins.level < Bottom /\ recorded' = recorded
  BY DEF InsertDown
<1>3. /\ ins \in InsType /\ recorded \subseteq Addrs
      /\ ins.table \in DOMAIN tables /\ ins.table # NoTable
      /\ ins.start..(ins.addr - 1) \subseteq Addrs
  BY <1>2, InsertionIn
<1> DEFINE k == ins.table
           x == Index(ins.addr, ins.level)
           c == IF Here.type = "pte" THEN Here.page ELSE Len(tables) + 1
<1>4. /\ ins'.on /\ ins'.start = ins.start /\ ins'.addr = ins.addr
      /\ ins'.level = ins.level + 1 /\ ins'.table = c
  BY <1>2, <1>3 DEF InsertDown, InsType
<1>5. /\ LinksStay(tables, tables')
      /\ tables'[k][x].type = "pte" /\ tables'[k][x].page = c
  <2>1. CASE Here.type = "pte"
    BY <2>1 DEF InsertDown, Here, LinksStay
  <2>2. CASE Here.type # "pte"
    <3>1. /\ DOMAIN tables = 1..Len(tables) /\ Len(tables) \in Nat
          /\ DOMAIN tables' = 1..(Len(tables) + 1)
          /\ k \in 1..Len(tables) /\ x \in Idx
          /\ \A m \in 1..(Len(tables) + 1) : \A i \in Idx : \A d : Child(m, i, d)' <=>
                 \/ m \in 1..Len(tables) /\ Child(m, i, d)
                 \/ m = ins.table /\ i = Index(ins.addr, ins.level) /\ d = Len(tables) + 1
          /\ \A m \in 1..Len(tables) : \A i \in Idx :
                 tables[m][i].type = "pte" => tables'[m][i] = tables[m][i]
      BY <1>1, <2>2, NewTable
    <3>2. LinksStay(tables, tables')
      BY <3>1 DEF LinksStay
    <3>3. \A m \in 1..Len(tables) : m \in 1..(Len(tables) + 1)
      BY <3>1
    <3>4. \A m \in 1..Len(tables) : \A i \in Idx :
             m = k /\ i = x => tables'[m][i].type = "pte" /\ tables'[m][i].page = Len(tables) + 1
      <4> SUFFICES ASSUME NEW m \in 1..Len(tables), NEW i \in Idx, m = k, i = x
                   PROVE  tables'[m][i].type = "pte" /\ tables'[m][i].page = Len(tables) + 1
        OBVIOUS
      <4>1. \A d : Child(m, i, d)' <=> \/ m \in 1..Len(tables) /\ Child(m, i, d)
                                       \/ m = k /\ i = x /\ d = Len(tables) + 1
        BY <3>1, <3>3
      <4>2. \A d : d = Len(tables) + 1 => Child(m, i, d)'
        BY <4>1
      <4> QED
        BY <4>2 DEF Child
    <3> QED
      BY <2>2, <3>1, <3>2, <3>4
  <2> QED
    BY <2>1, <2>2
<1> HIDE DEF c
<1>6. \A a \in Addrs :
              /\ Reached(a) => Reached(a)'
              /\ \A l \in Levels : TableAt(tables, a, l) # NoTable =>
                                      TableAt(tables', a, l) = TableAt(tables, a, l)
  BY <1>5, ReachStays
<1>7. ins.addr \in Addrs /\ ins.level \in Levels /\ ins.level + 1 \in 1..Bottom
      /\ ins.level + 1 - 1 = ins.level
  BY <1>2, <1>3, Constants DEF InsType
<1>8. TableAt(tables, ins.addr, ins.level) = k
  BY <1>2 DEF ReachInv, InsAt
<1>9. TableAt(tables', ins.addr, ins.level) = k
  BY <1>3, <1>6, <1>7, <1>8
<1>10. Closed(tables')
  BY TablesClosedNext
<1>11. \A a \in Addrs : \A l \in 1..Bottom : TableAt(tables', a, l - 1) # NoTable =>
           TableAt(tables', a, l) =
                    LET e == tables'[TableAt(tables', a, l - 1)][Index(a, l - 1)] IN
                    IF e.type = "pte" THEN e.page ELSE NoTable
  BY <1>10, ClosedWalk
<1>12. TableAt(tables', ins.addr, ins.level + 1) = c
  <2>1. ASSUME NEW a \in Addrs, NEW l \in 1..Bottom, TableAt(tables', a, l - 1) = k
        PROVE  TableAt(tables', a, l) = LET e == tables'[k][Index(a, l - 1)] IN
                                        IF e.type = "pte" THEN e.page ELSE NoTable
    <3> HIDE DEF k
    <3>1. TableAt(tables', a, l - 1) # NoTable
      BY <1>3, <2>1 DEF k
    <3> QED
      BY <1>11, <2>1, <3>1, Zenon
  <2>2. PICK a \in Addrs, l \in 1..Bottom :
           a = ins.addr /\ l = ins.level + 1 /\ l - 1 = ins.level
    <3>1. ins.level \in Int /\ Bottom \in Int
      BY <1>7, Constants
    <3> QED
      BY <1>7, <3>1
  <2>3. TableAt(tables', a, l - 1) = k
    BY <1>9, <2>2
  <2>4. TableAt(tables', a, l) = LET e == tables'[k][Index(a, l - 1)] IN
                                 IF e.type = "pte" THEN e.page ELSE NoTable
    BY <2>1, <2>3
  <2> QED
    BY <1>5, <2>2, <2>4
<1>13. ins'.table = InsAt'
  BY <1>4, <1>12 DEF InsAt
<1>14. \A b \in ins'.start..(ins'.addr - 1) : Reached(b)'
  BY <1>2, <1>3, <1>4, <1>6 DEF ReachInv
<1>15. \A a \in recorded' : Reached(a)'
  BY <1>2, <1>3, <1>6 DEF ReachInv
<1> QED
  BY <1>13, <1>14, <1>15 DEF ReachInv

LEMMA ReachFails ==
    ASSUME Inv, Inv', ReachInv, InsertFails
    PROVE  ReachInv'
<1>1. /\ ins' = NoIns /\ recorded' = recorded
      /\ tables' = [k \in DOMAIN tables |-> [i \in Idx |->
                      IF tables[k][i].type = "ate" /\ tables[k][i].page \in ins.start..(ins.addr - 1)
                      THEN Inval ELSE tables[k][i]]]
  BY DEF InsertFails
<1>2. LinksStay(tables, tables')
  BY <1>1 DEF LinksStay
<1>3. ~ins'.on
  BY <1>1 DEF NoIns
<1> QED
  BY <1>1, <1>2, <1>3, ReachKept

LEMMA ReachTeardown ==
    ASSUME Inv, Inv', ReachInv, NEW a \in Addrs, Teardown(a)
    PROVE  ReachInv'
<1> DEFINE t == TableAt(tables, a, Bottom)
           x == Index(a, Bottom)
<1>1. /\ tables[t][x].type = "ate" /\ tables' = [tables EXCEPT ![t][x] = Inval]
      /\ ins' = ins /\ recorded' = recorded
  BY DEF Teardown, MappedPages
<1> HIDE DEF t, x
<1>2. tables \in Seq([Idx -> Entry])
  BY DEF Inv, Shape, TypeOK
<1>3. tables \in [1..Len(tables) -> [Idx -> Entry]]
  BY <1>2, LenProperties
<1>4. LinksStay(tables, tables')
  BY <1>1, <1>3 DEF LinksStay
<1> QED
  BY <1>1, <1>4, ReachKept

LEMMA ReachFault ==
    ASSUME Inv, Inv', ReachInv, NEW a \in Addrs, CpuFault(a)
    PROVE  ReachInv'
<1>1. /\ Reached(a) /\ tables' = tables /\ ins' = ins /\ recorded' = recorded \cup {a}
  BY DEF CpuFault, MappedPages, Reached
<1>2. LinksStay(tables, tables')
  BY <1>1 DEF LinksStay
<1> QED
  BY <1>1, <1>2, ReachKept

(* The insertion goes on behind the next n addresses, or is over.          *)
Goes(n) ==
    /\ \A b \in ins.addr..(ins.addr + n - 1) : b \in Addrs /\ Reached(b)
    /\ \/ /\ ins' = [ins EXCEPT !.addr = @ + n, !.level = 0, !.table = 1]
          /\ recorded' = recorded
       \/ /\ ~ins'.on /\ ins.addr + n = ins.end
          /\ recorded' \subseteq recorded \cup (ins.start..(ins.end - 1))

(* The entries that go into a table are for addresses that it is for.      *)
LEMMA RoomInTable ==
    ASSUME NEW lv, Shape(lv), ReachInv, InsertEntries
    PROVE  /\ LinksStay(tables, tables')
           /\ \E n \in Nat : Goes(n)
<1> DEFINE x == Index(ins.addr, Bottom)
           n == Min({Width - x, ins.end - ins.addr})
           b == ins.addr + n
<1>1. ins.on /\ ins.level = Bottom
  BY DEF InsertEntries
<1>2. tables' = [tables EXCEPT ![ins.table] = [i \in Idx |->
                    IF ins.addr + i - x \in ins.addr..(ins.addr + n - 1)
                    THEN Ate(ins.addr + i - x, "recorder") ELSE tables[ins.table][i]]]
  BY DEF InsertEntries
<1>3. /\ IF b < ins.end
         THEN /\ ins' = [ins EXCEPT !.addr = @ + n, !.level = 0, !.table = 1]
              /\ UNCHANGED recorded
         ELSE /\ ins' = NoIns
              /\ recorded' = IF ins.cpu THEN recorded \cup (ins.start..(ins.end - 1)) ELSE recorded
  BY DEF InsertEntries
<1>4. /\ ins \in InsType /\ ins.addr < ins.end /\ ins.end <= Space
      /\ ins.table \in DOMAIN tables /\ lv[ins.table] = Bottom /\ x \in Idx
  BY <1>1, Constants, InsertionAt
<1>5. /\ ins.addr \in Nat /\ ins.end \in Nat /\ x \in Nat /\ x < Width
      /\ Width - x \in Nat /\ ins.end - ins.addr \in Nat /\ Space \in Nat
      /\ ins.addr \in Addrs
  BY <1>4, Constants DEF InsType
<1>6. Index(ins.addr, Bottom) = x
  OBVIOUS
<1> HIDE DEF x
<1>7. n \in Nat /\ n <= ins.end - ins.addr /\ n <= Width - x
  <2>1. n \in {Width - x, ins.end - ins.addr} /\ n <= ins.end - ins.addr /\ n <= Width - x
    BY <1>5, Smaller
  <2> HIDE DEF n
  <2> QED
    BY <1>5, <2>1
<1> HIDE DEF n
<1>8. LinksStay(tables, tables')
  <2>1. ASSUME NEW i \in Idx PROVE tables[ins.table][i].type # "pte"
    <3> SUFFICES ASSUME tables[ins.table][i].type = "pte" PROVE FALSE
      OBVIOUS
    <3> DEFINE c == tables[ins.table][i].page
    <3>1. c \in DOMAIN tables /\ lv[c] = Bottom + 1 /\ lv[c] \in Levels
      BY <1>4 DEF Shape, TreeInv, Child
    <3> QED
      BY <3>1, Constants
  <2>2. tables \in [1..Len(tables) -> [Idx -> Entry]]
    BY LenProperties DEF Shape, TypeOK
  <2>3. DOMAIN tables' = DOMAIN tables /\ \A k \in DOMAIN tables : k # ins.table => tables'[k] = tables[k]
    BY <1>2, <2>2
  <2> QED
    BY <2>1, <2>3 DEF LinksStay
<1>9. ASSUME NEW c \in ins.addr..(ins.addr + n - 1)
      PROVE  c \in Addrs /\ Reached(c)
  <2> DEFINE j == c - ins.addr
  <2>1. c \in Nat /\ c < Space /\ j \in Nat /\ c = ins.addr + j /\ x + j < Width
    <3>1. \A p, e, s, w, y, m \in Nat : \A z \in p..(p + m - 1) :
             m <= e - p /\ e <= s /\ m <= w - y =>
                /\ z \in Nat /\ z < s /\ z - p \in Nat /\ z = p + (z - p)
                /\ y + (z - p) < w
      OBVIOUS
    <3> QED
      BY <1>4, <1>5, <1>7, <3>1, Constants
  <2>2. c \in Addrs
    BY <2>1, Constants
  <2> HIDE DEF j
  <2>3. \A l \in 0..(Bottom - 1) : Index(ins.addr, l) = Index(c, l)
    BY <1>5, <1>6, <2>1, <2>2, SameTable
  <2>4. Closed(tables) /\ Bottom \in Levels
    BY TablesClosed, Constants
  <2>5. \A l \in Levels : TableAt(tables, ins.addr, l) = TableAt(tables, c, l)
    BY <1>5, <2>2, <2>3, <2>4, SameWay
  <2>6. TableAt(tables, ins.addr, Bottom) = ins.table
    BY <1>1 DEF ReachInv, InsAt
  <2> QED
    BY <1>4, <2>2, <2>4, <2>5, <2>6 DEF Reached, Closed
<1>10. Goes(n)
  <2>1. CASE b < ins.end
    BY <1>3, <1>9, <2>1 DEF Goes
  <2>2. CASE ~(b < ins.end)
    <3>1. b = ins.end
      BY <1>5, <1>7, <2>2
    <3>2. ~ins'.on /\ recorded' \subseteq recorded \cup (ins.start..(ins.end - 1))
      BY <1>3, <2>2 DEF NoIns
    <3> QED
      BY <1>9, <3>1, <3>2 DEF Goes
  <2> QED
    BY <2>1, <2>2
<1> QED
  BY <1>7, <1>8, <1>10

LEMMA ReachEntries ==
    ASSUME Inv, Inv', ReachInv, InsertEntries
    PROVE  ReachInv'
<1>1. PICK lv : Shape(lv)
  BY DEF Inv
<1>2. ins.on
  BY DEF InsertEntries
<1>3. LinksStay(tables, tables')
  BY <1>1, RoomInTable
<1>4. PICK n \in Nat : Goes(n)
  BY <1>1, RoomInTable
<1>5. ins \in InsType /\ recorded \subseteq Addrs /\ ins.start..(ins.addr - 1) \subseteq Addrs
  BY InsertionIn
<1>6. ins.addr \in Nat /\ ins.start \in Nat
  BY <1>5, Constants DEF InsType
<1>7. ASSUME NEW b \in ins.start..(ins.addr + n - 1) PROVE b \in Addrs /\ Reached(b)
  <2>1. b \in ins.start..(ins.addr - 1) \/ b \in ins.addr..(ins.addr + n - 1)
    BY <1>6
  <2> QED
    BY <1>2, <1>4, <1>5, <2>1 DEF ReachInv, Goes
<1>8. CASE /\ ins' = [ins EXCEPT !.addr = @ + n, !.level = 0, !.table = 1]
           /\ recorded' = recorded
  <2>1. /\ ins'.start = ins.start /\ ins'.addr = ins.addr + n /\ ins'.level = 0
        /\ ins'.table = 1
    BY <1>5, <1>8 DEF InsType
  <2>2. \A a \in Addrs : Reached(a) => Reached(a)'
    BY <1>3, ReachStays
  <2>3. \A a \in recorded' : Reached(a)'
    BY <1>5, <1>8, <2>2 DEF ReachInv
  <2>4. \A b \in ins'.start..(ins'.addr - 1) : Reached(b)'
    <3>1. \A b \in ins.start..(ins.addr + n - 1) : Reached(b)'
      BY <1>7, <2>2
    <3>2. ins'.start..(ins'.addr - 1) = ins.start..(ins.addr + n - 1)
      BY <1>6, <2>1
    <3> QED
      BY <3>1, <3>2, Zenon
  <2>5. ins'.addr \in Addrs
    BY <1>2 DEF Inv, Shape, TypeOK
  <2>6. \A a \in Addrs : TableAt(tables', a, 0) = 1
    BY TablesClosedNext, ClosedWalk
  <2>7. ins'.table = InsAt'
    BY <2>1, <2>5, <2>6 DEF InsAt
  <2> QED
    BY <2>3, <2>4, <2>7 DEF ReachInv
<1>9. CASE /\ ~ins'.on /\ ins.addr + n = ins.end
           /\ recorded' \subseteq recorded \cup (ins.start..(ins.end - 1))
  <2>1. \A a \in recorded' : a \in recorded \/ (a \in Addrs /\ Reached(a))
    <3>1. \A a \in ins.start..(ins.end - 1) : a \in Addrs /\ Reached(a)
      <4>1. ins.start..(ins.end - 1) = ins.start..(ins.addr + n - 1)
        BY <1>6, <1>9
      <4> QED
        BY <1>7, <4>1, Zenon
    <3> QED
      BY <1>9, <3>1
  <2> QED
    BY <1>3, <1>9, <2>1, ReachKept
<1> QED
  BY <1>4, <1>8, <1>9 DEF Goes

LEMMA ReachInit == Init => ReachInv
  BY DEF Init, ReachInv, NoIns

LEMMA ReachNext == Inv /\ Inv' /\ ReachInv /\ [Next]_vars => ReachInv'
<1> SUFFICES ASSUME Inv, Inv', ReachInv, [Next]_vars PROVE ReachInv'
  OBVIOUS
<1>1. ASSUME UNCHANGED drvVars PROVE ReachInv'
  <2>1. tables' = tables /\ ins' = ins /\ recorded' = recorded
    BY <1>1 DEF drvVars
  <2>2. LinksStay(tables, tables')
    BY <2>1 DEF LinksStay
  <2> QED
    BY <2>1, <2>2, ReachKept
<1>2. ASSUME NEW r \in Ranges, NEW cpu \in BOOLEAN, InsertBegin(r, cpu) PROVE ReachInv'
  BY <1>2, ReachBegin
<1>3. ASSUME NEW a \in Addrs, CpuFault(a) \/ Teardown(a) PROVE ReachInv'
  BY <1>3, ReachFault, ReachTeardown
<1>4. ASSUME InsertDown \/ InsertFails \/ InsertEntries PROVE ReachInv'
  BY <1>4, ReachDown, ReachFails, ReachEntries
<1>5. ASSUME DumpBegin \/ DumpTable \/ DumpEntry \/ DumpReturn \/ DumpEnd \/ DumpRegions
      PROVE  UNCHANGED drvVars
  BY <1>5 DEF DumpBegin, DumpTable, DumpEntry, DumpReturn, DumpEnd, DumpRegions
<1>6. ASSUME LoadBegin \/ LoadChild \/ LoadReturn \/ LoadRegions \/ Over \/ UNCHANGED vars
      PROVE  UNCHANGED drvVars
  BY <1>6 DEF LoadBegin, LoadChild, LoadReturn, LoadRegions, Over, vars
<1> QED
  BY <1>1, <1>2, <1>3, <1>4, <1>5, <1>6 DEF Next

-----------------------------------------------------------------------------
(* What gr_construct_pgt makes of a dump that nothing has disturbed.       *)

(* Entry e of the replayer's table k, at i: a link to the table made of the*)
(* child's place in the file, where the CPU's table points too, or what the*)
(* file has.                                                               *)
Copied(k, i, e) ==
    IF IsLink(k, i)
    THEN LET c == user[k][i] IN
         c \in DOMAIN new /\ file[c].page = file[k].entries[i].page /\ e = Pte(c, "replayer")
    ELSE user[k][i] = NoTable /\ e = file[k].entries[i]

(* The call with frame f has its table at the same place as in the file    *)
(* and has copied the entries that it has passed.                          *)
Copying(f) ==
    /\ f.table = f.at
    /\ \A i \in 0..(f.i - 1) : Copied(f.at, i, f.buf[i])
    /\ \A i \in f.i..(Width - 1) : user[f.at][i] = NoTable

(* The call with frame g is for the first link that f has not passed.      *)
Awaits(f, g) ==
    \A i \in f.i..(Width - 1) :
        IsLink(f.at, i) /\ (\A j \in f.i..(i - 1) : ~IsLink(f.at, j))
        => file[g.at].page = file[f.at].entries[i].page

(* The links that the call at place d follows after the one under way lead *)
(* to places of the file to come.                                          *)
ToCome(f, d) ==
    \A j \in f.i..(Width - 1) :
        /\ IsLink(f.at, j)
        /\ d < Len(load.stack) => \E i \in f.i..(j - 1) : IsLink(f.at, i)
        => \A p \in DOMAIN file : file[p].page = file[f.at].entries[j].page => p > load.offset

CallInv(d) ==
    /\ Copying(load.stack[d]) /\ ToCome(load.stack[d], d)
    /\ d < Len(load.stack) => Awaits(load.stack[d], load.stack[d + 1])

OnStack(k) == \E d \in DOMAIN load.stack : load.stack[d].at = k

CopyInv ==
    /\ Len(new) = load.offset
    /\ \A d \in DOMAIN load.stack : CallInv(d)
    /\ \A k \in DOMAIN new : ~OnStack(k) => \A i \in Idx : Copied(k, i, new[k][i])

AllCopied ==
    /\ Len(new) > 0 /\ Len(new) <= Len(file)
    /\ \A k \in DOMAIN new : \A i \in Idx : Copied(k, i, new[k][i])

QuietLoad ==
    ~raced => /\ load.pc = "walk" => CopyInv
              /\ load.pc = "regions" => AllCopied

(* The frames of the replayer's stack.                                     *)
LEMMA Frames ==
    ASSUME NEW lv, Shape(lv), load.pc = "walk", NEW d \in DOMAIN load.stack
    PROVE  LET f == load.stack[d] IN
           /\ f.level = d - 1 /\ f.at \in 1..load.offset /\ f.at \in DOMAIN file
           /\ f.i \in 0..Width /\ f.table \in DOMAIN new
           /\ \A i \in f.i..(Width - 1) : i \in Idx /\ f.buf[i] = file[f.at].entries[i]
           /\ \A i \in 0..(f.i - 1) : i \in Idx
           /\ \A i \in Idx : i \in 0..(f.i - 1) \/ i \in f.i..(Width - 1)
           /\ d < Len(load.stack) => \E i \in f.i..(Width - 1) : Takes(f, i)
           /\ \A e \in DOMAIN load.stack : d < e => f.table < load.stack[e].table
<1> DEFINE f == load.stack[d]
<1>1. FrameInv(d) /\ f.at \in DOMAIN file
  BY OnTop
<1>2. f.i \in 0..Width /\ Width \in Nat /\ Idx = 0..(Width - 1)
  BY LoadTyped, Constants DEF Shape
<1>3. f = load.stack[d]
  OBVIOUS
<1> HIDE DEF f
<1>4. /\ \A i \in f.i..(Width - 1) : i \in Idx
      /\ \A i \in 0..(f.i - 1) : i \in Idx
      /\ \A i \in Idx : i \in 0..(f.i - 1) \/ i \in f.i..(Width - 1)
  BY <1>2
<1>5. /\ f.level = d - 1 /\ f.at \in 1..load.offset /\ f.table \in DOMAIN new
      /\ \A i \in f.i..(Width - 1) : f.buf[i] = file[f.at].entries[i]
      /\ d < Len(load.stack) => \E i \in f.i..(Width - 1) : Takes(f, i)
      /\ \A e \in DOMAIN load.stack : d < e => f.table < load.stack[e].table
  BY <1>1, <1>3, Zenon DEF FrameInv
<1> QED
  BY <1>1, <1>2, <1>3, <1>4, <1>5

(* A call that has its table at the level it had follows the links.        *)
LEMMA TakesLinks ==
    ASSUME NEW lv, Shape(lv), ~raced, load.pc = "walk", NEW d \in DOMAIN load.stack,
           lv[file[load.stack[d].at].page] = d - 1,
           NEW i \in load.stack[d].i..(Width - 1)
    PROVE  Takes(load.stack[d], i) <=> IsLink(load.stack[d].at, i)
<1>1. PICK f : f = load.stack[d]
  OBVIOUS
<1>2. f.at \in DOMAIN file /\ i \in Idx /\ f.level = d - 1 /\ dump.pc = "done" /\ TypeOK
  BY <1>1, Frames, OnTop DEF Shape
<1>3. /\ file[f.at].page \in DOMAIN tables
      /\ IsLink(f.at, i) => lv[file[f.at].page] < Bottom
  BY <1>2, Dumped
<1>4. file[f.at].entries = tables[file[f.at].page]
  BY <1>2 DEF Shape, QuietInv
<1>5. tables[file[f.at].page][i] \in Entry
  BY <1>2, <1>3, TablesTyped
<1>6. lv[file[f.at].page] < Bottom => tables[file[f.at].page][i].type # "ate"
  BY <1>2, <1>3 DEF Shape, TreeInv
<1>7. \A e \in Entry : e.type \in {"inval", "pte", "ate"}
  BY DEF Entry
<1> QED
  BY <1>1, <1>2, <1>3, <1>4, <1>5, <1>6, <1>7 DEF Takes, Follows, IsLink

(* Each call has its table at the level that it had: the call below it is  *)
(* for the first link that it has to follow.                               *)
LEMMA SameLevel ==
    ASSUME NEW lv, Shape(lv), ~raced, CopyInv, load.pc = "walk"
    PROVE  \A d \in DOMAIN load.stack :
              /\ lv[file[load.stack[d].at].page] = d - 1
              /\ \A i \in load.stack[d].i..(Width - 1) :
                    Takes(load.stack[d], i) <=> IsLink(load.stack[d].at, i)
<1> DEFINE D == Len(load.stack)
           S == {n \in 0..(D - 1) : lv[file[load.stack[n + 1].at].page] = n}
<1>1. D \in Nat /\ D > 0 /\ DOMAIN load.stack = 1..D /\ dump.pc = "done"
  BY OnTop
<1>2. 0 \in S
  <2>1. 1 \in DOMAIN load.stack /\ 0 \in 0..(D - 1) /\ 0 + 1 = 1
    BY <1>1
  <2>2. load.stack[1].table = 1 /\ load.stack[1].table = load.stack[1].at
    BY <2>1 DEF Shape, LoadInv, CopyInv, CallInv, Copying
  <2>3. file[1].page = 1 /\ lv[1] = 0
    BY <1>1, Dumped
  <2> QED
    BY <2>1, <2>2, <2>3
<1>3. ASSUME NEW n \in 0..(D - 1 - 1), n \in S PROVE n + 1 \in S
  <2>1. /\ n \in Nat /\ n + 1 \in DOMAIN load.stack /\ n + 2 \in DOMAIN load.stack
        /\ n + 1 < D /\ n + 1 + 1 = n + 2 /\ n + 1 - 1 = n /\ n + 1 \in 0..(D - 1)
    <3>1. \A e \in Nat : \A m \in 0..(e - 1 - 1) :
             /\ m \in Nat /\ m + 1 \in 1..e /\ m + 2 \in 1..e
             /\ m + 1 < e /\ m + 1 + 1 = m + 2 /\ m + 1 - 1 = m /\ m + 1 \in 0..(e - 1)
      OBVIOUS
    <3> QED
      BY <1>1, <3>1
  <2>2. PICK f, g : f = load.stack[n + 1] /\ g = load.stack[n + 2]
    OBVIOUS
  <2>3. lv[file[f.at].page] = n
    BY <1>3, <2>2
  <2>4. \A i \in f.i..(Width - 1) : Takes(f, i) <=> IsLink(f.at, i)
    <3>1. PICK d \in DOMAIN load.stack : d = n + 1
      BY <2>1
    <3>2. lv[file[load.stack[d].at].page] = d - 1
      BY <2>1, <2>2, <2>3, <3>1
    <3>3. \A i \in load.stack[d].i..(Width - 1) :
             Takes(load.stack[d], i) <=> IsLink(load.stack[d].at, i)
      BY <3>2, TakesLinks
    <3> QED
      BY <2>2, <3>1, <3>3
  <2>5. /\ f.at \in DOMAIN file /\ g.at \in DOMAIN file
        /\ \A i \in f.i..(Width - 1) : i \in Idx
        /\ \E i \in f.i..(Width - 1) : Takes(f, i)
    BY <2>1, <2>2, Frames
  <2> DEFINE L == {i \in f.i..(Width - 1) : IsLink(f.at, i)}
             m == Min(L)
  <2>6. L # {} /\ L \subseteq Nat
    <3>1. Idx \subseteq Nat
      BY Constants
    <3> QED
      BY <2>4, <2>5, <3>1
  <2>7. m \in L /\ \A k \in L : m <= k
    <3> HIDE DEF L
    <3> QED
      BY <2>6, Smallest
  <2>8. m \in f.i..(Width - 1) /\ IsLink(f.at, m) /\ m \in Idx
    BY <2>5, <2>7
  <2>9. \A j \in f.i..(m - 1) : ~IsLink(f.at, j)
    <3>1. f.i \in Nat /\ m \in Nat /\ m < Width
      <4>1. f.i \in 0..Width
        BY <2>1, <2>2, Frames
      <4> QED
        BY <2>8, <4>1, Constants
    <3>2. \A j \in f.i..(m - 1) : j \in f.i..(Width - 1) /\ ~(m <= j)
      <4> HIDE DEF m
      <4> QED
        BY <3>1, Constants
    <3> QED
      BY <2>7, <3>2
  <2> HIDE DEF L, m
  <2>10. file[g.at].page = file[f.at].entries[m].page
    <3>1. Awaits(f, g)
      BY <2>1, <2>2 DEF CopyInv, CallInv
    <3> QED
      BY <2>8, <2>9, <3>1 DEF Awaits
  <2>11. lv[file[g.at].page] = lv[file[f.at].page] + 1
    BY <1>1, <2>5, <2>8, <2>10, Dumped
  <2>12. lv[file[g.at].page] = n + 1
    BY <2>3, <2>11
  <2> QED
    BY <2>1, <2>2, <2>12
<1> HIDE DEF S
<1>4. \A n \in 0..(D - 1) : n \in S
  <2>1. D - 1 \in Nat
    BY <1>1
  <2> QED
    BY <1>2, <1>3, <2>1, Upwards
<1>5. ASSUME NEW d \in DOMAIN load.stack
      PROVE  lv[file[load.stack[d].at].page] = d - 1
  <2>1. d - 1 \in 0..(D - 1) /\ d - 1 + 1 = d
    BY <1>1
  <2> QED
    BY <1>4, <2>1 DEF S
<1> QED
  BY <1>5, TakesLinks

(* No link comes before the one that the call on top follows next.         *)
LEMMA NextIsFirst ==
    ASSUME NEW lv, Shape(lv), ~raced, CopyInv, load.pc = "walk", NextLink < Width
    PROVE  /\ NextLink \in Idx /\ NextLink \in LoadTop.i..(Width - 1)
           /\ IsLink(LoadTop.at, NextLink)
           /\ \A i \in LoadTop.i..(Width - 1) : IsLink(LoadTop.at, i) => NextLink <= i
<1>1. /\ Len(load.stack) \in DOMAIN load.stack /\ LoadTop = load.stack[Len(load.stack)]
      /\ NextLink \in Idx /\ NextLink \in LoadTop.i..(Width - 1) /\ Takes(LoadTop, NextLink)
      /\ \A i \in LoadTop.i..(Width - 1) : Takes(LoadTop, i) => NextLink <= i
  BY OnTop
<1>2. \A i \in LoadTop.i..(Width - 1) : Takes(LoadTop, i) <=> IsLink(LoadTop.at, i)
  BY <1>1, SameLevel
<1> QED
  BY <1>1, <1>2

(* The table at the next place of the file is below those of all calls.    *)
LEMMA NextBelow ==
    ASSUME NEW lv, Shape(lv), ~raced, CopyInv, load.pc = "walk", NextLink < Width,
           load.offset < Len(file)
    PROVE  /\ load.offset + 1 \in DOMAIN file
           /\ lv[file[load.offset + 1].page] \in Levels
           /\ \A d \in DOMAIN load.stack :
                 lv[file[load.stack[d].at].page] < lv[file[load.offset + 1].page]
<1> DEFINE D == Len(load.stack)
           o == load.offset
<1>1. /\ D \in Nat /\ D > 0 /\ D \in DOMAIN load.stack /\ DOMAIN load.stack = 1..D
      /\ LoadTop = load.stack[D] /\ o \in DOMAIN file /\ dump.pc = "done"
      /\ LoadTop.at \in DOMAIN file
  BY OnTop
<1>2. NextLink \in Idx /\ NextLink \in LoadTop.i..(Width - 1) /\ IsLink(LoadTop.at, NextLink)
  BY NextIsFirst
<1>3. /\ Len(file) \in Nat /\ DOMAIN file = 1..Len(file)
      /\ \A n \in DOMAIN file : lv[file[n].page] \in Levels
      /\ Stored(file[LoadTop.at].entries[NextLink].page) \/ Under(lv, LoadTop.at, Len(file))
      /\ \A p \in DOMAIN file : file[p].page = file[LoadTop.at].entries[NextLink].page =>
            Under(lv, LoadTop.at, p)
  BY <1>1, <1>2, Dumped
<1>4. /\ LoadTop.at \in 1..o
      /\ \A p \in DOMAIN file : file[p].page = file[LoadTop.at].entries[NextLink].page => p > o
  <2>1. ToCome(LoadTop, D) /\ ~(D < D)
    BY <1>1 DEF CopyInv, CallInv
  <2> QED
    BY <1>1, <1>2, <2>1, Frames DEF ToCome
<1> HIDE DEF o, D
<1>5. o \in Nat /\ o + 1 \in DOMAIN file /\ LoadTop.at \in Nat /\ LoadTop.at <= o
  <2>1. o \in Nat /\ o < Len(file) /\ o \in 1..Len(file)
    BY <1>1, <1>3, SMTT(30) DEF o
  <2> QED
    BY <1>3, <1>4, <2>1, SMTT(30)
<1>6. lv[file[o + 1].page] > lv[file[LoadTop.at].page]
  <2>1. CASE Stored(file[LoadTop.at].entries[NextLink].page)
    <3>1. PICK p \in DOMAIN file : file[p].page = file[LoadTop.at].entries[NextLink].page
      BY <2>1 DEF Stored
    <3>2. p > o /\ Under(lv, LoadTop.at, p) /\ p \in Nat
      BY <1>3, <1>4, <3>1
    <3>3. o + 1 \in (LoadTop.at + 1)..p
      BY <1>5, <3>2
    <3> QED
      BY <3>2, <3>3 DEF Under
  <2>2. CASE Under(lv, LoadTop.at, Len(file))
    <3>1. o + 1 \in (LoadTop.at + 1)..Len(file)
      BY <1>3, <1>5
    <3> QED
      BY <2>2, <3>1 DEF Under
  <2> QED
    BY <1>3, <2>1, <2>2
<1>7. lv[file[o + 1].page] \in Levels /\ \A x \in Levels : x \in Int
  BY <1>3, <1>5, Constants
<1>8. \A d \in DOMAIN load.stack : lv[file[load.stack[d].at].page] = d - 1
  BY SameLevel
<1>9. ASSUME NEW d \in DOMAIN load.stack
      PROVE  lv[file[load.stack[d].at].page] < lv[file[o + 1].page]
  <2>1. d \in Nat /\ d <= D /\ D \in Nat
    BY <1>1
  <2>2. lv[file[load.stack[d].at].page] = d - 1 /\ lv[file[LoadTop.at].page] = D - 1
    BY <1>1, <1>8
  <2>3. lv[file[o + 1].page] \in Int /\ lv[file[o + 1].page] > D - 1
    BY <1>6, <1>7, <2>2
  <2> QED
    BY <2>1, <2>2, <2>3
<1> QED
  BY <1>5, <1>7, <1>9 DEF o

(* The child of the next link is at the next place of the file: its parent *)
(* is at an earlier place, and only the call on top has links to places to *)
(* come at its level.                                                      *)
LEMMA NextIsChild ==
    ASSUME NEW lv, Shape(lv), ~raced, CopyInv, load.pc = "walk", NextLink < Width,
           load.offset < Len(file)
    PROVE  file[load.offset + 1].page = file[LoadTop.at].entries[NextLink].page
<1> DEFINE o == load.offset
           c == file[load.offset + 1].page
           D == Len(load.stack)
<1>1. /\ D \in DOMAIN load.stack /\ DOMAIN load.stack = 1..D /\ D \in Nat
      /\ LoadTop = load.stack[D] /\ o \in DOMAIN file /\ dump.pc = "done"
      /\ LoadTop.at \in DOMAIN file
  BY OnTop
<1>2. /\ Len(file) \in Nat /\ DOMAIN file = 1..Len(file) /\ 1 \in DOMAIN file /\ file[1].page = 1
      /\ \A n \in DOMAIN file : file[n].page \in DOMAIN tables /\ lv[file[n].page] \in Levels
  BY <1>1, Dumped
<1>3. /\ o + 1 \in DOMAIN file
      /\ \A d \in DOMAIN load.stack : lv[file[load.stack[d].at].page] < lv[c]
  BY NextBelow
<1>4. o \in Nat /\ o > 0 /\ o + 1 # 1 /\ \A n \in DOMAIN file : n < o + 1 => n \in 1..o
  BY <1>1, <1>2
<1>5. \A n, p \in DOMAIN file : file[n].page = file[p].page => n = p
  BY DEF Shape, FileInv
<1>6. c \in DOMAIN tables \ {1}
  BY <1>2, <1>3, <1>4, <1>5
<1> HIDE DEF c, o, D
<1>7. PICK k \in DOMAIN tables, j \in Idx : Child(k, j, c)
  BY <1>6 DEF Shape, TreeInv
<1>8. PICK n \in DOMAIN file : file[n].page = k
  BY <1>1, <1>7, AllStored DEF Stored
<1>9. IsLink(n, j) /\ file[n].entries[j].page = c
  <2>1. file[n].entries = tables[k]
    BY <1>1, <1>8 DEF Shape, QuietInv
  <2> QED
    BY <1>7, <2>1 DEF Child, IsLink
<1>10. file[o + 1].page = c
  BY DEF c, o
<1>11. n < o + 1 /\ lv[c] = lv[k] + 1
  BY <1>1, <1>3, <1>8, <1>9, <1>10, Dumped
<1>12. n \in DOMAIN new /\ DOMAIN new = 1..o
  <2>1. DOMAIN new = 1..Len(new) /\ Len(new) = o
    BY LoadTyped DEF CopyInv, Shape, o
  <2> QED
    BY <1>4, <1>11, <2>1
<1>13. ASSUME NEW e, Copied(n, j, e) PROVE FALSE
  <2> DEFINE x == user[n][j]
  <2>1. x \in DOMAIN new /\ file[x].page = c
    BY <1>9, <1>13 DEF Copied
  <2> HIDE DEF x
  <2>2. x \in DOMAIN file /\ x # o + 1
    <3>1. o < Len(file)
      BY DEF o
    <3> QED
      BY <1>2, <1>4, <1>12, <2>1, <3>1
  <2> QED
    BY <1>3, <1>5, <1>10, <2>1, <2>2
<1>14. CASE ~OnStack(n)
  BY <1>12, <1>13, <1>14 DEF CopyInv
<1>15. CASE OnStack(n)
  <2>1. PICK d \in DOMAIN load.stack : load.stack[d].at = n
    BY <1>15 DEF OnStack
  <2> DEFINE f == load.stack[d]
  <2>2. CASE d < D
    <3>1. lv[file[f.at].page] < lv[file[LoadTop.at].page]
      <4>1. lv[file[f.at].page] = d - 1 /\ lv[file[LoadTop.at].page] = D - 1
        BY <1>1, SameLevel
      <4>2. d \in Nat
        BY <1>1
      <4> QED
        BY <1>1, <2>2, <4>1, <4>2
    <3>2. lv[k] < lv[file[LoadTop.at].page] /\ lv[file[LoadTop.at].page] < lv[c]
      BY <1>1, <1>3, <1>8, <2>1, <3>1
    <3>3. lv[k] \in Int /\ lv[file[LoadTop.at].page] \in Int /\ lv[c] \in Int
      <4>1. \A x \in Levels : x \in Int
        BY Constants
      <4>2. lv[k] \in Levels /\ lv[file[LoadTop.at].page] \in Levels /\ lv[c] \in Levels
        BY <1>1, <1>2, <1>3, <1>8, <1>10
      <4> QED
        BY <4>1, <4>2
    <3> QED
      BY <1>11, <3>2, <3>3
  <2>3. CASE d = D
    <3>1. f = LoadTop /\ f.at = n
      BY <1>1, <2>1, <2>3
    <3>2. j \notin 0..(f.i - 1)
      BY <1>13, <2>1, <3>1 DEF CopyInv, CallInv, Copying
    <3>3. j \in f.i..(Width - 1)
      BY <2>1, <3>2, Frames
    <3>4. NextLink \in Idx /\ NextLink \in f.i..(Width - 1) /\ IsLink(n, NextLink) /\ NextLink <= j
      BY <1>9, <3>1, <3>3, NextIsFirst
    <3>5. CASE NextLink = j
      BY <1>9, <1>10, <3>1, <3>5 DEF o
    <3>6. CASE NextLink < j
      <4>1. \E p \in 1..(o + 1 - 1) : file[p].page = file[n].entries[NextLink].page
        BY <1>1, <1>3, <1>9, <1>10, <3>4, <3>6, Dumped
      <4>2. PICK p \in 1..(o + 1 - 1) : file[p].page = file[n].entries[NextLink].page
        BY <4>1
      <4>3. p \in DOMAIN file /\ ~(p > o)
        BY <1>1, <1>2, <1>4
      <4>4. p > o
        <5>1. ToCome(LoadTop, D) /\ ~(D < D)
          BY <1>1 DEF CopyInv, CallInv
        <5> QED
          BY <3>1, <3>4, <4>2, <4>3, <5>1 DEF ToCome, o, D
      <4> QED
        BY <4>3, <4>4
    <3>7. NextLink = j \/ NextLink < j
      BY <3>4, Constants
    <3> QED
      BY <3>5, <3>6, <3>7
  <2>4. d < D \/ d = D
    BY <1>1, <2>1
  <2> QED
    BY <2>2, <2>3, <2>4
<1> QED
  BY <1>14, <1>15

LEMMA CopyBegin ==
    ASSUME NEW lv, Shape(lv), LoadBegin
    PROVE  CopyInv'
<1>1. load.pc = "no" /\ dump.pc = "done" /\ Call(1, 0) /\ UNCHANGED <<drvVars, dump, file>>
  BY DEF LoadBegin
<1>2. /\ TypeOK /\ new = << >> /\ load.stack = << >> /\ Len(load.stack) = 0 /\ Len(new) = 0
      /\ DOMAIN new = {} /\ 1 \in DOMAIN file /\ 0 \in Levels /\ 0 <= Bottom
  BY <1>1, Dumped, EmptySeq, Constants DEF Shape, LoadInv
<1>3. PICK f : f = load'.stack[1]
  OBVIOUS
<1>4. /\ load'.offset = 1 /\ Len(load'.stack) = 1 /\ DOMAIN load'.stack = 1..1
      /\ f.table = 1 /\ f.at = 1 /\ f.i = 0 /\ Len(new') = 1 /\ DOMAIN new' = 1..1
  <2>1. 0 + 1 = 1
    OBVIOUS
  <2> QED
    BY <1>1, <1>2, <1>3, <2>1, Called
<1>5. user'[1] = [i \in Idx |-> NoTable]
  <2>1. user'[0 + 1] = [i \in Idx |-> NoTable] /\ 0 + 1 = 1
    BY <1>1, <1>2, CalledUser
  <2> QED
    BY <2>1
<1>6. 1..1 = {1} /\ 0..(0 - 1) = {} /\ Idx = 0..(Width - 1)
  BY Constants
<1>7. Copying(f)'
  BY <1>4, <1>5, <1>6 DEF Copying
<1>8. ToCome(f, 1)'
  <2>1. \A j \in Idx : IsLink(1, j) =>
           \A p \in DOMAIN file : file[p].page = file[1].entries[j].page => p > 1
    <3>1. \A j \in Idx : IsLink(1, j) =>
             \A p \in DOMAIN file : file[p].page = file[1].entries[j].page => 1 < p
      BY <1>1, <1>2, Dumped
    <3> QED
      BY <3>1, FileTyped, <1>2
  <2>2. \A j \in f.i..(Width - 1) : j \in Idx
    BY <1>4, <1>6
  <2>3. file' = file
    BY <1>1
  <2> QED
    BY <1>4, <2>1, <2>2, <2>3 DEF ToCome, IsLink
<1>9. ASSUME NEW d \in DOMAIN load'.stack PROVE CallInv(d)'
  <2>1. d = 1 /\ load'.stack[d] = f /\ ~(d < Len(load'.stack))
    BY <1>3, <1>4, <1>6
  <2> QED
    BY <1>7, <1>8, <2>1 DEF CallInv
<1>10. \A k \in DOMAIN new' : OnStack(k)'
  BY <1>3, <1>4, <1>6 DEF OnStack
<1> QED
  BY <1>4, <1>9, <1>10 DEF CopyInv

(* What is copied stays copied.                                            *)
LEMMA StaysCopied ==
    ASSUME file' = file, DOMAIN new \subseteq DOMAIN new', NEW k, NEW i, user'[k][i] = user[k][i],
           NEW e, Copied(k, i, e)
    PROVE  Copied(k, i, e)'
BY DEF Copied, IsLink

LEMMA StaysCopying ==
    ASSUME file' = file, DOMAIN new \subseteq DOMAIN new', NEW f, user'[f.at] = user[f.at],
           Copying(f)
    PROVE  Copying(f)'
<1>1. ASSUME NEW i \in 0..(f.i - 1) PROVE Copied(f.at, i, f.buf[i])'
  <2>1. Copied(f.at, i, f.buf[i])
    BY DEF Copying
  <2> QED
    BY <2>1, StaysCopied
<1> QED
  BY <1>1 DEF Copying

(* After a call, the links that all others follow later lead to places     *)
(* after the child's: theirs are of other levels, and those of its caller  *)
(* come after its own.                                                     *)
LEMMA ChildToCome ==
    ASSUME NEW lv, Shape(lv), ~raced, CopyInv, LoadChild, load.offset < Len(file)
    PROVE  \A d \in DOMAIN load'.stack : ToCome(load.stack[d], d)'
<1> DEFINE D == Len(load.stack)
           o == load.offset
           z == load'.stack
<1>1. /\ load.pc = "walk" /\ NextLink < Width /\ file' = file /\ dump.pc = "done"
      /\ LoadTop = load.stack[D] /\ LoadTop.at \in DOMAIN file /\ o \in DOMAIN file
  BY OnTop DEF LoadChild
<1>2. /\ D \in Nat /\ D \in DOMAIN load.stack /\ DOMAIN load.stack = 1..D
      /\ load'.offset = o + 1 /\ DOMAIN z = 1..(D + 1) /\ Len(z) = D + 1
      /\ \A d \in 1..D : z[d] = load.stack[d]
      /\ z[D + 1].at = o + 1 /\ z[D + 1].i = 0 /\ o + 1 \in DOMAIN file
  BY LoadChildStep
<1>3. file[o + 1].page = file[LoadTop.at].entries[NextLink].page
  BY <1>1, NextIsChild
<1>4. /\ NextLink \in Idx /\ IsLink(LoadTop.at, NextLink)
      /\ \A i \in LoadTop.i..(Width - 1) : IsLink(LoadTop.at, i) => NextLink <= i
  BY <1>1, NextIsFirst
<1>5. /\ Len(file) \in Nat /\ DOMAIN file = 1..Len(file) /\ o \in Nat
  BY <1>1, Dumped
<1>6. \A n, p \in DOMAIN file : file[n].page = file[p].page => n = p
  BY DEF Shape, FileInv
<1>7. \A d \in DOMAIN load.stack : lv[file[load.stack[d].at].page] = d - 1
  BY <1>1, SameLevel
<1>8. lv[file[o + 1].page] = D
  <2> HIDE DEF D, o
  <2>1. lv[file[o + 1].page] = lv[file[LoadTop.at].page] + 1
    <3>1. \A n \in DOMAIN file : \A i \in Idx : IsLink(n, i) =>
             \A p \in DOMAIN file : file[p].page = file[n].entries[i].page =>
                lv[file[p].page] = lv[file[n].page] + 1
      BY <1>1, Dumped
    <3> QED
      BY <1>1, <1>2, <1>3, <1>4, <3>1
  <2>2. lv[file[LoadTop.at].page] = D - 1
    BY <1>1, <1>2, <1>7
  <2> QED
    BY <1>2, <2>1, <2>2
<1> HIDE DEF D, o, z
<1>9. ASSUME NEW d \in 1..D, NEW j \in load.stack[d].i..(Width - 1), NEW p \in DOMAIN file,
             IsLink(load.stack[d].at, j),
             \E i \in load.stack[d].i..(j - 1) : IsLink(load.stack[d].at, i),
             file[p].page = file[load.stack[d].at].entries[j].page
      PROVE  p > o + 1
  <2>1. PICK f : f = load.stack[d]
    OBVIOUS
  <2>2. d \in DOMAIN load.stack /\ f.at \in DOMAIN file /\ j \in Idx /\ p \in Nat /\ f.i \in Nat
    <3>1. d \in DOMAIN load.stack /\ p \in Nat
      BY <1>2, <1>5
    <3>2. load.stack[d].at \in DOMAIN file /\ load.stack[d].i \in 0..Width
          /\ \A i \in load.stack[d].i..(Width - 1) : i \in Idx
      BY <1>1, <3>1, Frames
    <3>3. \A x \in 0..Width : x \in Nat
      BY Constants
    <3> QED
      BY <2>1, <3>1, <3>2, <3>3
  <2>3. p > o
    <3>1. ToCome(f, d)
      BY <2>1, <2>2 DEF CopyInv, CallInv
    <3> QED
      BY <1>9, <2>1, <3>1 DEF ToCome, o
  <2>4. p # o + 1
    <3>1. CASE d = D
      <4>1. PICK i \in f.i..(j - 1) : IsLink(f.at, i)
        BY <1>9, <2>1
      <4>2. i \in f.i..(Width - 1) /\ i < j /\ i \in Idx
        <5>1. \A u \in Nat : \A v \in Idx : \A w \in u..(v - 1) :
                 w \in u..(Width - 1) /\ w < v /\ w \in Idx
          BY Constants
        <5> QED
          BY <2>2, <4>1, <5>1
      <4>3. NextLink < j
        <5>1. NextLink <= i
          BY <1>1, <1>4, <2>1, <3>1, <4>1, <4>2
        <5> QED
          BY <1>4, <2>2, <4>2, <5>1, Constants
      <4>4. PICK q \in 1..(p - 1) : file[q].page = file[f.at].entries[NextLink].page
        <5>1. /\ IsLink(f.at, NextLink) /\ IsLink(f.at, j)
              /\ file[p].page = file[f.at].entries[j].page /\ NextLink \in Idx
          BY <1>1, <1>4, <1>9, <2>1, <3>1
        <5>2. \A n, r \in DOMAIN file : \A u, v \in Idx :
                 /\ u < v /\ IsLink(n, u) /\ IsLink(n, v)
                 /\ file[r].page = file[n].entries[v].page
                 => \E q \in 1..(r - 1) : file[q].page = file[n].entries[u].page
          BY <1>1, Dumped
        <5> QED
          BY <2>2, <4>3, <5>1, <5>2
      <4>5. q \in DOMAIN file /\ q < p
        BY <1>5, <2>2, <4>4
      <4>6. q = o + 1
        BY <1>1, <1>2, <1>3, <1>6, <2>1, <3>1, <4>4, <4>5
      <4> QED
        BY <1>5, <2>2, <4>5, <4>6
    <3>2. CASE d # D
      <4>1. lv[file[p].page] = lv[file[f.at].page] + 1
        BY <1>1, <1>9, <2>1, <2>2, Dumped
      <4>2. lv[file[p].page] = d - 1 + 1
        BY <1>7, <2>1, <2>2, <4>1
      <4>3. lv[file[p].page] # D
        BY <1>2, <3>2, <4>2
      <4> QED
        BY <1>8, <4>3
    <3> QED
      BY <3>1, <3>2
  <2> QED
    BY <1>5, <2>2, <2>3, <2>4
<1>10. ASSUME NEW d \in 1..D PROVE ToCome(load.stack[d], d)'
  <2>1. d < D + 1
    BY <1>2
  <2>2. PICK f : f = z[d]
    OBVIOUS
  <2>3. /\ load'.stack[d] = f /\ f = load.stack[d] /\ Len(load'.stack) = D + 1
        /\ load'.offset = o + 1
    BY <1>2, <2>2 DEF z
  <2> QED
    BY <1>1, <1>9, <2>1, <2>3 DEF ToCome, IsLink
<1>11. ASSUME NEW d, d = D + 1 PROVE ToCome(load.stack[d], d)'
  <2>1. PICK f : f = z[d]
    OBVIOUS
  <2>2. f.at = o + 1 /\ f.i = 0
    BY <1>2, <1>11, <2>1
  <2>3. \A j \in f.i..(Width - 1) : j \in Idx
    BY <2>2, Constants
  <2>4. ASSUME NEW j \in Idx, IsLink(o + 1, j), NEW p \in DOMAIN file,
               file[p].page = file[o + 1].entries[j].page
        PROVE  p > o + 1
    <3>1. o + 1 < p
      BY <1>1, <1>2, <2>4, Dumped
    <3> QED
      BY <1>5, <3>1
  <2>5. load'.stack[d] = f /\ load'.offset = o + 1
    BY <1>2, <2>1 DEF z
  <2> QED
    BY <1>1, <2>2, <2>3, <2>4, <2>5 DEF ToCome, IsLink
<1>12. \A d \in 1..(D + 1) : d \in 1..D \/ d = D + 1
  BY <1>2
<1> QED
  BY <1>2, <1>10, <1>11, <1>12 DEF z

LEMMA CopyChild ==
    ASSUME NEW lv, Shape(lv), ~raced, CopyInv, LoadChild, load.offset < Len(file)
    PROVE  CopyInv'
<1> DEFINE D == Len(load.stack)
           M == Len(new) + 1
           o == load.offset
<1>1. /\ load.pc = "walk" /\ NextLink < Width /\ Call(o + 1, LoadTop.level + 1)
      /\ UNCHANGED <<drvVars, dump, file>> /\ file' = file
  BY DEF LoadChild
<1>2. /\ D \in DOMAIN load.stack /\ DOMAIN load.stack = 1..D /\ D \in Nat
      /\ LoadTop = load.stack[D] /\ o \in DOMAIN file /\ LoadTop.level = D - 1
      /\ LoadTop.at \in DOMAIN file
  BY <1>1, OnTop
<1>3. o + 1 \in DOMAIN file /\ Len(new) = o /\ TypeOK
  BY <1>1, NextBelow DEF CopyInv, Shape
<1>4. file[o + 1].page = file[LoadTop.at].entries[NextLink].page
  BY <1>1, NextIsChild
<1>5. LoadTop.level + 1 = D /\ D \in Levels /\ D <= Bottom
  <2>1. D \in Levels
    BY LoadChildStep
  <2> QED
    BY <1>2, <2>1, Constants
<1> DEFINE z == load'.stack
           g == z[D + 1]
<1>6. /\ TypeOK' /\ load'.offset = o + 1 /\ Len(z) = D + 1 /\ DOMAIN z = 1..(D + 1)
      /\ \A d \in 1..(D + 1) : d \in DOMAIN load.stack \/ d = D + 1
      /\ \A d \in DOMAIN load.stack : d < D + 1 /\ z[d] = load.stack[d]
      /\ g.table = M /\ g.at = o + 1 /\ g.i = 0
      /\ Len(new') = M /\ DOMAIN new' = 1..M
      /\ \A k \in 1..M : k \in DOMAIN new \/ k = M
      /\ \A k \in DOMAIN new : k \in 1..M /\ k < M /\ new'[k] = new[k]
  <2>1. Call(o + 1, D)
    BY <1>1, <1>5
  <2> QED
    BY <1>1, <1>3, <1>5, <2>1, Called
<1>7. user'[M] = [i \in Idx |-> NoTable] /\ \A k \in DOMAIN new : user'[k] = user[k]
  BY <1>1, <1>3, CalledUser
<1>8. M = o + 1 /\ o \in Nat /\ DOMAIN new = 1..o
  BY <1>2, <1>3, LoadTyped, FileTyped
<1>9. DOMAIN new \subseteq DOMAIN new'
  BY <1>6
<1>10. Idx = 0..(Width - 1) /\ 0..(0 - 1) = {}
  BY Constants
<1> HIDE DEF z, g, D, M, o
<1>11. PICK h : h = g
  OBVIOUS
<1>12. Copying(h)'
  <2>1. h.table = M /\ h.at = M /\ h.i = 0
    BY <1>6, <1>8, <1>11
  <2>2. 0..(h.i - 1) = {} /\ h.i..(Width - 1) = Idx
    BY <1>10, <2>1
  <2>3. \A i \in Idx : user'[h.at][i] = NoTable
    BY <1>7, <2>1
  <2> QED
    BY <2>1, <2>2, <2>3 DEF Copying
<1>13. ASSUME NEW d \in DOMAIN load.stack PROVE Copying(load.stack[d])'
  <2>1. PICK f : f = load.stack[d]
    OBVIOUS
  <2>2. f.at \in DOMAIN new /\ Copying(f)
    BY <1>1, <1>8, <2>1, Frames DEF o, CopyInv, CallInv
  <2>3. Copying(f)'
    BY <1>1, <1>7, <1>9, <2>2, StaysCopying
  <2> QED
    BY <1>6, <2>1, <2>3 DEF z
<1>14. Awaits(load.stack[D], h)
  <2> SUFFICES ASSUME NEW i \in LoadTop.i..(Width - 1), IsLink(LoadTop.at, i),
                      \A j \in LoadTop.i..(i - 1) : ~IsLink(LoadTop.at, j)
               PROVE  file[h.at].page = file[LoadTop.at].entries[i].page
    BY <1>2 DEF Awaits, D
  <2>1. /\ NextLink \in LoadTop.i..(Width - 1) /\ IsLink(LoadTop.at, NextLink)
        /\ NextLink <= i /\ LoadTop.i \in Nat /\ NextLink \in Nat
    <3>1. load.stack[D].i \in 0..Width /\ Width \in Nat
      BY <1>2, LoadTyped, Constants DEF Shape, D
    <3>2. \A j \in LoadTop.i..(Width - 1) : IsLink(LoadTop.at, j) => NextLink <= j
      BY <1>1, NextIsFirst
    <3>3. NextLink \in LoadTop.i..(Width - 1) /\ NextLink \in Idx /\ IsLink(LoadTop.at, NextLink)
      BY <1>1, NextIsFirst
    <3> QED
      BY <1>2, <3>1, <3>2, <3>3, Constants DEF D
  <2>2. i = NextLink
    <3>1. \A x, y \in Nat : \A u \in x..(Width - 1) : y <= u /\ y \in x..(Width - 1)
             => y = u \/ y \in x..(u - 1)
      BY Constants
    <3> QED
      BY <2>1, <3>1
  <2> QED
    BY <1>4, <1>6, <1>11, <2>2 DEF o
<1>15. \A d \in 1..(D + 1) : Copying(load.stack[d])'
  <2>1. ASSUME NEW d \in 1..(D + 1), d = D + 1 PROVE Copying(load.stack[d])'
    BY <1>11, <1>12, <2>1 DEF z, g
  <2> QED
    BY <1>6, <1>13, <2>1
<1>16. ASSUME NEW d \in 1..(D + 1), d < D + 1 PROVE Awaits(load.stack[d], load.stack[d + 1])'
  <2>1. d \in 1..D
    BY <1>2, <1>16
  <2>2. PICK f, e : f = z[d] /\ e = z[d + 1]
    OBVIOUS
  <2>3. Awaits(f, e)
    <3>1. CASE d = D
      BY <1>2, <1>6, <1>11, <1>14, <2>1, <2>2, <3>1 DEF g, D
    <3>2. CASE d # D
      <4>1. d < D /\ d + 1 \in 1..D
        BY <1>2, <2>1, <3>2
      <4>2. Awaits(load.stack[d], load.stack[d + 1])
        BY <1>2, <2>1, <4>1 DEF CopyInv, CallInv, D
      <4>3. f = load.stack[d] /\ e = load.stack[d + 1]
        BY <1>2, <1>6, <2>1, <2>2, <4>1 DEF D
      <4> QED
        BY <4>2, <4>3
    <3> QED
      BY <3>1, <3>2
  <2>4. Awaits(f, e)'
    BY <1>1, <2>3 DEF Awaits, IsLink
  <2> QED
    BY <2>2, <2>4 DEF z
<1>17. \A d \in 1..(D + 1) : ToCome(load.stack[d], d)'
  BY ChildToCome, <1>6 DEF z
<1>18. \A d \in DOMAIN load'.stack : CallInv(d)'
  BY <1>6, <1>15, <1>16, <1>17 DEF CallInv, z
<1>19. ASSUME NEW k \in DOMAIN new', ~OnStack(k)', NEW i \in Idx
       PROVE  Copied(k, i, new[k][i])'
  <2>1. ~OnStack(k) /\ k # M
    <3>1. \A d \in DOMAIN load.stack : d \in 1..(D + 1) /\ z[d] = load.stack[d]
      BY <1>2, <1>6
    <3>2. D + 1 \in 1..(D + 1) /\ z[D + 1].at = M
      BY <1>2, <1>6, <1>8 DEF g
    <3>3. DOMAIN z = 1..(D + 1) /\ \A d \in DOMAIN z : z[d].at # k
      BY <1>6, <1>19 DEF OnStack, z
    <3> QED
      BY <3>1, <3>2, <3>3 DEF OnStack
  <2>2. k \in DOMAIN new /\ new'[k] = new[k]
    BY <1>6, <1>19, <2>1
  <2>3. PICK e : e = new[k][i]
    OBVIOUS
  <2>4. Copied(k, i, e)
    BY <2>1, <2>2, <2>3 DEF CopyInv
  <2>5. Copied(k, i, e)'
    BY <1>1, <1>7, <1>9, <2>2, <2>4, StaysCopied
  <2> QED
    BY <2>2, <2>3, <2>5
<1>20. Len(new') = load'.offset
  BY <1>6, <1>8
<1> QED
  BY <1>18, <1>19, <1>20 DEF CopyInv

(* The entries of the call that returns are all copied.                    *)
LEMMA AllPassed ==
    ASSUME NEW lv, Shape(lv), ~raced, CopyInv, LoadReturn
    PROVE  LET f == load.stack[Len(load.stack)] IN
           f.table = f.at /\ f.at \in DOMAIN new /\ \A i \in Idx : Copied(f.at, i, f.buf[i])
<1> DEFINE D == Len(load.stack)
           f == load.stack[D]
<1>1. /\ load.pc = "walk" /\ NextLink = Width /\ LoadTop = f /\ D \in DOMAIN load.stack
      /\ f.table \in DOMAIN new
  BY Returned
<1>2. Copying(f)
  BY <1>1 DEF CopyInv, CallInv
<1>3. \A i \in f.i..(Width - 1) : ~IsLink(f.at, i)
  <2>1. \A i \in f.i..(Width - 1) : ~Takes(f, i)
    BY Returned
  <2> QED
    BY <1>1, <2>1, SameLevel
<1>4. /\ \A i \in f.i..(Width - 1) : i \in Idx /\ f.buf[i] = file[f.at].entries[i]
      /\ \A i \in Idx : i \in 0..(f.i - 1) \/ i \in f.i..(Width - 1)
  BY <1>1, Frames
<1> HIDE DEF f
<1>5. ASSUME NEW i \in Idx PROVE Copied(f.at, i, f.buf[i])
  <2>1. CASE i \in 0..(f.i - 1)
    BY <1>2, <2>1 DEF Copying
  <2>2. CASE i \in f.i..(Width - 1)
    BY <1>2, <1>3, <1>4, <2>2 DEF Copying, Copied
  <2> QED
    BY <1>4, <2>1, <2>2
<1>6. f.table = f.at
  BY <1>2 DEF Copying
<1> QED
  BY <1>1, <1>5, <1>6 DEF f

LEMMA CopyLast ==
    ASSUME NEW lv, Shape(lv), ~raced, CopyInv, LoadReturn, Len(load.stack) = 1
    PROVE  AllCopied'
<1>1. PICK f : f = load.stack[Len(load.stack)]
  OBVIOUS
<1>2. /\ load.pc = "walk" /\ DOMAIN load.stack = 1..1 /\ f = load.stack[1]
      /\ f.table \in DOMAIN new /\ DOMAIN new' = DOMAIN new /\ Len(new') = Len(new)
      /\ new'[f.table] = f.buf
      /\ \A k \in DOMAIN new : k # f.table => new'[k] = new[k]
      /\ Front(load.stack) = << >>
  BY <1>1, Returned
<1>3. user' = user /\ file' = file
  BY <1>2 DEF LoadReturn
<1>4. f.table = f.at /\ \A i \in Idx : Copied(f.at, i, f.buf[i])
  BY <1>1, AllPassed
<1>5. Len(new) \in DOMAIN file
  BY <1>2, OnTop DEF CopyInv
<1>6. Len(new') > 0 /\ Len(new') <= Len(file')
  BY <1>2, <1>3, <1>5, FileTyped DEF Shape
<1>7. ASSUME NEW k \in DOMAIN new', NEW i \in Idx PROVE Copied(k, i, new[k][i])'
  <2>1. PICK e : e = new'[k][i]
    OBVIOUS
  <2>2. Copied(k, i, e)
    <3>1. CASE k = f.table
      BY <1>2, <1>4, <2>1, <3>1
    <3>2. CASE k # f.table
      <4>1. ~OnStack(k)
        <5>1. 1..1 = {1}
          OBVIOUS
        <5> QED
          BY <1>2, <1>4, <3>2, <5>1 DEF OnStack
      <4> QED
        BY <1>2, <1>7, <2>1, <3>2, <4>1 DEF CopyInv
    <3> QED
      BY <3>1, <3>2
  <2>3. Copied(k, i, e)'
    BY <1>2, <1>3, <2>2, StaysCopied
  <2> QED
    BY <2>1, <2>3
<1> QED
  BY <1>6, <1>7 DEF AllCopied

LEMMA CopyReturn ==
    ASSUME NEW lv, Shape(lv), ~raced, CopyInv, LoadReturn, Len(load.stack) > 1
    PROVE  CopyInv'
<1> DEFINE n == Len(load.stack) - 1
           x == ParentLink
           z == load'.stack
<1>1. PICK f, g : f = load.stack[Len(load.stack)] /\ g = load.stack[n]
  OBVIOUS
<1>2. /\ load.pc = "walk" /\ DOMAIN load.stack = 1..Len(load.stack)
      /\ f.table \in DOMAIN new /\ DOMAIN new' = DOMAIN new /\ Len(new') = Len(new)
      /\ new'[f.table] = f.buf
      /\ \A k \in DOMAIN new : k # f.table => new'[k] = new[k]
      /\ Front(load.stack) # << >>
  BY <1>1, Returned
<1>3. /\ n \in Nat /\ n > 0 /\ Len(load.stack) = n + 1
      /\ n \in DOMAIN load.stack /\ n + 1 \in DOMAIN load.stack
      /\ \A d \in 1..n : d \in DOMAIN load.stack /\ d < n + 1
      /\ load'.pc = "walk" /\ load'.offset = load.offset
      /\ Len(z) = n /\ DOMAIN z = 1..n
      /\ \A d \in 1..n : d # n => z[d] = load.stack[d]
      /\ z[n].table = g.table /\ z[n].at = g.at
      /\ z[n].i = x + 1
      /\ \A i \in Idx : z[n].buf[i] = IF i = x THEN Pte(f.table, "replayer") ELSE g.buf[i]
      /\ file' = file
  BY <1>1, ReturnedTo
<1>4. user' = [user EXCEPT ![g.table][x] = f.table]
  BY <1>1, ReturnedTo
<1>5. /\ x \in g.i..(Width - 1) /\ x \in Idx /\ IsLink(g.at, x)
      /\ \A i \in g.i..(x - 1) : ~IsLink(g.at, i)
  <2>1. /\ x \in g.i..(Width - 1) /\ x \in Idx /\ Takes(g, x)
        /\ \A i \in g.i..(x - 1) : i \in Idx /\ i < x /\ ~Takes(g, i)
    BY <1>1, <1>2, <1>3, Following
  <2>2. \A i \in g.i..(Width - 1) : Takes(g, i) <=> IsLink(g.at, i)
    BY <1>1, <1>2, <1>3, SameLevel
  <2>3. \A i \in g.i..(x - 1) : i \in g.i..(Width - 1)
    <3>1. g.i \in Nat
      <4>1. g.i \in 0..Width
        BY <1>1, <1>2, <1>3, Frames
      <4> QED
        BY <4>1, Constants
    <3> QED
      BY <2>1, <3>1, Constants
  <2> QED
    BY <2>1, <2>2, <2>3
<1> HIDE DEF n, x, z
<1>6. /\ g.i \in Nat /\ g.table \in DOMAIN new /\ f.table \in DOMAIN new
      /\ \A i \in g.i..(Width - 1) : i \in Idx /\ g.buf[i] = file[g.at].entries[i]
      /\ g.table < f.table
      /\ \A i \in 0..(g.i - 1) : i \in Idx
  <2>1. g.i \in 0..Width
    BY <1>1, <1>2, <1>3, Frames
  <2>2. g.i \in Nat
    BY <2>1, Constants
  <2>3. n < n + 1
    BY <1>3
  <2>4. /\ g.table \in DOMAIN new
        /\ \A i \in g.i..(Width - 1) : i \in Idx /\ g.buf[i] = file[g.at].entries[i]
        /\ \A i \in 0..(g.i - 1) : i \in Idx
    BY <1>1, <1>2, <1>3, Frames
  <2>5. \A e \in DOMAIN load.stack : n < e => g.table < load.stack[e].table
    BY <1>1, <1>2, <1>3, Frames
  <2>6. g.table < f.table
    <3>1. load.stack[n + 1] = f
      BY <1>1, <1>3
    <3> QED
      BY <1>3, <2>3, <2>5, <3>1
  <2> QED
    BY <1>2, <2>2, <2>4, <2>6
<1>7. Copying(g) /\ Awaits(g, f)
  <2>1. n < Len(load.stack)
    BY <1>3
  <2> QED
    BY <1>1, <1>3, <2>1 DEF CopyInv, CallInv
<1>8. f.table = f.at /\ (\A i \in Idx : Copied(f.at, i, f.buf[i])) /\ g.table = g.at
  BY <1>1, <1>7, AllPassed DEF Copying
<1>9. file[f.at].page = file[g.at].entries[x].page
  BY <1>5, <1>7 DEF Awaits
<1>10. /\ \A k \in DOMAIN new : k # g.at => user'[k] = user[k]
       /\ user'[g.at][x] = f.at /\ \A i \in Idx : i # x => user'[g.at][i] = user[g.at][i]
  <2>1. user \in Seq([Idx -> Nat]) /\ DOMAIN user = DOMAIN new /\ user[g.at] \in [Idx -> Nat]
    BY <1>6, <1>8, LoadTyped DEF Shape
  <2>2. user \in [1..Len(user) -> [Idx -> Nat]]
    BY <2>1, LenProperties
  <2> QED
    BY <1>4, <1>5, <1>6, <1>8, <2>1, <2>2
<1>11. PICK h : h = z[n]
  OBVIOUS
<1>12. Copying(h)'
  <2>1. h.table = g.at /\ h.at = g.at /\ h.i = x + 1
        /\ \A i \in Idx : h.buf[i] = IF i = x THEN Pte(f.table, "replayer") ELSE g.buf[i]
    BY <1>3, <1>8, <1>11
  <2>2. \A i \in 0..(h.i - 1) : i = x \/ (i \in Idx /\ i # x /\ i \in 0..(g.i - 1))
                               \/ (i \in Idx /\ i # x /\ i \in g.i..(x - 1) /\ i \in g.i..(Width - 1))
    BY <1>5, <1>6, <2>1, Constants
  <2>3. ASSUME NEW i \in 0..(h.i - 1) PROVE Copied(h.at, i, h.buf[i])'
    <3>1. CASE i = x
      <4>1. IsLink(g.at, i)' /\ user'[g.at][i] = f.at /\ f.at \in DOMAIN new'
            /\ file'[f.at].page = file'[g.at].entries[i].page /\ h.buf[i] = Pte(f.at, "replayer")
        BY <1>2, <1>3, <1>5, <1>6, <1>8, <1>9, <1>10, <2>1, <3>1 DEF IsLink
      <4> QED
        BY <2>1, <4>1 DEF Copied
    <3>2. CASE i \in Idx /\ i # x /\ i \in 0..(g.i - 1)
      <4>1. Copied(g.at, i, h.buf[i])
        BY <1>7, <2>1, <3>2 DEF Copying
      <4>2. user'[g.at][i] = user[g.at][i]
        BY <1>10, <3>2
      <4> QED
        BY <1>2, <1>3, <2>1, <4>1, <4>2, StaysCopied
    <3>3. CASE i \in Idx /\ i # x /\ i \in g.i..(x - 1) /\ i \in g.i..(Width - 1)
      <4>1. ~IsLink(g.at, i) /\ user[g.at][i] = NoTable /\ h.buf[i] = file[g.at].entries[i]
        BY <1>5, <1>6, <1>7, <2>1, <3>3 DEF Copying
      <4>2. Copied(g.at, i, h.buf[i])
        BY <4>1 DEF Copied
      <4>3. user'[g.at][i] = user[g.at][i]
        BY <1>10, <3>3
      <4> QED
        BY <1>2, <1>3, <2>1, <4>2, <4>3, StaysCopied
    <3> QED
      BY <2>2, <3>1, <3>2, <3>3
  <2>4. ASSUME NEW i \in h.i..(Width - 1) PROVE user'[h.at][i] = NoTable
    <3>1. i \in g.i..(Width - 1) /\ i # x
      BY <1>5, <1>6, <2>1, Constants
    <3> QED
      BY <1>6, <1>7, <1>10, <2>1, <3>1 DEF Copying
  <2> QED
    BY <2>1, <2>3, <2>4 DEF Copying
<1>13. ASSUME NEW d \in 1..n, d # n PROVE Copying(load.stack[d])'
  <2>1. PICK b : b = load.stack[d]
    OBVIOUS
  <2>2. d \in DOMAIN load.stack /\ d < n
    BY <1>3, <1>13
  <2>3. b.table < g.table /\ b.table \in DOMAIN new /\ Copying(b)
    BY <1>1, <1>2, <1>3, <2>1, <2>2, Frames DEF CopyInv, CallInv
  <2>4. b.at \in DOMAIN new /\ b.at # g.at
    <3>1. \A k \in DOMAIN new : k \in Nat
      BY LoadTyped DEF Shape
    <3> QED
      BY <1>6, <1>8, <2>3, <3>1 DEF Copying
  <2>5. Copying(b)'
    BY <1>2, <1>3, <1>10, <2>3, <2>4, StaysCopying
  <2> QED
    BY <1>3, <1>13, <2>1, <2>5 DEF z
<1>14. ASSUME NEW d \in 1..n, d < n PROVE Awaits(load.stack[d], load.stack[d + 1])'
  <2>1. PICK b, e : b = load.stack[d] /\ e = load.stack[d + 1]
    OBVIOUS
  <2>2. d + 1 \in 1..n /\ d # n /\ d \in DOMAIN load.stack
    <3>1. n \in Nat /\ d \in 1..n /\ d < n
      BY <1>3, <1>14
    <3>2. d + 1 \in 1..n /\ d # n
      BY <3>1
    <3> QED
      BY <1>3, <3>2
  <2>3. Awaits(b, e)
    BY <1>3, <2>1, <2>2 DEF CopyInv, CallInv
  <2>4. z[d] = b /\ z[d + 1].at = e.at
    BY <1>1, <1>3, <2>1, <2>2
  <2>5. PICK w : w = z[d + 1]
    OBVIOUS
  <2>6. Awaits(b, w)'
    BY <1>3, <2>3, <2>4, <2>5 DEF Awaits, IsLink
  <2> QED
    BY <2>4, <2>5, <2>6 DEF z
<1>15. ASSUME NEW d \in 1..n PROVE ToCome(load.stack[d], d)'
  <2>1. PICK b, w : b = load.stack[d] /\ w = z[d]
    OBVIOUS
  <2>2. d \in DOMAIN load.stack /\ d < n + 1 /\ w.at = b.at
    BY <1>1, <1>3, <2>1
  <2>3. ToCome(b, d)
    BY <2>1, <2>2 DEF CopyInv, CallInv
  <2>4. ASSUME NEW j \in w.i..(Width - 1), IsLink(w.at, j),
               d < n => \E i \in w.i..(j - 1) : IsLink(w.at, i)
        PROVE  /\ j \in b.i..(Width - 1)
               /\ d < n + 1 => \E i \in b.i..(j - 1) : IsLink(b.at, i)
    <3>1. CASE d = n
      <4>1. b = g /\ w.i = x + 1
        BY <1>1, <1>3, <2>1, <3>1
      <4>2. j \in g.i..(Width - 1) /\ x \in g.i..(j - 1)
        BY <1>5, <1>6, <2>4, <4>1, Constants
      <4> QED
        BY <1>5, <4>1, <4>2
    <3>2. CASE d # n
      <4>1. w = b /\ d < n
        BY <1>3, <2>1, <2>2, <3>2
      <4> QED
        BY <2>4, <4>1
    <3> QED
      BY <3>1, <3>2
  <2>5. \A j \in w.i..(Width - 1) :
           /\ IsLink(w.at, j) /\ (d < n => \E i \in w.i..(j - 1) : IsLink(w.at, i))
           => \A p \in DOMAIN file : file[p].page = file[w.at].entries[j].page => p > load.offset
    BY <1>3, <2>2, <2>3, <2>4 DEF ToCome
  <2>6. /\ load'.stack[d] = w /\ Len(load'.stack) = n /\ file' = file /\ load'.offset = load.offset
    BY <1>3, <2>1 DEF z
  <2> QED
    BY <2>5, <2>6 DEF ToCome, IsLink
<1>16. \A d \in DOMAIN load'.stack : CallInv(d)'
  <2>1. \A d \in 1..n : Copying(load.stack[d])'
    BY <1>11, <1>12, <1>13 DEF z
  <2> QED
    BY <1>3, <1>14, <1>15, <2>1 DEF CallInv, z
<1>17. ASSUME NEW k \in DOMAIN new', ~OnStack(k)', NEW i \in Idx
       PROVE  Copied(k, i, new[k][i])'
  <2>1. PICK e : e = new'[k][i]
    OBVIOUS
  <2>2. k # g.at
    <3>1. n \in DOMAIN load'.stack /\ load'.stack[n].at = g.at
      BY <1>3 DEF z
    <3> QED
      BY <1>17, <3>1 DEF OnStack
  <2>3. Copied(k, i, e)
    <3>1. CASE k = f.at
      BY <1>2, <1>8, <2>1, <3>1
    <3>2. CASE k # f.at
      <4>1. ~OnStack(k)
        <5> SUFFICES ASSUME NEW d \in DOMAIN load.stack, load.stack[d].at = k PROVE FALSE
          BY DEF OnStack
        <5>1. d \in 1..n
          BY <1>1, <1>2, <1>3, <3>2
        <5>2. d # n
          BY <1>1, <2>2
        <5>3. d \in DOMAIN load'.stack /\ load'.stack[d].at = k
          BY <1>3, <5>1, <5>2 DEF z
        <5> QED
          BY <1>17, <5>3 DEF OnStack
      <4> QED
        BY <1>2, <1>8, <1>17, <2>1, <3>2, <4>1 DEF CopyInv
    <3> QED
      BY <3>1, <3>2
  <2>4. Copied(k, i, e)'
    BY <1>2, <1>3, <1>10, <2>2, <2>3, StaysCopied
  <2> QED
    BY <2>1, <2>4
<1> QED
  BY <1>2, <1>3, <1>16, <1>17 DEF CopyInv

LEMMA QuietLoadNext == Inv /\ QuietLoad /\ [Next]_vars => QuietLoad'
<1> SUFFICES ASSUME Inv, QuietLoad, [Next]_vars PROVE QuietLoad'
  OBVIOUS
<1>1. PICK lv : Shape(lv)
  BY DEF Inv
<1>2. dump.pc # "done" => load.pc = "no"
  BY <1>1 DEF Shape, LoadInv
<1>3. ASSUME dump.pc # "done", load' = load PROVE QuietLoad'
  BY <1>2, <1>3 DEF QuietLoad
<1>4. ASSUME NEW r \in Ranges, NEW cpu \in BOOLEAN, InsertBegin(r, cpu) PROVE QuietLoad'
  BY <1>3, <1>4 DEF InsertBegin, Driving
<1>5. ASSUME NEW a \in Addrs, CpuFault(a) \/ Teardown(a) PROVE QuietLoad'
  BY <1>3, <1>5 DEF CpuFault, Teardown, Driving
<1>6. ASSUME InsertDown \/ InsertFails \/ InsertEntries PROVE QuietLoad'
  BY <1>3, <1>6 DEF InsertDown, InsertFails, InsertEntries, Driving
<1>7. ASSUME DumpBegin \/ DumpTable \/ DumpEntry \/ DumpReturn \/ DumpEnd \/ DumpRegions
      PROVE  QuietLoad'
  BY <1>3, <1>7 DEF DumpBegin, DumpTable, DumpEntry, DumpReturn, DumpEnd, DumpRegions
<1>8. CASE LoadBegin
  <2>1. CopyInv' /\ load'.pc = "walk"
    BY <1>1, <1>8, CopyBegin DEF LoadBegin, Call, Shape, TypeOK
  <2> QED
    BY <2>1 DEF QuietLoad
<1>9. CASE LoadChild
  <2>1. load.pc = "walk" /\ raced' = raced
    BY <1>9 DEF LoadChild, drvVars
  <2>2. CASE load.offset < Len(file)
    <3>1. load'.pc = "walk"
      BY <1>1, <1>9, <2>2 DEF LoadChild, Call, Shape, TypeOK
    <3>2. ~raced => CopyInv'
      BY <1>1, <1>9, <2>1, <2>2, CopyChild DEF QuietLoad
    <3> QED
      BY <2>1, <3>1, <3>2 DEF QuietLoad
  <2>3. CASE ~(load.offset < Len(file))
    BY <1>1, <1>9, <2>3 DEF LoadChild, Shape, TypeOK, QuietLoad
  <2> QED
    BY <2>2, <2>3
<1>10. CASE LoadReturn
  <2>1. load.pc = "walk" /\ raced' = raced /\ Len(load.stack) \in Nat /\ Len(load.stack) > 0
    BY <1>1, <1>10, OnTop DEF LoadReturn, drvVars
  <2>2. CASE Len(load.stack) = 1
    <3>1. load'.pc = "regions"
      <4>1. Front(load.stack) = << >>
        BY <1>1, <1>10, <2>2, Returned
      <4> QED
        BY <1>1, <1>10, <4>1 DEF LoadReturn, Shape, TypeOK
    <3>2. ~raced => AllCopied'
      BY <1>1, <1>10, <2>1, <2>2, CopyLast DEF QuietLoad
    <3> QED
      BY <2>1, <3>1, <3>2 DEF QuietLoad
  <2>3. CASE Len(load.stack) > 1
    <3>1. load'.pc = "walk"
      BY <1>1, <1>10, <2>3, ReturnedTo
    <3>2. ~raced => CopyInv'
      BY <1>1, <1>10, <2>1, <2>3, CopyReturn DEF QuietLoad
    <3> QED
      BY <2>1, <3>1, <3>2 DEF QuietLoad
  <2>4. Len(load.stack) = 1 \/ Len(load.stack) > 1
    <3>1. \A n \in Nat : n > 0 => n = 1 \/ n > 1
      OBVIOUS
    <3> QED
      BY <2>1, <3>1
  <2> QED
    BY <2>2, <2>3, <2>4
<1>11. CASE LoadRegions
  BY <1>1, <1>11 DEF LoadRegions, QuietLoad, Shape, TypeOK
<1>12. CASE UNCHANGED vars
  <2>1. /\ load' = load /\ new' = new /\ user' = user /\ file' = file /\ raced' = raced
    BY <1>12 DEF vars, drvVars
  <2>2. \A k, i, e : Copied(k, i, e)' <=> Copied(k, i, e)
    BY <2>1 DEF Copied, IsLink
  <2>3. AllCopied => AllCopied'
    BY <2>1, <2>2 DEF AllCopied
  <2>4. \A f : Copying(f) => Copying(f)'
    BY <2>1, <2>2 DEF Copying
  <2>5. \A f, g : Awaits(f, g) => Awaits(f, g)'
    BY <2>1 DEF Awaits, IsLink
  <2>6. ASSUME NEW d, CallInv(d) PROVE CallInv(d)'
    <3>1. PICK f : f = load.stack[d]
      OBVIOUS
    <3>2. Copying(f)' /\ ToCome(f, d)'
      BY <2>1, <2>4, <2>6, <3>1 DEF CallInv, ToCome, IsLink
    <3>3. d < Len(load.stack) => Awaits(load.stack[d], load.stack[d + 1])'
      <4>1. PICK g : g = load.stack[d + 1]
        OBVIOUS
      <4> QED
        BY <2>1, <2>5, <2>6, <3>1, <4>1 DEF CallInv
    <3> QED
      BY <2>1, <3>1, <3>2, <3>3 DEF CallInv
  <2>7. CopyInv => CopyInv'
    <3> SUFFICES ASSUME CopyInv PROVE CopyInv'
      OBVIOUS
    <3>1. \A d \in DOMAIN load'.stack : CallInv(d)'
      BY <2>1, <2>6 DEF CopyInv
    <3>2. ASSUME NEW k \in DOMAIN new', ~OnStack(k)', NEW i \in Idx
          PROVE  Copied(k, i, new[k][i])'
      <4>1. Copied(k, i, new[k][i])
        <5>1. k \in DOMAIN new /\ ~OnStack(k)
          BY <2>1, <3>2 DEF OnStack
        <5> QED
          BY <5>1 DEF CopyInv
      <4> QED
        BY <2>1, <4>1 DEF Copied, IsLink
    <3> QED
      BY <2>1, <3>1, <3>2 DEF CopyInv
  <2> QED
    BY <2>1, <2>3, <2>7 DEF QuietLoad
<1> QED
  BY <1>4, <1>5, <1>6, <1>7, <1>8, <1>9, <1>10, <1>11, <1>12 DEF Next, Over

-----------------------------------------------------------------------------
(* The way to an address in the replayer's tables.                         *)

(* Each of the replayer's tables on the way is made of the driver's.       *)
SameStep(a, l) ==
    LET u == UserTable(a, l)
        t == TableAt(tables, a, l)
    IN /\ TableAt(new, a, l) = u
       /\ (u = NoTable) = (t = NoTable)
       /\ u # NoTable => u \in DOMAIN new /\ u \in DOMAIN file /\ file[u].page = t

(* The copies, as entries of the driver's tables.                          *)
LEMMA Copies ==
    ASSUME NEW lv, Shape(lv), ~raced, load.pc = "regions", AllCopied
    PROVE  /\ 1 \in DOMAIN new /\ DOMAIN new \subseteq DOMAIN file /\ NoTable \notin DOMAIN new
           /\ file[1].page = 1 /\ Closed(tables) /\ Closed(new)
           /\ \A k \in DOMAIN new : \A i \in Idx :
                LET e == tables[file[k].page][i] IN
                /\ file[k].page \in DOMAIN tables /\ user[k][i] \in DOMAIN new \cup {NoTable}
                /\ e.type = "pte" =>
                      /\ user[k][i] \in DOMAIN new /\ file[user[k][i]].page = e.page
                      /\ new[k][i].type = "pte" /\ new[k][i].page = user[k][i]
                /\ e.type # "pte" =>
                      user[k][i] = NoTable /\ new[k][i] = e
<1>1. dump.pc = "done"
  BY DEF Shape, LoadInv
<1>2. /\ Len(file) \in Nat /\ DOMAIN file = 1..Len(file) /\ file[1].page = 1
      /\ \A n \in DOMAIN file : file[n].page \in DOMAIN tables
  BY <1>1, Dumped
<1>3. Len(new) \in Nat /\ DOMAIN new = 1..Len(new)
  BY LoadTyped DEF Shape
<1>4. 1 \in DOMAIN new /\ DOMAIN new \subseteq DOMAIN file /\ NoTable \notin DOMAIN new
  BY <1>2, <1>3 DEF AllCopied, NoTable
<1>5. \A n \in DOMAIN file : file[n].entries = tables[file[n].page]
  BY <1>1 DEF Shape, QuietInv
<1>6. ASSUME NEW k \in DOMAIN new, NEW i \in Idx
      PROVE  LET e == tables[file[k].page][i] IN
                /\ file[k].page \in DOMAIN tables /\ user[k][i] \in DOMAIN new \cup {NoTable}
                /\ e.type = "pte" =>
                      /\ user[k][i] \in DOMAIN new /\ file[user[k][i]].page = e.page
                      /\ new[k][i].type = "pte" /\ new[k][i].page = user[k][i]
                /\ e.type # "pte" =>
                      user[k][i] = NoTable /\ new[k][i] = e
  <2>1. Copied(k, i, new[k][i])
    BY DEF AllCopied
  <2>2. k \in DOMAIN file /\ file[k].entries = tables[file[k].page]
    BY <1>4, <1>5
  <2>3. \A c : Pte(c, "replayer").type = "pte" /\ Pte(c, "replayer").page = c
    BY DEF Pte
  <2> QED
    BY <1>2, <2>1, <2>2, <2>3 DEF Copied, IsLink
<1>7. Closed(tables)
  BY TablesClosed
<1>8. Closed(new)
  BY <1>4, <1>6 DEF Closed
<1> QED
  BY <1>2, <1>4, <1>6, <1>7, <1>8

LEMMA SameSteps ==
    ASSUME NEW lv, Shape(lv), ~raced, load.pc = "regions", AllCopied, NEW a \in Addrs
    PROVE  \A l \in Levels : SameStep(a, l)
<1> DEFINE X == DOMAIN new \cup {NoTable}
           S == {l \in Levels : SameStep(a, l)}
<1>1. /\ 1 \in DOMAIN new /\ DOMAIN new \subseteq DOMAIN file /\ NoTable \notin DOMAIN new
      /\ file[1].page = 1 /\ Closed(tables) /\ Closed(new)
      /\ \A k \in DOMAIN new : \A i \in Idx : user[k][i] \in X
  BY Copies
<1>2. 1 \in X /\ NoTable \in X /\ X \ {NoTable} \subseteq DOMAIN new
  BY <1>1
<1>3. Bottom \in Nat /\ Levels = 0..Bottom
  BY Constants
<1>4. /\ UserTable(a, 0) = 1
      /\ \A l \in 1..Bottom : UserTable(a, l) =
                LET k == UserTable(a, l - 1) IN
                IF k = NoTable THEN NoTable ELSE user[k][Index(a, l - 1)]
  <2> HIDE DEF X
  <2>1. \A k \in X \ {NoTable} : \A i \in Idx : user[k][i] \in X
    BY <1>1, <1>2
  <2> QED
    BY <1>2, <2>1, UserWalk
<1>5. 0 \in S
  <2>1. TableAt(tables, a, 0) = 1 /\ TableAt(new, a, 0) = 1 /\ 1 # NoTable
    BY <1>1, ClosedWalk DEF NoTable
  <2> QED
    BY <1>1, <1>3, <1>4, <2>1 DEF SameStep
<1>6. ASSUME NEW n \in 0..(Bottom - 1), n \in S PROVE n + 1 \in S
  <2>1. n + 1 \in Levels /\ n \in Levels /\ n + 1 \in 1..Bottom /\ n + 1 - 1 = n
    BY <1>3
  <2> DEFINE k == UserTable(a, n)
             t == TableAt(tables, a, n)
             i == Index(a, n)
  <2>2. SameStep(a, n)
    BY <1>6
  <2>3. UserTable(a, n + 1) = IF k = NoTable THEN NoTable ELSE user[k][i]
    BY <1>4, <2>1
  <2>4. ASSUME NEW s, Closed(s)
        PROVE  /\ TableAt(s, a, n) = NoTable => TableAt(s, a, n + 1) = NoTable
               /\ TableAt(s, a, n) # NoTable => TableAt(s, a, n + 1) =
                     IF s[TableAt(s, a, n)][i].type = "pte" THEN s[TableAt(s, a, n)][i].page
                     ELSE NoTable
    BY <2>1, <2>4, ClosedWalk
  <2>5. i \in Idx
    BY <2>1, IndexInRange
  <2>6. CASE k = NoTable
    <3>1. TableAt(tables, a, n) = NoTable /\ TableAt(new, a, n) = NoTable
      BY <2>2, <2>6 DEF SameStep
    <3>2. TableAt(tables, a, n + 1) = NoTable /\ TableAt(new, a, n + 1) = NoTable
      BY <1>1, <2>4, <3>1
    <3>3. UserTable(a, n + 1) = NoTable
      BY <2>3, <2>6
    <3> QED
      BY <2>1, <3>2, <3>3 DEF SameStep
  <2>7. CASE k # NoTable
    <3>1. t # NoTable /\ TableAt(new, a, n) = k /\ k \in DOMAIN new /\ file[k].page = t
      BY <2>2, <2>7 DEF SameStep
    <3>2. /\ TableAt(tables, a, n + 1) = IF tables[t][i].type = "pte" THEN tables[t][i].page ELSE NoTable
          /\ TableAt(new, a, n + 1) = IF new[k][i].type = "pte" THEN new[k][i].page ELSE NoTable
          /\ UserTable(a, n + 1) = user[k][i]
      BY <1>1, <2>3, <2>4, <2>7, <3>1
    <3> HIDE DEF k, t, i
    <3>3. /\ tables[t][i].type = "pte" =>
                /\ user[k][i] \in DOMAIN new /\ file[user[k][i]].page = tables[t][i].page
                /\ new[k][i].type = "pte" /\ new[k][i].page = user[k][i]
          /\ tables[t][i].type # "pte" => user[k][i] = NoTable /\ new[k][i] = tables[t][i]
          /\ t \in DOMAIN tables
      BY <2>5, <3>1, Copies
    <3>4. CASE tables[t][i].type = "pte"
      <4>1. tables[t][i].page # NoTable
        BY <1>1, <2>5, <3>3, <3>4 DEF Closed
      <4>2. user[k][i] # NoTable /\ user[k][i] \in DOMAIN file
        BY <1>1, <3>3, <3>4
      <4> QED
        BY <2>1, <3>2, <3>3, <3>4, <4>1, <4>2 DEF SameStep
    <3>5. CASE tables[t][i].type # "pte"
      BY <2>1, <3>2, <3>3, <3>5 DEF SameStep
    <3> QED
      BY <3>4, <3>5
  <2> QED
    BY <2>6, <2>7
<1> HIDE DEF S
<1>7. \A n \in 0..Bottom : n \in S
  BY <1>3, <1>5, <1>6, Upwards
<1> QED
  BY <1>3, <1>7 DEF S

(* The pages that gr_mem_contents_init puts into the bottom level leave all*)
(* links.                                                                  *)
LEMMA RegionsKeepLinks ==
    ASSUME NEW lv, Shape(lv), ~raced, AllCopied, LoadRegions
    PROVE  /\ \A k \in DOMAIN new : \A i \in Idx : \A a \in Addrs :
                 /\ UserTable(a, Bottom) = k
                 => new[k][i].type # "pte" /\ new[k][i] = tables[TableAt(tables, a, Bottom)][i]
           /\ \A a \in Addrs : TableAt(new', a, Bottom) = TableAt(new, a, Bottom)
<1>1. load.pc = "regions" /\ recorded \subseteq Addrs
  BY DEF LoadRegions, Shape, TypeOK
<1>2. /\ Closed(new) /\ NoTable \notin DOMAIN new
      /\ \A k \in DOMAIN new : \A i \in Idx :
            LET e == tables[file[k].page][i] IN
            e.type # "pte" => new[k][i] = e
  BY <1>1, Copies
<1>3. Bottom \in Levels
  BY Constants
<1>4. ASSUME NEW k \in DOMAIN new, NEW i \in Idx, NEW a \in Addrs, UserTable(a, Bottom) = k
      PROVE  new[k][i].type # "pte" /\ new[k][i] = tables[TableAt(tables, a, Bottom)][i]
  <2> DEFINE t == TableAt(tables, a, Bottom)
  <2>1. SameStep(a, Bottom)
    BY <1>1, <1>3, SameSteps
  <2>2. t # NoTable /\ file[k].page = t
    BY <1>2, <1>4, <2>1 DEF SameStep
  <2>3. lv[t] = Bottom /\ t \in DOMAIN tables
    BY <1>3, <2>2, LevelOfTable, TablesClosed, ClosedWalk
  <2> HIDE DEF t
  <2>4. tables[t][i].type # "pte"
    <3> SUFFICES ASSUME tables[t][i].type = "pte" PROVE FALSE
      OBVIOUS
    <3> DEFINE c == tables[t][i].page
    <3>1. c \in DOMAIN tables /\ lv[c] = Bottom + 1 /\ lv[c] \in Levels
      BY <2>3 DEF Shape, TreeInv, Child
    <3> QED
      BY <3>1, Constants
  <2> QED
    BY <1>2, <2>2, <2>4 DEF t
<1>5. new' = [k \in DOMAIN new |-> [i \in Idx |->
                 IF \E a \in recorded : UserTable(a, Bottom) = k /\ Index(a, Bottom) = i
                 THEN Ate(CHOOSE a \in recorded : UserTable(a, Bottom) = k /\ Index(a, Bottom) = i,
                          "replayer")
                 ELSE new[k][i]]]
  BY DEF LoadRegions
<1>6. DOMAIN new' = DOMAIN new
  BY <1>5
<1>7. ASSUME NEW k \in DOMAIN new, NEW i \in Idx
      PROVE  new'[k][i] = new[k][i] \/ (new[k][i].type # "pte" /\ new'[k][i].type # "pte")
  <2>1. CASE \E a \in recorded : UserTable(a, Bottom) = k /\ Index(a, Bottom) = i
    <3>1. new[k][i].type # "pte"
      BY <1>1, <1>4, <2>1
    <3>2. \A a, m : Ate(a, m).type # "pte"
      BY DEF Ate
    <3>3. new'[k][i].type # "pte"
      BY <1>5, <2>1, <3>2
    <3> QED
      BY <3>1, <3>3
  <2>2. CASE ~\E a \in recorded : UserTable(a, Bottom) = k /\ Index(a, Bottom) = i
    BY <1>5, <2>2
  <2> QED
    BY <2>1, <2>2
<1>8. LinksStay(new, new') /\ LinksStay(new', new) /\ Closed(new')
  BY <1>2, <1>6, <1>7 DEF LinksStay, Closed
<1>9. ASSUME NEW a \in Addrs PROVE TableAt(new', a, Bottom) = TableAt(new, a, Bottom)
  <2>1. TableAt(new, a, Bottom) # NoTable => TableAt(new', a, Bottom) = TableAt(new, a, Bottom)
    BY <1>2, <1>3, <1>8, WayStays
  <2>2. TableAt(new', a, Bottom) # NoTable => TableAt(new, a, Bottom) = TableAt(new', a, Bottom)
    BY <1>2, <1>3, <1>8, WayStays
  <2> QED
    BY <2>1, <2>2
<1> QED
  BY <1>4, <1>9

LEMMA RegionsTranslate ==
    ASSUME NEW lv, Shape(lv), AllCopied, ReachInv, ~raced, LoadRegions
    PROVE  SameTranslation'
<1>1. load.pc = "regions" /\ recorded \subseteq Addrs
  BY DEF LoadRegions, Shape, TypeOK
<1>2. tables' = tables /\ recorded' = recorded /\ user' = user
  BY DEF LoadRegions, drvVars
<1>3. new' = [k \in DOMAIN new |-> [i \in Idx |->
                 IF \E a \in recorded : UserTable(a, Bottom) = k /\ Index(a, Bottom) = i
                 THEN Ate(CHOOSE a \in recorded : UserTable(a, Bottom) = k /\ Index(a, Bottom) = i,
                          "replayer")
                 ELSE new[k][i]]]
  BY DEF LoadRegions
<1>4. Bottom \in Levels /\ Levels = 0..Bottom
  BY Constants
<1>5. ASSUME NEW a \in Addrs
      PROVE  LET old == TableAt(tables, a, Bottom)
                 k == TableAt(new', a, Bottom)
             IN
             /\ k = UserTable(a, Bottom)
             /\ (k = NoTable) = (old = NoTable)
             /\ k # NoTable => new'[k][Index(a, Bottom)] =
                                  IF a \in recorded THEN Ate(a, "replayer")
                                  ELSE tables[old][Index(a, Bottom)]
  <2> DEFINE old == TableAt(tables, a, Bottom)
             k == UserTable(a, Bottom)
             i == Index(a, Bottom)
  <2>1. /\ TableAt(new, a, Bottom) = k /\ (k = NoTable) = (old = NoTable)
        /\ k # NoTable => k \in DOMAIN new /\ file[k].page = old
    BY <1>1, <1>4, SameSteps DEF SameStep
  <2>2. TableAt(new', a, Bottom) = k
    BY <2>1, RegionsKeepLinks
  <2>3. i \in Idx
    BY <1>4, IndexInRange
  <2>4. ASSUME k # NoTable, NEW b \in recorded, UserTable(b, Bottom) = k, Index(b, Bottom) = i
        PROVE  b = a
    <3>1. b \in Addrs /\ SameStep(b, Bottom)
      BY <1>1, <1>4, SameSteps
    <3>2. TableAt(tables, b, Bottom) = old /\ old # NoTable
      BY <2>1, <2>4, <3>1 DEF SameStep
    <3>3. \A l \in 0..(Bottom - 1) : Index(a, l) = Index(b, l)
      BY <3>1, <3>2, SameUpper
    <3>4. \A l \in Levels : l = Bottom \/ l \in 0..(Bottom - 1)
      BY Constants
    <3>5. \A l \in Levels : Index(a, l) = Index(b, l)
      BY <2>4, <3>3, <3>4
    <3> QED
      BY <3>1, <3>5, SameDigits
  <2>5. ASSUME k # NoTable
        PROVE  new'[k][i] = IF a \in recorded THEN Ate(a, "replayer") ELSE tables[old][i]
    <3> DEFINE B == {b \in recorded : UserTable(b, Bottom) = k /\ Index(b, Bottom) = i}
    <3>1. new'[k][i] = IF \E b \in recorded : UserTable(b, Bottom) = k /\ Index(b, Bottom) = i
                       THEN Ate(CHOOSE b \in recorded : UserTable(b, Bottom) = k
                                                        /\ Index(b, Bottom) = i, "replayer")
                       ELSE new[k][i]
      BY <1>3, <2>1, <2>3, <2>5
    <3>2. CASE a \in recorded
      <4>1. \E b \in recorded : UserTable(b, Bottom) = k /\ Index(b, Bottom) = i
        BY <3>2
      <4>2. (CHOOSE b \in recorded : UserTable(b, Bottom) = k /\ Index(b, Bottom) = i) = a
        BY <2>4, <2>5, <3>2
      <4> QED
        BY <3>1, <3>2, <4>1, <4>2
    <3>3. CASE a \notin recorded
      <4>1. ~\E b \in recorded : UserTable(b, Bottom) = k /\ Index(b, Bottom) = i
        BY <2>4, <2>5, <3>3
      <4>2. new[k][i] = tables[old][i]
        BY <2>1, <2>3, <2>5, RegionsKeepLinks
      <4> QED
        BY <3>1, <3>3, <4>1, <4>2
    <3> QED
      BY <3>2, <3>3
  <2> QED
    BY <2>1, <2>2, <2>5
<1>6. \A a \in Addrs : UserTable(a, Bottom)' = UserTable(a, Bottom)
  BY <1>2 DEF UserTable
<1>7. ASSUME NEW a \in Addrs
      PROVE  (LET old == TableAt(tables, a, Bottom)
                  k == TableAt(new, a, Bottom)
              IN
              /\ k = UserTable(a, Bottom)
              /\ (k = NoTable) = (old = NoTable)
              /\ k # NoTable => new[k][Index(a, Bottom)] =
                                   IF a \in recorded THEN Ate(a, "replayer")
                                   ELSE tables[old][Index(a, Bottom)])'
  <2>1. UserTable(a, Bottom)' = UserTable(a, Bottom)
    BY <1>6
  <2> QED
    BY <1>2, <1>5, <2>1
<1> QED
  BY <1>7, Zenon DEF SameTranslation

LEMMA SameTranslationNext ==
    Inv /\ ReachInv /\ QuietLoad /\ SameTranslation /\ [Next]_vars => SameTranslation'
<1> SUFFICES ASSUME Inv, ReachInv, QuietLoad, SameTranslation, [Next]_vars,
                    load'.pc = "done", ~raced'
             PROVE  SameTranslation'
  BY DEF SameTranslation
<1>1. PICK lv : Shape(lv)
  BY DEF Inv
<1>2. load.pc # "no" => dump.pc = "done"
  BY <1>1 DEF Shape, LoadInv
<1>3. CASE LoadRegions
  <2>1. ~raced /\ load.pc = "regions"
    BY <1>3 DEF LoadRegions, drvVars
  <2> QED
    BY <1>1, <1>3, <2>1, RegionsTranslate DEF QuietLoad
<1>4. CASE UNCHANGED vars
  <2>1. /\ tables' = tables /\ recorded' = recorded /\ user' = user /\ new' = new
        /\ load' = load /\ raced' = raced
    BY <1>4 DEF vars, drvVars
  <2>2. \A a \in Addrs : UserTable(a, Bottom)' = UserTable(a, Bottom)
    BY <2>1 DEF UserTable
  <2> QED
    BY <2>1, <2>2 DEF SameTranslation
<1>5. load.pc = "done" => dump.pc = "done"
  BY <1>2
<1>6. ASSUME NEW r \in Ranges, NEW cpu \in BOOLEAN, InsertBegin(r, cpu) PROVE FALSE
  BY <1>5, <1>6 DEF InsertBegin, Driving
<1>7. ~\E a \in Addrs : CpuFault(a) \/ Teardown(a)
  BY <1>5 DEF CpuFault, Teardown, Driving
<1>8. ~(InsertDown \/ InsertFails \/ InsertEntries)
  BY <1>5 DEF InsertDown, InsertFails, InsertEntries, Driving
<1>9. ~(DumpBegin \/ DumpTable \/ DumpEntry \/ DumpReturn \/ DumpEnd \/ DumpRegions)
  BY <1>5 DEF DumpBegin, DumpTable, DumpEntry, DumpReturn, DumpEnd, DumpRegions
<1>10. ~(LoadBegin \/ LoadChild \/ LoadReturn)
  <2>1. load \in [pc : {"no", "walk", "beyond", "regions", "done"}, stack : Seq(LoadFrame),
                  offset : Nat]
    BY <1>1 DEF Shape, TypeOK
  <2>2. ~LoadBegin
    BY <2>1 DEF LoadBegin, Call
  <2>3. ~LoadChild
    BY <2>1 DEF LoadChild, Call
  <2>4. ~LoadReturn
    BY <2>1 DEF LoadReturn
  <2> QED
    BY <2>2, <2>3, <2>4
<1> QED
  BY <1>3, <1>4, <1>6, <1>7, <1>8, <1>9, <1>10 DEF Next, Over

(* All that is known of the translations.                                  *)
WayInv == Inv /\ ReachInv /\ QuietLoad /\ SameTranslation

LEMMA WayInit == Init => WayInv
<1> SUFFICES ASSUME Init PROVE WayInv
  OBVIOUS
<1>1. QuietLoad /\ SameTranslation
  BY DEF Init, QuietLoad, SameTranslation
<1> QED
  BY <1>1, InvInit, ReachInit DEF WayInv

LEMMA WayNext == WayInv /\ [Next]_vars => WayInv'
  BY InvNext, ReachNext, QuietLoadNext, SameTranslationNext DEF WayInv

(* gr_mem_contents_init finds a table for every page of a recorded region, *)
(* if no table changed from the begin of gr_mmu_dump to the end of the     *)
(* regions' dump: unmapping and failed insertions leave the tables of the  *)
(* bottom level, and gr_construct_pgt gives the CPU's tables all links of  *)
(* the dump.                                                               *)
THEOREM RegionsHaveTables == Spec => []RegionsReachable
<1>1. WayInv => RegionsReachable
  <2> SUFFICES ASSUME WayInv, load.pc = "regions", ~raced, NEW a \in recorded
               PROVE  UserTable(a, Bottom) # NoTable
    BY DEF RegionsReachable
  <2>1. PICK lv : Shape(lv)
    BY DEF WayInv, Inv
  <2>2. a \in Addrs /\ Bottom \in Levels
    BY <2>1, Constants DEF Shape, TypeOK
  <2>3. AllCopied /\ Reached(a)
    BY DEF WayInv, QuietLoad, ReachInv
  <2>4. SameStep(a, Bottom)
    BY <2>1, <2>2, <2>3, SameSteps
  <2> QED
    BY <2>3, <2>4 DEF SameStep, Reached
<1> QED
  BY <1>1, WayInit, WayNext, PTL DEF Spec

(* The page tables that gr_construct_pgt and gr_mem_contents_init build    *)
(* translate every address as the recorded ones did, to the replayer's     *)
(* page for a recorded address, and the tables that the CPU follows are    *)
(* the GPU's.                                                              *)
THEOREM TranslatesAlike == Spec => []SameTranslation
<1>1. WayInv => SameTranslation
  BY DEF WayInv
<1> QED
  BY <1>1, WayInit, WayNext, PTL DEF Spec

-----------------------------------------------------------------------------
(* What gr_construct_pgt makes of any dump.                                *)

Open(k) == \E d \in DOMAIN load.stack : load.stack[d].table = k

(* Entry e of table k, at i, is invalid or a link that the CPU follows too.*)
Linked(k, i, e) ==
    e.type # "inval" => user[k][i] # NoTable /\ e = Pte(user[k][i], "replayer")

(* The CPU's pointers go one level down, to tables that are complete.      *)
PointsDown(lw) ==
    \A k \in DOMAIN new : \A i \in Idx :
        LET c == user[k][i] IN
        c # NoTable => c \in DOMAIN new /\ lw[c] = lw[k] + 1 /\ ~Open(c)

PointsOnce ==
    \A k, m \in DOMAIN new : \A i, j \in Idx :
        user[k][i] # NoTable /\ user[k][i] = user[m][j] => k = m /\ i = j

(* The call with frame f, at place d, has a link for each entry it passed. *)
Linking(lw, f, d) ==
    /\ f.table \in DOMAIN new /\ lw[f.table] = d - 1
    /\ \A i \in Idx : i < f.i /\ lw[f.table] < Bottom => Linked(f.table, i, f.buf[i])
    /\ \A i \in Idx : ~(i < f.i) => user[f.table][i] = NoTable

Complete(lw) ==
    \A k \in DOMAIN new : ~Open(k) /\ lw[k] < Bottom =>
        \A i \in Idx : Linked(k, i, new[k][i])

(* lw gives each table of the replayer the level of its call.              *)
Rebuilt(lw) ==
    /\ lw \in [DOMAIN new -> Levels] /\ 1 \in DOMAIN new /\ lw[1] = 0
    /\ PointsDown(lw) /\ PointsOnce /\ Complete(lw)
    /\ \A d \in DOMAIN load.stack : Linking(lw, load.stack[d], d)

SomeRebuilt == \E lw : Rebuilt(lw)

RebuiltInv == load.pc \in {"walk", "regions", "done"} => SomeRebuilt

LEMMA RebuiltBegin ==
    ASSUME NEW lv, Shape(lv), LoadBegin
    PROVE  SomeRebuilt'
<1>1. load.pc = "no" /\ dump.pc = "done" /\ Call(1, 0) /\ UNCHANGED <<drvVars, dump, file>>
  BY DEF LoadBegin
<1>2. /\ TypeOK /\ new = << >> /\ load.stack = << >> /\ Len(load.stack) = 0 /\ Len(new) = 0
      /\ 1 \in DOMAIN file /\ 0 \in Levels /\ 0 <= Bottom
  BY <1>1, Dumped, EmptySeq, Constants DEF Shape, LoadInv
<1>3. PICK f : f = load'.stack[1]
  OBVIOUS
<1>4. /\ DOMAIN load'.stack = 1..1 /\ f.table = 1 /\ f.i = 0 /\ DOMAIN new' = 1..1
  <2>1. 0 + 1 = 1
    OBVIOUS
  <2> QED
    BY <1>1, <1>2, <1>3, <2>1, Called
<1>5. user'[1] = [i \in Idx |-> NoTable]
  <2>1. user'[0 + 1] = [i \in Idx |-> NoTable] /\ 0 + 1 = 1
    BY <1>1, <1>2, CalledUser
  <2> QED
    BY <2>1
<1>6. 1..1 = {1} /\ 1 - 1 = 0 /\ \A i \in Idx : ~(i < 0)
  BY Constants
<1>7. PICK lw : lw = [k \in {1} |-> 0]
  OBVIOUS
<1>8. lw \in [DOMAIN new' -> Levels] /\ 1 \in DOMAIN new' /\ lw[1] = 0
  BY <1>2, <1>4, <1>6, <1>7
<1>9. PointsDown(lw)' /\ PointsOnce'
  BY <1>4, <1>5, <1>6 DEF PointsDown, PointsOnce
<1>10. Complete(lw)'
  BY <1>3, <1>4, <1>6 DEF Complete, Open
<1>11. Linking(lw, f, 1)'
  BY <1>4, <1>5, <1>6, <1>8 DEF Linking
<1>12. \A d \in DOMAIN load'.stack : Linking(lw, load.stack[d], d)'
  BY <1>3, <1>4, <1>6, <1>11
<1>13. Rebuilt(lw)'
  BY <1>8, <1>9, <1>10, <1>12 DEF Rebuilt
<1> QED
  BY <1>13 DEF SomeRebuilt

(* The page of a call is new, and nothing leads to it yet.                 *)
LEMMA RebuiltChild ==
    ASSUME NEW lv, Shape(lv), NEW lw, Rebuilt(lw), LoadChild, load.offset < Len(file)
    PROVE  SomeRebuilt'
<1> DEFINE D == Len(load.stack)
           M == Len(new) + 1
           z == load'.stack
<1>1. /\ D \in Levels /\ D \in Nat /\ DOMAIN load.stack = 1..D /\ DOMAIN z = 1..(D + 1)
      /\ \A d \in 1..D : z[d] = load.stack[d]
      /\ z[D + 1].table = M /\ z[D + 1].i = 0
      /\ DOMAIN new = 1..Len(new) /\ Len(new) \in Nat /\ DOMAIN new' = 1..M
      /\ \A k \in DOMAIN new : new'[k] = new[k] /\ user'[k] = user[k]
      /\ user'[M] = [i \in Idx |-> NoTable]
  BY LoadChildStep
<1>2. /\ \A k \in DOMAIN new : k # M /\ k \in DOMAIN new'
      /\ \A k \in DOMAIN new' : k \in DOMAIN new \/ k = M
      /\ M \in DOMAIN new' /\ \A i \in Idx : user'[M][i] = NoTable
  BY <1>1
<1>3. /\ \A d \in DOMAIN load.stack : d \in DOMAIN z
      /\ \A d \in DOMAIN z : d \in DOMAIN load.stack \/ d = D + 1
      /\ D + 1 \in DOMAIN z /\ D + 1 - 1 = D
  BY <1>1
<1> HIDE DEF D, M
<1>4. \A k : Open(k)' <=> Open(k) \/ k = M
  BY <1>1, <1>3 DEF Open
<1> HIDE DEF z
<1>5. PICK ln : ln = [k \in DOMAIN new' |-> IF k = M THEN D ELSE lw[k]]
  OBVIOUS
<1>6. /\ ln \in [DOMAIN new' -> Levels] /\ 1 \in DOMAIN new' /\ ln[1] = 0
      /\ ln[M] = D /\ \A k \in DOMAIN new : ln[k] = lw[k]
  BY <1>1, <1>2, <1>5 DEF Rebuilt
<1>7. PointsDown(ln)'
  <2> SUFFICES ASSUME NEW k \in DOMAIN new', NEW i \in Idx, user'[k][i] # NoTable
               PROVE  /\ user'[k][i] \in DOMAIN new' /\ ln[user'[k][i]] = ln[k] + 1
                      /\ ~Open(user[k][i])'
    BY DEF PointsDown
  <2>1. k \in DOMAIN new /\ user'[k][i] = user[k][i]
    BY <1>1, <1>2
  <2>2. PICK c : c = user[k][i]
    OBVIOUS
  <2>3. c \in DOMAIN new /\ lw[c] = lw[k] + 1 /\ ~Open(c)
    BY <2>1, <2>2 DEF Rebuilt, PointsDown
  <2>4. c \in DOMAIN new' /\ ln[c] = ln[k] + 1 /\ ~Open(c)'
    BY <1>2, <1>4, <1>6, <2>1, <2>3
  <2> QED
    BY <2>1, <2>2, <2>4
<1>8. PointsOnce'
  BY <1>1, <1>2 DEF Rebuilt, PointsOnce
<1>9. Complete(ln)'
  <2> SUFFICES ASSUME NEW k \in DOMAIN new', ~Open(k)', ln[k] < Bottom, NEW i \in Idx
               PROVE  Linked(k, i, new[k][i])'
    BY DEF Complete
  <2>1. k \in DOMAIN new /\ ~Open(k) /\ lw[k] < Bottom
    BY <1>2, <1>4, <1>6
  <2>2. Linked(k, i, new[k][i])
    BY <2>1 DEF Rebuilt, Complete
  <2> QED
    BY <1>1, <2>1, <2>2 DEF Linked
<1>10. ASSUME NEW d \in DOMAIN load.stack PROVE Linking(ln, load.stack[d], d)'
  <2>1. PICK f : f = load.stack[d]
    OBVIOUS
  <2>2. Linking(lw, f, d)
    BY <2>1 DEF Rebuilt
  <2>3. Linking(ln, f, d)'
    BY <1>1, <1>2, <1>6, <2>2 DEF Linking, Linked
  <2> QED
    BY <1>1, <2>1, <2>3 DEF z
<1>11. ASSUME NEW d, d = D + 1 PROVE Linking(ln, load.stack[d], d)'
  <2>1. PICK f : f = z[d]
    OBVIOUS
  <2>2. f.table = M /\ f.i = 0 /\ d - 1 = D /\ \A i \in Idx : ~(i < 0)
    BY <1>1, <1>3, <1>11, <2>1, Constants
  <2>3. Linking(ln, f, d)'
    BY <1>2, <1>6, <2>2 DEF Linking
  <2> QED
    BY <2>1, <2>3 DEF z
<1>12. \A d \in DOMAIN load'.stack : Linking(ln, load.stack[d], d)'
  BY <1>3, <1>10, <1>11 DEF z
<1>13. Rebuilt(ln)'
  BY <1>6, <1>7, <1>8, <1>9, <1>12 DEF Rebuilt
<1> QED
  BY <1>13 DEF SomeRebuilt

(* What the call that returns writes to its page.                          *)
LEMMA PageWritten ==
    ASSUME NEW lv, Shape(lv), NEW lw, Rebuilt(lw), LoadReturn
    PROVE  LET f == load.stack[Len(load.stack)] IN
           lw[f.table] < Bottom => \A i \in Idx : Linked(f.table, i, f.buf[i])
<1>1. PICK D, f : D = Len(load.stack) /\ f = load.stack[D]
  OBVIOUS
<1>2. /\ load.pc = "walk" /\ D \in DOMAIN load.stack
      /\ \A i \in f.i..(Width - 1) : ~Takes(f, i)
  BY <1>1, Returned
<1>3. /\ f.level = D - 1 /\ f.i \in 0..Width
      /\ \A i \in f.i..(Width - 1) : i \in Idx /\ f.buf[i] = file[f.at].entries[i]
  BY <1>1, <1>2, Frames
<1>4. Linking(lw, f, D)
  BY <1>1, <1>2 DEF Rebuilt
<1>5. ASSUME lw[f.table] < Bottom, NEW i \in Idx PROVE Linked(f.table, i, f.buf[i])
  <2>1. CASE i < f.i
    BY <1>4, <1>5, <2>1 DEF Linking
  <2>2. CASE ~(i < f.i)
    <3>1. i \in f.i..(Width - 1)
      BY <1>3, <2>2, Constants
    <3>2. f.level < Bottom
      BY <1>3, <1>4, <1>5 DEF Linking
    <3>3. f.buf[i].type = "inval"
      BY <1>2, <1>3, <3>1, <3>2 DEF Takes, Follows
    <3> QED
      BY <3>3 DEF Linked
  <2> QED
    BY <2>1, <2>2
<1> QED
  BY <1>1, <1>5

LEMMA RebuiltLast ==
    ASSUME NEW lv, Shape(lv), NEW lw, Rebuilt(lw), LoadReturn, Len(load.stack) = 1
    PROVE  SomeRebuilt'
<1>1. PICK f : f = load.stack[Len(load.stack)]
  OBVIOUS
<1>2. /\ load.pc = "walk" /\ DOMAIN load.stack = 1..1 /\ f = load.stack[1]
      /\ DOMAIN new' = DOMAIN new /\ new'[f.table] = f.buf
      /\ \A k \in DOMAIN new : k # f.table => new'[k] = new[k]
      /\ Front(load.stack) = << >> /\ 1..1 = {1} /\ TypeOK
  BY <1>1, Returned
<1>3. user' = user /\ load'.stack = << >>
  BY <1>2 DEF LoadReturn, TypeOK
<1>4. \A k : ~Open(k)'
  <2>1. DOMAIN load'.stack = {}
    BY <1>3
  <2> QED
    BY <2>1 DEF Open
<1>5. PointsDown(lw)' /\ PointsOnce'
  BY <1>2, <1>3, <1>4 DEF Rebuilt, PointsDown, PointsOnce
<1>6. Complete(lw)'
  <2> SUFFICES ASSUME NEW k \in DOMAIN new, lw[k] < Bottom, NEW i \in Idx
               PROVE  Linked(k, i, new[k][i])'
    BY <1>2 DEF Complete
  <2>1. CASE k = f.table
    <3>1. Linked(k, i, f.buf[i])
      BY <1>1, <2>1, PageWritten
    <3> QED
      BY <1>2, <1>3, <2>1, <3>1 DEF Linked
  <2>2. CASE k # f.table
    <3>1. ~Open(k)
      BY <1>2, <2>2 DEF Open
    <3>2. Linked(k, i, new[k][i])
      BY <3>1 DEF Rebuilt, Complete
    <3> QED
      BY <1>2, <1>3, <2>2, <3>2 DEF Linked
  <2> QED
    BY <2>1, <2>2
<1>7. \A d \in DOMAIN load'.stack : Linking(lw, load.stack[d], d)'
  BY <1>3
<1>8. Rebuilt(lw)'
  BY <1>2, <1>5, <1>6, <1>7 DEF Rebuilt
<1> QED
  BY <1>8 DEF SomeRebuilt

(* The caller's entry gets the page of the call that returns, to which     *)
(* nothing has led so far.                                                 *)
LEMMA RebuiltReturn ==
    ASSUME NEW lv, Shape(lv), NEW lw, Rebuilt(lw), LoadReturn, Len(load.stack) > 1
    PROVE  SomeRebuilt'
<1> DEFINE n == Len(load.stack) - 1
           x == ParentLink
           z == load'.stack
<1>1. PICK f, g : f = load.stack[Len(load.stack)] /\ g = load.stack[n]
  OBVIOUS
<1>2. /\ load.pc = "walk" /\ DOMAIN load.stack = 1..Len(load.stack)
      /\ DOMAIN new' = DOMAIN new /\ f.table \in DOMAIN new /\ new'[f.table] = f.buf
      /\ \A k \in DOMAIN new : k # f.table => new'[k] = new[k]
  BY <1>1, Returned
<1>3. /\ n \in Nat /\ n > 0 /\ Len(load.stack) = n + 1
      /\ n \in DOMAIN load.stack /\ n + 1 \in DOMAIN load.stack
      /\ \A d \in 1..n : d \in DOMAIN load.stack /\ d < n + 1
      /\ DOMAIN z = 1..n
      /\ \A d \in 1..n : d # n => z[d] = load.stack[d]
      /\ z[n].table = g.table /\ z[n].i = x + 1
      /\ \A i \in Idx : z[n].buf[i] = IF i = x THEN Pte(f.table, "replayer") ELSE g.buf[i]
      /\ user' = [user EXCEPT ![g.table][x] = f.table]
  BY <1>1, ReturnedTo
<1>4. /\ x \in g.i..(Width - 1) /\ x \in Idx
      /\ \A i \in g.i..(x - 1) : i \in Idx /\ i < x /\ ~Takes(g, i)
  BY <1>1, <1>2, <1>3, Following
<1> HIDE DEF n, x, z
<1>5. /\ g.level = n - 1 /\ g.i \in 0..Width
      /\ \A i \in g.i..(Width - 1) : g.buf[i] = file[g.at].entries[i]
      /\ \A e \in DOMAIN load.stack : n < e => g.table < load.stack[e].table
  BY <1>1, <1>2, <1>3, Frames
<1>6. Linking(lw, g, n) /\ Linking(lw, f, n + 1)
  BY <1>1, <1>3 DEF Rebuilt
<1>7. g.table \in DOMAIN new /\ lw[g.table] = n - 1 /\ lw[f.table] = n
  <2>1. ASSUME NEW b, NEW e, Linking(lw, b, e)
        PROVE  b.table \in DOMAIN new /\ lw[b.table] = e - 1
    BY <2>1 DEF Linking
  <2>2. g.table \in DOMAIN new /\ lw[g.table] = n - 1
    BY <1>6, <2>1
  <2>3. PICK e : e = n + 1
    OBVIOUS
  <2>4. Linking(lw, f, e)
    BY <1>6, <2>3
  <2>5. lw[f.table] = e - 1
    BY <2>1, <2>4
  <2>6. e - 1 = n
    BY <1>3, <2>3
  <2> QED
    BY <2>2, <2>5, <2>6
<1>8. \A k \in DOMAIN new : k \in Nat
  BY LoadTyped DEF Shape
<1>9. \A d \in 1..n : load.stack[d].table < f.table
  <2>1. ASSUME NEW d \in 1..n PROVE load.stack[d].table < f.table
    <3>1. d \in DOMAIN load.stack /\ n + 1 \in DOMAIN load.stack /\ d < n + 1
      BY <1>3
    <3>2. \A e \in DOMAIN load.stack : d < e => load.stack[d].table < load.stack[e].table
      BY <1>2, <3>1, Frames
    <3> QED
      BY <1>1, <1>3, <3>1, <3>2
  <2> QED
    BY <2>1
<1>10. ASSUME NEW d \in 1..n, d # n PROVE load.stack[d].table < g.table
  <2>1. d \in DOMAIN load.stack /\ d < n
    BY <1>3, <1>10
  <2>2. \A e \in DOMAIN load.stack : d < e => load.stack[d].table < load.stack[e].table
    BY <1>2, <2>1, Frames
  <2> QED
    BY <1>1, <1>3, <2>1, <2>2
<1>11. g.table # f.table /\ f.table # NoTable
  <2>1. n \in 1..n /\ g.table < f.table /\ f.table \in Nat /\ g.table \in Nat
    BY <1>1, <1>2, <1>3, <1>7, <1>8, <1>9
  <2>2. NoTable \notin DOMAIN new
    BY LoadTyped DEF Shape, NoTable
  <2> QED
    BY <1>2, <2>1, <2>2
<1>12. /\ \A k \in DOMAIN new : k # g.table => user'[k] = user[k]
       /\ user'[g.table][x] = f.table
       /\ \A i \in Idx : i # x => user'[g.table][i] = user[g.table][i]
  <2>1. user \in Seq([Idx -> Nat]) /\ DOMAIN user = DOMAIN new /\ user[g.table] \in [Idx -> Nat]
    BY <1>7, LoadTyped DEF Shape
  <2>2. user \in [1..Len(user) -> [Idx -> Nat]]
    BY <2>1, LenProperties
  <2> QED
    BY <1>3, <1>4, <1>7, <2>1, <2>2
<1>13. \A k \in DOMAIN new : \A i \in Idx :
          \/ k = g.table /\ i = x /\ user'[k][i] = f.table
          \/ ~(k = g.table /\ i = x) /\ user'[k][i] = user[k][i]
  BY <1>12
<1>14. \A d \in 1..n : z[d].table = load.stack[d].table
  BY <1>1, <1>3
<1>15. ~Open(f.table)' /\ \A k : Open(k)' => Open(k)
  <2>1. ~Open(f.table)'
    <3> SUFFICES ASSUME NEW d \in 1..n, z[d].table = f.table PROVE FALSE
      BY <1>3 DEF Open, z
    <3>1. load.stack[d].table = f.table /\ load.stack[d].table < f.table
      BY <1>9, <1>14
    <3> QED
      BY <1>2, <1>8, <3>1
  <2>2. \A k : Open(k)' => Open(k)
    BY <1>3, <1>14 DEF Open, z
  <2> QED
    BY <2>1, <2>2
<1>16. Open(f.table)
  BY <1>1, <1>3 DEF Open
<1>17. ASSUME NEW k \in DOMAIN new, Open(k), ~Open(k)' PROVE k = f.table
  <2>1. PICK d \in DOMAIN load.stack : load.stack[d].table = k
    BY <1>17 DEF Open
  <2>2. d \in 1..n \/ d = n + 1
    BY <1>2, <1>3
  <2>3. d \notin 1..n
    BY <1>3, <1>14, <1>17, <2>1 DEF Open, z
  <2> QED
    BY <1>1, <1>3, <2>1, <2>2, <2>3
<1>18. \A k \in DOMAIN new : \A i \in Idx : user[k][i] # f.table
  BY <1>11, <1>16 DEF Rebuilt, PointsDown
<1>19. PointsDown(lw)'
  <2> SUFFICES ASSUME NEW k \in DOMAIN new, NEW i \in Idx, user'[k][i] # NoTable
               PROVE  /\ user'[k][i] \in DOMAIN new /\ lw[user'[k][i]] = lw[k] + 1
                      /\ ~Open(user[k][i])'
    BY <1>2 DEF PointsDown
  <2>1. PICK c : c = user'[k][i]
    OBVIOUS
  <2>2. CASE k = g.table /\ i = x /\ c = f.table
    <3>1. lw[f.table] = lw[k] + 1
      BY <1>3, <1>7, <2>2
    <3> QED
      BY <1>2, <1>15, <2>1, <2>2, <3>1
  <2>3. CASE c = user[k][i]
    <3>1. c \in DOMAIN new /\ lw[c] = lw[k] + 1 /\ ~Open(c)
      BY <2>1, <2>3 DEF Rebuilt, PointsDown
    <3> QED
      BY <1>15, <2>1, <3>1
  <2> QED
    BY <1>13, <2>1, <2>2, <2>3
<1>20. PointsOnce'
  <2> SUFFICES ASSUME NEW k \in DOMAIN new, NEW m \in DOMAIN new, NEW i \in Idx, NEW j \in Idx,
                      user'[k][i] # NoTable, user'[k][i] = user'[m][j]
               PROVE  k = m /\ i = j
    BY <1>2 DEF PointsOnce
  <2>1. user[k][i] # f.table /\ user[m][j] # f.table
    BY <1>18
  <2>2. CASE k = g.table /\ i = x /\ user'[k][i] = f.table
    BY <1>13, <2>1, <2>2
  <2>3. CASE user'[k][i] = user[k][i]
    <3>1. user'[m][j] = user[m][j]
      BY <1>13, <2>1, <2>3
    <3>2. user[k][i] # NoTable /\ user[k][i] = user[m][j]
      BY <2>3, <3>1
    <3>3. \A u, v \in DOMAIN new : \A r, t \in Idx :
             user[u][r] # NoTable /\ user[u][r] = user[v][t] => u = v /\ r = t
      BY DEF Rebuilt, PointsOnce
    <3>4. user[k][i] # NoTable /\ user[k][i] = user[m][j] => k = m /\ i = j
      BY <3>3
    <3> QED
      BY <3>2, <3>4
  <2> QED
    BY <1>13, <2>2, <2>3
<1>21. Complete(lw)'
  <2> SUFFICES ASSUME NEW k \in DOMAIN new, ~Open(k)', lw[k] < Bottom, NEW i \in Idx
               PROVE  Linked(k, i, new[k][i])'
    BY <1>2 DEF Complete
  <2>1. k # g.table
    <3>1. n \in 1..n
      BY <1>3
    <3> QED
      BY <1>3, <3>1 DEF Open, z
  <2>2. user'[k] = user[k]
    BY <1>12, <2>1
  <2>3. CASE k = f.table
    <3>1. Linked(k, i, f.buf[i])
      BY <1>1, <2>3, PageWritten
    <3> QED
      BY <1>2, <2>2, <2>3, <3>1 DEF Linked
  <2>4. CASE k # f.table
    <3>1. ~Open(k)
      BY <1>17, <2>4
    <3>2. Linked(k, i, new[k][i])
      BY <3>1 DEF Rebuilt, Complete
    <3> QED
      BY <1>2, <2>2, <2>4, <3>2 DEF Linked
  <2> QED
    BY <2>3, <2>4
<1>22. PICK h : h = z[n]
  OBVIOUS
<1>23. ASSUME NEW d, d = n PROVE Linking(lw, h, d)'
  <2>1. h.table = g.table /\ h.i = x + 1
        /\ \A i \in Idx : h.buf[i] = IF i = x THEN Pte(f.table, "replayer") ELSE g.buf[i]
    BY <1>3, <1>22
  <2>2. ASSUME NEW i \in Idx, i < x + 1, lw[g.table] < Bottom
        PROVE  Linked(g.table, i, h.buf[i])'
    <3>1. CASE i = x
      BY <1>11, <1>12, <2>1, <3>1 DEF Linked
    <3>2. CASE i # x /\ i < g.i
      <4>1. Linked(g.table, i, g.buf[i])
        BY <1>6, <2>2, <3>2 DEF Linking
      <4> QED
        BY <1>12, <2>1, <3>2, <4>1 DEF Linked
    <3>3. CASE i # x /\ ~(i < g.i)
      <4>1. i \in g.i..(x - 1) /\ i \in g.i..(Width - 1)
        BY <1>4, <1>5, <2>2, <3>3, Constants
      <4>2. ~Takes(g, i) /\ g.buf[i] = file[g.at].entries[i] /\ g.level < Bottom
        BY <1>4, <1>5, <1>7, <2>2, <4>1
      <4>3. h.buf[i].type = "inval"
        BY <2>1, <3>3, <4>2 DEF Takes, Follows
      <4> QED
        BY <4>3 DEF Linked
    <3> QED
      BY <3>1, <3>2, <3>3
  <2>3. ASSUME NEW i \in Idx, ~(i < x + 1) PROVE user'[g.table][i] = NoTable
    <3>1. i # x /\ ~(i < g.i)
      BY <1>4, <1>5, <2>3, Constants
    <3> QED
      BY <1>6, <1>12, <3>1 DEF Linking
  <2>4. /\ h.table \in DOMAIN new' /\ lw[h.table] = d - 1
        /\ \A i \in Idx : i < h.i /\ lw[h.table] < Bottom => Linked(h.table, i, h.buf[i])'
        /\ \A i \in Idx : ~(i < h.i) => user'[h.table][i] = NoTable
    BY <1>2, <1>7, <1>23, <2>1, <2>2, <2>3
  <2> QED
    BY <2>4 DEF Linking
<1>24. ASSUME NEW d \in 1..n PROVE Linking(lw, load.stack[d], d)'
  <2>1. CASE d = n
    BY <1>22, <1>23, <2>1 DEF z
  <2>2. CASE d # n
    <3>1. PICK b : b = load.stack[d]
      OBVIOUS
    <3>2. Linking(lw, b, d) /\ b.table < g.table
      BY <1>3, <1>10, <2>2, <3>1 DEF Rebuilt
    <3>3. b.table \in DOMAIN new /\ b.table # g.table
      BY <1>7, <1>8, <3>2 DEF Linking
    <3>4. user'[b.table] = user[b.table]
      BY <1>12, <3>3
    <3>5. Linking(lw, b, d)'
      BY <1>2, <3>2, <3>4 DEF Linking, Linked
    <3> QED
      BY <1>3, <2>2, <3>1, <3>5 DEF z
  <2> QED
    BY <2>1, <2>2
<1>25. \A d \in DOMAIN load'.stack : Linking(lw, load.stack[d], d)'
  BY <1>3, <1>24 DEF z
<1>26. Rebuilt(lw)'
  BY <1>2, <1>19, <1>20, <1>21, <1>25 DEF Rebuilt
<1> QED
  BY <1>26 DEF SomeRebuilt

(* The CPU's pointers lead to tables of the level that is asked for.       *)
LEMMA UserLevel ==
    ASSUME NEW lv, Shape(lv), NEW lw, Rebuilt(lw), NEW a \in Addrs, NEW l \in Levels
    PROVE  UserTable(a, l) # NoTable =>
              UserTable(a, l) \in DOMAIN new /\ lw[UserTable(a, l)] = l
<1> DEFINE X == DOMAIN new \cup {NoTable}
           S == {m \in Levels : UserTable(a, m) # NoTable =>
                    UserTable(a, m) \in DOMAIN new /\ lw[UserTable(a, m)] = m}
<1>1. Bottom \in Nat /\ Levels = 0..Bottom
  BY Constants
<1>2. \A k \in DOMAIN new : \A i \in Idx : user[k][i] \in X
  BY DEF Rebuilt, PointsDown
<1>3. 1 \in X /\ NoTable \in X /\ \A k \in X \ {NoTable} : k \in DOMAIN new
  BY DEF Rebuilt
<1>4. /\ UserTable(a, 0) = 1
      /\ \A m \in 1..Bottom : UserTable(a, m) =
            LET k == UserTable(a, m - 1) IN
            IF k = NoTable THEN NoTable ELSE user[k][Index(a, m - 1)]
  <2> HIDE DEF X
  <2>1. \A k \in X \ {NoTable} : \A i \in Idx : user[k][i] \in X
    BY <1>2, <1>3
  <2> QED
    BY <1>3, <2>1, UserWalk
<1>5. 0 \in S
  BY <1>1, <1>4 DEF Rebuilt
<1>6. ASSUME NEW n \in 0..(Bottom - 1), n \in S PROVE n + 1 \in S
  <2>1. n + 1 \in Levels /\ n \in Levels /\ n + 1 \in 1..Bottom /\ n + 1 - 1 = n
    BY <1>1
  <2>2. PICK k, c : k = UserTable(a, n) /\ c = UserTable(a, n + 1)
    OBVIOUS
  <2>3. c = IF k = NoTable THEN NoTable ELSE user[k][Index(a, n)]
    BY <1>4, <2>1, <2>2
  <2>4. k # NoTable => k \in DOMAIN new /\ lw[k] = n
    BY <1>6, <2>2
  <2>5. Index(a, n) \in Idx
    BY <2>1, IndexInRange
  <2>6. c # NoTable => c \in DOMAIN new /\ lw[c] = n + 1
    <3> SUFFICES ASSUME c # NoTable PROVE c \in DOMAIN new /\ lw[c] = n + 1
      OBVIOUS
    <3>1. k \in DOMAIN new /\ lw[k] = n /\ c = user[k][Index(a, n)]
      BY <2>3, <2>4
    <3> QED
      BY <2>5, <3>1 DEF Rebuilt, PointsDown
  <2> QED
    BY <2>1, <2>2, <2>6
<1> HIDE DEF S
<1>7. \A m \in 0..Bottom : m \in S
  BY <1>1, <1>5, <1>6, Upwards
<1> QED
  BY <1>1, <1>7 DEF S

(* gr_mem_contents_init writes to the bottom level alone.                  *)
LEMMA RebuiltRegions ==
    ASSUME NEW lv, Shape(lv), NEW lw, Rebuilt(lw), LoadRegions
    PROVE  SomeRebuilt'
<1> DEFINE P(k, i) == \E a \in recorded : UserTable(a, Bottom) = k /\ Index(a, Bottom) = i
           A(k, i) == CHOOSE a \in recorded : UserTable(a, Bottom) = k /\ Index(a, Bottom) = i
<1>1. /\ load.pc = "regions" /\ load' = [load EXCEPT !.pc = "done"] /\ user' = user
      /\ new' = [k \in DOMAIN new |-> [i \in Idx |->
                   IF P(k, i) THEN Ate(A(k, i), "replayer") ELSE new[k][i]]]
  BY DEF LoadRegions
<1>2. TypeOK /\ recorded \subseteq Addrs /\ Bottom \in Levels
  <2>1. TypeOK /\ Bottom \in Levels
    BY Constants DEF Shape
  <2> QED
    BY <2>1 DEF TypeOK
<1>3. load'.stack = load.stack
  BY <1>1, <1>2 DEF TypeOK
<1>4. \A k : Open(k)' <=> Open(k)
  BY <1>3 DEF Open
<1>5. \A k \in DOMAIN new : \A i \in Idx : P(k, i) => lw[k] = Bottom
  <2>1. NoTable \notin DOMAIN new
    BY <1>2, LoadTyped DEF NoTable
  <2> QED
    BY <1>2, <2>1, UserLevel
<1> HIDE DEF P, A
<1>6. DOMAIN new' = DOMAIN new
  BY <1>1
<1>7. PointsDown(lw)' /\ PointsOnce'
  BY <1>1, <1>4, <1>6 DEF Rebuilt, PointsDown, PointsOnce
<1>8. Complete(lw)'
  <2> SUFFICES ASSUME NEW k \in DOMAIN new, ~Open(k), lw[k] < Bottom, NEW i \in Idx
               PROVE  Linked(k, i, new[k][i])'
    BY <1>4, <1>6 DEF Complete
  <2>1. ~P(k, i)
    BY <1>5, Constants
  <2>2. new'[k][i] = new[k][i]
    BY <1>1, <2>1
  <2>3. Linked(k, i, new[k][i])
    BY DEF Rebuilt, Complete
  <2> QED
    BY <1>1, <2>2, <2>3 DEF Linked
<1>9. ASSUME NEW d \in DOMAIN load.stack PROVE Linking(lw, load.stack[d], d)'
  <2>1. PICK f : f = load.stack[d]
    OBVIOUS
  <2>2. Linking(lw, f, d)
    BY <2>1 DEF Rebuilt
  <2>3. Linking(lw, f, d)'
    BY <1>1, <1>6, <2>2 DEF Linking, Linked
  <2> QED
    BY <1>3, <2>1, <2>3
<1>10. Rebuilt(lw)'
  BY <1>3, <1>6, <1>7, <1>8, <1>9 DEF Rebuilt
<1> QED
  BY <1>10 DEF SomeRebuilt

LEMMA RebuiltStutter ==
    ASSUME NEW lw, Rebuilt(lw), UNCHANGED vars
    PROVE  SomeRebuilt'
<1>1. load' = load /\ new' = new /\ user' = user
  BY DEF vars
<1>2. \A k, i, e : Linked(k, i, e)' <=> Linked(k, i, e)
  BY <1>1 DEF Linked
<1>3. \A k : Open(k)' <=> Open(k)
  BY <1>1 DEF Open
<1>4. PointsDown(lw)' /\ PointsOnce'
  BY <1>1, <1>3 DEF Rebuilt, PointsDown, PointsOnce
<1>5. Complete(lw)'
  BY <1>1, <1>3 DEF Rebuilt, Complete, Linked
<1>6. ASSUME NEW d \in DOMAIN load.stack PROVE Linking(lw, load.stack[d], d)'
  <2>1. PICK f : f = load.stack[d]
    OBVIOUS
  <2>2. Linking(lw, f, d)
    BY <2>1 DEF Rebuilt
  <2>3. Linking(lw, f, d)'
    BY <1>1, <2>2 DEF Linking, Linked
  <2> QED
    BY <1>1, <2>1, <2>3
<1>7. Rebuilt(lw)'
  BY <1>1, <1>4, <1>5, <1>6 DEF Rebuilt
<1> QED
  BY <1>7 DEF SomeRebuilt

LEMMA RebuiltNext == Inv /\ RebuiltInv /\ [Next]_vars => RebuiltInv'
<1> SUFFICES ASSUME Inv, RebuiltInv, [Next]_vars PROVE RebuiltInv'
  OBVIOUS
<1>1. PICK lv : Shape(lv)
  BY DEF Inv
<1>2. dump.pc # "done" => load.pc = "no"
  BY <1>1 DEF Shape, LoadInv
<1>3. ASSUME dump.pc # "done", load' = load PROVE RebuiltInv'
  BY <1>2, <1>3 DEF RebuiltInv
<1>4. ASSUME NEW r \in Ranges, NEW cpu \in BOOLEAN, InsertBegin(r, cpu) PROVE RebuiltInv'
  BY <1>3, <1>4 DEF InsertBegin, Driving
<1>5. ASSUME NEW a \in Addrs, CpuFault(a) \/ Teardown(a) PROVE RebuiltInv'
  BY <1>3, <1>5 DEF CpuFault, Teardown, Driving
<1>6. ASSUME InsertDown \/ InsertFails \/ InsertEntries PROVE RebuiltInv'
  BY <1>3, <1>6 DEF InsertDown, InsertFails, InsertEntries, Driving
<1>7. ASSUME DumpBegin \/ DumpTable \/ DumpEntry \/ DumpReturn \/ DumpEnd \/ DumpRegions
      PROVE  RebuiltInv'
  BY <1>3, <1>7 DEF DumpBegin, DumpTable, DumpEntry, DumpReturn, DumpEnd, DumpRegions
<1>8. CASE LoadBegin
  BY <1>1, <1>8, RebuiltBegin DEF RebuiltInv
<1>9. ASSUME load.pc \in {"walk", "regions", "done"} PROVE \E lw : Rebuilt(lw)
  BY <1>9 DEF RebuiltInv, SomeRebuilt
<1>10. CASE LoadChild
  <2>1. PICK lw : Rebuilt(lw)
    BY <1>9, <1>10 DEF LoadChild
  <2>2. CASE load.offset < Len(file)
    BY <1>1, <1>10, <2>1, <2>2, RebuiltChild DEF RebuiltInv
  <2>3. CASE ~(load.offset < Len(file))
    BY <1>1, <1>10, <2>3, BeyondStep DEF RebuiltInv
  <2> QED
    BY <2>2, <2>3
<1>11. CASE LoadReturn
  <2>1. PICK lw : Rebuilt(lw)
    BY <1>9, <1>11 DEF LoadReturn
  <2>2. Len(load.stack) \in Nat /\ Len(load.stack) > 0
    BY <1>1, <1>11, OnTop DEF LoadReturn
  <2>3. CASE Len(load.stack) = 1
    BY <1>1, <1>11, <2>1, <2>3, RebuiltLast DEF RebuiltInv
  <2>4. CASE Len(load.stack) > 1
    BY <1>1, <1>11, <2>1, <2>4, RebuiltReturn DEF RebuiltInv
  <2>5. Len(load.stack) = 1 \/ Len(load.stack) > 1
    <3>1. \A n \in Nat : n > 0 => n = 1 \/ n > 1
      OBVIOUS
    <3> QED
      BY <2>2, <3>1
  <2> QED
    BY <2>3, <2>4, <2>5
<1>12. CASE LoadRegions
  <2>1. PICK lw : Rebuilt(lw)
    BY <1>9, <1>12 DEF LoadRegions
  <2> QED
    BY <1>1, <1>12, <2>1, RebuiltRegions DEF RebuiltInv
<1>13. CASE UNCHANGED vars
  <2>1. load' = load
    BY <1>13 DEF vars
  <2>2. ASSUME load.pc \in {"walk", "regions", "done"} PROVE SomeRebuilt'
    <3>1. PICK lw : Rebuilt(lw)
      BY <1>9, <2>2
    <3> QED
      BY <1>13, <3>1, RebuiltStutter
  <2> QED
    BY <2>1, <2>2 DEF RebuiltInv
<1> QED
  BY <1>4, <1>5, <1>6, <1>7, <1>8, <1>10, <1>11, <1>12, <1>13 DEF Next, Over

LEMMA RebuiltTree ==
    ASSUME NEW lv, Shape(lv), NEW lw, Rebuilt(lw), load.pc \in {"regions", "done"}
    PROVE  TablesAreTree
<1>1. \A k : ~Open(k)
  <2>1. DOMAIN load.stack = {}
    BY DEF Shape, LoadInv
  <2> QED
    BY <2>1 DEF Open
<1>2. DOMAIN new = 1..Len(new) /\ Len(new) \in Nat
  BY LoadTyped DEF Shape
<1>3. ASSUME NEW l \in Links
      PROVE  LET k == l[1]
                 i == l[2]
                 c == user[l[1]][l[2]]
             IN /\ k \in DOMAIN new /\ i \in Idx /\ l = <<k, i>>
                /\ new[k][i] = Pte(c, "replayer") /\ c # NoTable /\ c \in 2..Len(new)
  <2>1. PICK k, i : k = l[1] /\ i = l[2]
    OBVIOUS
  <2>2. k \in UpperTables /\ i \in Idx /\ l = <<k, i>> /\ new[k][i].type # "inval"
    BY <2>1 DEF Links
  <2>3. PICK a \in Addrs, v \in 0..(Bottom - 1) : k = UserTable(a, v)
    BY <2>2 DEF UpperTables
  <2>4. v \in Levels /\ v < Bottom /\ v \in Nat
    BY Constants
  <2>5. k \in DOMAIN new /\ lw[k] = v
    BY <2>2, <2>3, <2>4, UserLevel DEF UpperTables
  <2>6. Linked(k, i, new[k][i])
    BY <1>1, <2>2, <2>4, <2>5 DEF Rebuilt, Complete
  <2>7. PICK c : c = user[k][i]
    OBVIOUS
  <2>8. c # NoTable /\ new[k][i] = Pte(c, "replayer")
    BY <2>2, <2>6, <2>7 DEF Linked
  <2>9. c \in DOMAIN new /\ lw[c] = v + 1
    BY <2>2, <2>5, <2>7, <2>8 DEF Rebuilt, PointsDown
  <2>10. c # 1
    BY <2>4, <2>9 DEF Rebuilt
  <2>11. c \in 2..Len(new)
    BY <1>2, <2>9, <2>10
  <2> QED
    BY <2>1, <2>2, <2>5, <2>7, <2>8, <2>11
<1>4. \A c : Pte(c, "replayer").of = "replayer" /\ Pte(c, "replayer").page = c
  BY DEF Pte
<1>5. ASSUME NEW l \in Links, NEW m \in Links
      PROVE  LET e == new[l[1]][l[2]] IN
             /\ e.of = "replayer" /\ e.page \in 2..Len(new) /\ e.page = user[l[1]][l[2]]
             /\ e.page = new[m[1]][m[2]].page => l = m
  <2>1. PICK k, i, c : k = l[1] /\ i = l[2] /\ c = user[k][i]
    OBVIOUS
  <2>2. PICK p, j, b : p = m[1] /\ j = m[2] /\ b = user[p][j]
    OBVIOUS
  <2>3. /\ k \in DOMAIN new /\ i \in Idx /\ l = <<k, i>> /\ new[k][i] = Pte(c, "replayer")
        /\ c # NoTable /\ c \in 2..Len(new)
    BY <1>3, <2>1
  <2>4. /\ p \in DOMAIN new /\ j \in Idx /\ m = <<p, j>> /\ new[p][j] = Pte(b, "replayer")
    BY <1>3, <2>2
  <2>5. c = b => k = p /\ i = j
    BY <2>1, <2>2, <2>3, <2>4 DEF Rebuilt, PointsOnce
  <2> QED
    BY <1>4, <2>1, <2>2, <2>3, <2>4, <2>5
<1> QED
  BY <1>5, Zenon DEF TablesAreTree

(* Whatever the driver has changed while its tables were dumped, what      *)
(* gr_construct_pgt builds is a tree of the replayer's own pages: each     *)
(* entry above the bottom level that is not invalid leads to a page of its *)
(* own, which the CPU's pointer finds too, even if it was a page of the    *)
(* recorded machine in the file.                                           *)
THEOREM RebuiltIsTree == Spec => []TablesAreTree
<1>1. Init => RebuiltInv
  BY DEF Init, RebuiltInv
<1>2. Inv /\ RebuiltInv => TablesAreTree
  <2> SUFFICES ASSUME Inv, RebuiltInv, load.pc \in {"regions", "done"} PROVE TablesAreTree
    BY DEF TablesAreTree
  <2>1. PICK lv : Shape(lv)
    BY DEF Inv
  <2>2. PICK lw : Rebuilt(lw)
    BY DEF RebuiltInv, SomeRebuilt
  <2> QED
    BY <2>1, <2>2, RebuiltTree
<1> QED
  BY <1>1, <1>2, InvInit, InvNext, RebuiltNext, PTL DEF Spec
=============================================================================

------------------------- MODULE MemContentsProof -------------------------
(***************************************************************************)
(* What MemContents promises, for any dump, any number of regions and any  *)
(* order of replays, copies and restores.                                  *)
(***************************************************************************)
EXTENDS MemContents, SequenceTheorems, WellFoundedInduction, TLAPS

-----------------------------------------------------------------------------
(* Smallest and largest members of sets of numbers.                        *)

(* Numbers are well-founded, without naming the relation.                  *)
LEMMA LessWellFounded ==
    \E R : IsWellFoundedOn(R, Nat) /\ \A k, m \in Nat : k < m => <<k, m>> \in R
<1>1. \A k, m \in Nat : k < m => <<k, m>> \in OpToRel(<, Nat)
  BY DEF OpToRel
<1> QED
  BY <1>1, NatLessThanWellFounded, Zenon

(* A set of numbers that is not empty has a smallest member.               *)
LEMMA Smallest ==
    ASSUME NEW S, S \subseteq Nat, S # {}
    PROVE  \E m \in S : \A k \in S : m <= k
<1>1. PICK R : IsWellFoundedOn(R, Nat) /\ \A k, m \in Nat : k < m => <<k, m>> \in R
  BY LessWellFounded, Zenon
<1>2. IsWellFoundedOn(R, Nat)
  BY <1>1
<1>3. PICK m \in S : \A k \in S : ~(<<k, m>> \in R)
  <2>1. S \subseteq Nat /\ S # {}
    OBVIOUS
  <2> QED
    BY <1>2, <2>1, WFMin, Zenon
<1>4. \A k \in S : ~(k < m)
  BY <1>1, <1>3
<1> QED
  BY <1>4

(* A bounded one has a largest.                                            *)
LEMMA Largest ==
    ASSUME NEW S, NEW n \in Nat, S \subseteq 0..n, S # {}
    PROVE  \E m \in S : \A k \in S : k <= m
<1> DEFINE T == {k \in 0..n : n - k \in S}
<1>1. T \subseteq Nat /\ T # {}
  <2>1. PICK s : s \in S
    OBVIOUS
  <2>2. n - s \in T
    BY <2>1
  <2> QED
    BY <2>2
<1>2. PICK t \in T : \A u \in T : t <= u
  BY <1>1, Smallest
<1>3. n - t \in S
  OBVIOUS
<1>4. ASSUME NEW k \in S PROVE k <= n - t
  <2>1. k \in 0..n /\ n - k \in 0..n /\ n - (n - k) = k
    OBVIOUS
  <2>2. n - k \in T
    BY <2>1
  <2>3. t <= n - k /\ t \in 0..n
    BY <2>2, <1>2
  <2> QED
    BY <2>1, <2>3
<1> QED
  BY <1>3, <1>4

-----------------------------------------------------------------------------
(* The headers of the file and the regions made from them.                 *)

(* Each header, also the one that is used again at the end of the file, is *)
(* a region whose pages have addresses and, if valid, contents.            *)
LEMMA HeaderFacts ==
    ASSUME dump \in Dumps, NEW g \in Nat, g > 0
    PROVE  /\ Len(dump) \in Nat /\ Len(dump) > 0
           /\ HeaderAt(g) \in Region
           /\ g <= Len(dump) => HeaderAt(g) = dump[g]
           /\ g > Len(dump) => HeaderAt(g) = dump[Len(dump)]
           /\ \A k \in 1..HeaderAt(g).nents : k <= HeaderAt(g).end - HeaderAt(g).start =>
                 /\ HeaderAt(g).start + (k - 1) \in Vpns
                 /\ HeaderAt(g).valid =>
                       /\ k <= Len(HeaderAt(g).data)
                       /\ HeaderAt(g).data[k] \in Content
<1>1. dump \in Seq(Region) /\ dump # << >> /\ WellFormed(dump) /\ Vpns \subseteq Nat
  BY DumpsAssumption
<1>2. Len(dump) \in Nat /\ Len(dump) > 0
  BY <1>1, LenProperties, EmptySeq
<1> DEFINE i == IF g > Len(dump) THEN Len(dump) ELSE g
<1>3. i \in 1..Len(dump)
  BY <1>2
<1>4. HeaderAt(g) = dump[i] /\ dump[i] \in Region
  BY <1>1, <1>3, ElementOfSeq DEF HeaderAt
<1> HIDE DEF i
<1>5. ASSUME NEW k \in 1..dump[i].nents, k <= dump[i].end - dump[i].start
      PROVE  /\ dump[i].start + (k - 1) \in Vpns
             /\ dump[i].valid => k <= Len(dump[i].data) /\ dump[i].data[k] \in Content
  <2>1. /\ dump[i].start \in Nat /\ dump[i].end \in Nat /\ dump[i].nents \in Nat
        /\ dump[i].data \in Seq(Content)
    BY <1>1, <1>4 DEF Region
  <2>2. dump[i].start + (k - 1) \in dump[i].start..(dump[i].end - 1)
    BY <1>5, <2>1
  <2>3. dump[i].start + (k - 1) < dump[i].start + dump[i].nents
    BY <1>5, <2>1
  <2>4. dump[i].start + (k - 1) \in Vpns
    BY <1>1, <1>3, <2>2, <2>3 DEF WellFormed
  <2>5. dump[i].valid => k <= Len(dump[i].data)
    BY <1>1, <1>3, <1>5 DEF WellFormed
  <2>6. dump[i].valid => dump[i].data[k] \in Content
    BY <2>1, <2>5, ElementOfSeq
  <2> QED
    BY <2>4, <2>5, <2>6
<1>6. (g <= Len(dump) => i = g) /\ (g > Len(dump) => i = Len(dump))
  BY <1>2 DEF i
<1> QED
  BY <1>2, <1>4, <1>5, <1>6

(* A new region has its header's fields and the pages after the first n.   *)
LEMMA NewRegionFacts ==
    ASSUME NEW r \in Region, NEW n \in Nat
    PROVE  /\ NewRegion(r, n).start = r.start /\ NewRegion(r, n).end = r.end
           /\ NewRegion(r, n).nents = r.nents /\ NewRegion(r, n).valid = r.valid
           /\ r.nents \in Nat
           /\ DOMAIN NewRegion(r, n).pages = 1..r.nents
           /\ Len(NewRegion(r, n).pages) = r.nents
           /\ \A k \in 1..r.nents : NewRegion(r, n).pages[k] = n + k
<1>1. r.nents \in Nat
  BY DEF Region
<1> DEFINE pages == [k \in 1..r.nents |-> n + k]
<1>2. pages \in [1..r.nents -> Nat]
  BY <1>1
<1>3. pages \in Seq(Nat)
  BY <1>1, <1>2, SeqDef
<1>4. DOMAIN pages = 1..Len(pages) /\ Len(pages) \in Nat
  BY <1>3, LenProperties
<1>5. Len(pages) = r.nents
  BY <1>1, <1>4
<1> QED
  BY <1>1, <1>5 DEF NewRegion

(* gm_region[] is a list of regions made from headers.                     *)
Listed == gmRegion \in Seq({NewRegion(r, n) : r \in Region, n \in Nat})

(* What is preserved first: types, and which pages the regions have.       *)
Tables == TypeOK /\ Listed /\ RegionsInv /\ PagesInv

(* A region that was read, seen through the list.                          *)
LEMMA RegionFacts ==
    ASSUME TypeOK, RegionsInv, NEW g \in 1..cur
    PROVE  /\ HeaderAt(g) \in Region
           /\ gmRegion[g].start = HeaderAt(g).start /\ gmRegion[g].end = HeaderAt(g).end
           /\ gmRegion[g].nents = HeaderAt(g).nents /\ gmRegion[g].valid = HeaderAt(g).valid
           /\ gmRegion[g].start \in Nat /\ gmRegion[g].end \in Nat /\ gmRegion[g].nents \in Nat
           /\ DOMAIN gmRegion[g].pages = 1..gmRegion[g].nents
           /\ Len(gmRegion[g].pages) = gmRegion[g].nents
           /\ \A k \in 1..gmRegion[g].nents : gmRegion[g].pages[k] \in 1..Len(mem)
           /\ \A k, l \in 1..gmRegion[g].nents :
                 gmRegion[g].pages[k] = gmRegion[g].pages[l] => k = l
<1>1. g \in Nat /\ g > 0 /\ Len(mem) \in Nat
  BY LenProperties DEF TypeOK
<1>2. HeaderAt(g) \in Region
  BY <1>1, HeaderFacts DEF TypeOK
<1>3. PICK n \in 0..Len(mem) :
         n + HeaderAt(g).nents <= Len(mem) /\ gmRegion[g] = NewRegion(HeaderAt(g), n)
  BY DEF RegionsInv
<1>4. /\ HeaderAt(g).start \in Nat /\ HeaderAt(g).end \in Nat /\ HeaderAt(g).nents \in Nat
  BY <1>2, DumpsAssumption DEF Region
<1>5. n \in Nat
  BY <1>1
<1> DEFINE r == HeaderAt(g)
           q == gmRegion[g]
<1>6. /\ q.start = r.start /\ q.end = r.end /\ q.nents = r.nents /\ q.valid = r.valid
      /\ DOMAIN q.pages = 1..r.nents /\ Len(q.pages) = r.nents
      /\ \A k \in 1..r.nents : q.pages[k] = n + k
  BY <1>2, <1>3, <1>5, NewRegionFacts
<1> HIDE DEF r, q
<1>7. \A k \in 1..r.nents : q.pages[k] \in 1..Len(mem)
  BY <1>1, <1>3, <1>4, <1>5, <1>6, SMTT(30) DEF r
<1>8. \A k, l \in 1..r.nents : q.pages[k] = q.pages[l] => k = l
  BY <1>4, <1>5, <1>6 DEF r
<1> QED
  BY <1>2, <1>4, <1>6, <1>7, <1>8 DEF r, q

(* No page belongs to two places.                                          *)
LEMMA OnePlace ==
    ASSUME TypeOK, RegionsInv, NEW g \in 1..cur, NEW h \in 1..cur,
           NEW k \in 1..gmRegion[g].nents, NEW l \in 1..gmRegion[h].nents,
           gmRegion[g].pages[k] = gmRegion[h].pages[l]
    PROVE  g = h /\ k = l
<1>1. /\ DOMAIN gmRegion[g].pages = 1..gmRegion[g].nents
      /\ DOMAIN gmRegion[h].pages = 1..gmRegion[h].nents
      /\ gmRegion[g].pages[k] \in Nat /\ gmRegion[h].pages[l] \in Nat
  BY RegionFacts
<1>2. \A i, j \in 1..cur : i < j =>
         \A a \in DOMAIN gmRegion[i].pages : \A b \in DOMAIN gmRegion[j].pages :
             gmRegion[i].pages[a] < gmRegion[j].pages[b]
  BY DEF RegionsInv
<1>3. ASSUME g < h PROVE FALSE
  <2>1. gmRegion[g].pages[k] < gmRegion[h].pages[l]
    BY <1>1, <1>2, <1>3
  <2> QED
    BY <1>1, <2>1
<1>4. ASSUME h < g PROVE FALSE
  <2>1. gmRegion[h].pages[l] < gmRegion[g].pages[k]
    BY <1>1, <1>2, <1>4
  <2> QED
    BY <1>1, <2>1
<1>5. g = h
  BY <1>3, <1>4
<1> QED
  BY <1>5, RegionFacts

(* A page of the list is where its address says.                           *)
LEMMA BackedFacts ==
    ASSUME TypeOK, RegionsInv, NEW g \in 1..cur, NEW v \in Backed(gmRegion[g])
    PROVE  /\ v \in Vpns /\ v \in Nat /\ Encloses(gmRegion[g], v)
           /\ (v - gmRegion[g].start) + 1 \in 1..gmRegion[g].nents
           /\ (v - gmRegion[g].start) + 1 <= gmRegion[g].end - gmRegion[g].start
           /\ PageOf(g, v) \in 1..Len(mem)
<1>1. v \in Vpns /\ v \in Nat /\ v >= gmRegion[g].start /\ v < gmRegion[g].end
      /\ v < gmRegion[g].start + gmRegion[g].nents
  BY DumpsAssumption DEF Backed
<1>2. /\ gmRegion[g].start \in Nat /\ gmRegion[g].end \in Nat /\ gmRegion[g].nents \in Nat
      /\ \A k \in 1..gmRegion[g].nents : gmRegion[g].pages[k] \in 1..Len(mem)
  BY RegionFacts
<1>3. (v - gmRegion[g].start) + 1 \in 1..gmRegion[g].nents
  BY <1>1, <1>2
<1>4. gmRegion[g].pages[(v - gmRegion[g].start) + 1] \in 1..Len(mem)
  BY <1>2, <1>3
<1>5. (v - gmRegion[g].start) + 1 <= gmRegion[g].end - gmRegion[g].start
  BY <1>1, <1>2
<1> QED
  BY <1>1, <1>3, <1>4, <1>5 DEF Encloses, PageOf

-----------------------------------------------------------------------------
(* What the steps do to the pages and to the list.                         *)

(* A function on 1..n is a sequence.                                       *)
LEMMA SeqOfFunction ==
    ASSUME NEW S, NEW n \in Nat, NEW f \in [1..n -> S]
    PROVE  f \in Seq(S) /\ Len(f) = n
<1>1. f \in Seq(S)
  BY SeqDef
<1>2. DOMAIN f = 1..Len(f) /\ Len(f) \in Nat
  BY <1>1, LenProperties
<1> QED
  BY <1>1, <1>2

(* Writing to one place of a sequence.                                     *)
LEMMA SeqWrite ==
    ASSUME NEW S, NEW s \in Seq(S), NEW x, NEW e \in S
    PROVE  /\ [s EXCEPT ![x] = e] \in Seq(S)
           /\ Len([s EXCEPT ![x] = e]) = Len(s)
           /\ \A p \in 1..Len(s) : [s EXCEPT ![x] = e][p] = IF p = x THEN e ELSE s[p]
<1>1. s \in [1..Len(s) -> S] /\ Len(s) \in Nat
  BY LenProperties
<1>2. [s EXCEPT ![x] = e] \in [1..Len(s) -> S]
  BY <1>1
<1> QED
  BY <1>1, <1>2, SeqOfFunction

Stored == Content \cup Written

\* What fits in a memory still fits when LoadFromDump has grown it by a region.
LEMMA StillFits ==
    ASSUME NEW have \in Nat, NEW more \in Nat, NEW from \in 0..have, NEW need \in Nat,
           from + need <= have
    PROVE  from \in 0..(have + more) /\ from + need <= have + more
OBVIOUS

(* A turn of the outer loop appends a region and as many pages.            *)
LEMMA ReadEffect ==
    ASSUME Tables, ReadHeader
    PROVE  /\ cur + 1 \in 1..(Len(dump) + 1) /\ cur \in Nat /\ Len(dump) \in Nat
           /\ HeaderAt(cur + 1) \in Region /\ HeaderAt(cur + 1).nents \in Nat
           /\ Len(gmRegion') = cur + 1
           /\ \A g \in 1..cur : gmRegion'[g] = gmRegion[g]
           /\ gmRegion'[cur + 1] = NewRegion(HeaderAt(cur + 1), Len(mem))
           /\ Listed'
           /\ Len(mem) \in Nat /\ Len(mem') = Len(mem) + HeaderAt(cur + 1).nents
           /\ \A p \in 1..Len(mem) : mem'[p] = mem[p]
           /\ \A p \in 1..Len(mem') : p > Len(mem) => mem'[p] = "zero"
           /\ mem' \in Seq(Stored)
<1>1. /\ dump \in Dumps /\ mem \in Seq(Stored) /\ Len(mem) \in Nat
      /\ cur \in 0..(Len(dump) + 1) /\ Len(gmRegion) = cur /\ (feof <=> AtEnd)
  BY LenProperties DEF Tables, TypeOK, RegionsInv, Stored
<1>2. dump \in Seq(Region) /\ Len(dump) \in Nat
  BY <1>1, DumpsAssumption, LenProperties
<1>3. cur + 1 \in 1..(Len(dump) + 1) /\ cur \in Nat
  BY <1>1, <1>2 DEF ReadHeader, AtEnd
<1>4. HeaderAt(cur + 1) \in Region
  BY <1>1, <1>3, HeaderFacts
<1>5. HeaderAt(cur + 1).nents \in Nat
  BY <1>4 DEF Region
<1> DEFINE S == {NewRegion(r, n) : r \in Region, n \in Nat}
           q == NewRegion(HeaderAt(cur + 1), Len(mem))
           zeros == [k \in 1..HeaderAt(cur + 1).nents |-> "zero"]
<1>6. gmRegion \in Seq(S) /\ q \in S
  BY <1>1, <1>4 DEF Tables, Listed
<1>7. gmRegion' = Append(gmRegion, q) /\ mem' = mem \o zeros
  BY DEF ReadHeader
<1>8. zeros \in Seq(Stored) /\ Len(zeros) = HeaderAt(cur + 1).nents
  <2>1. zeros \in [1..HeaderAt(cur + 1).nents -> Stored]
    BY DEF Stored, Written
  <2> QED
    BY <1>5, <2>1, SeqOfFunction
<1>9. \A k \in 1..HeaderAt(cur + 1).nents : zeros[k] = "zero"
  OBVIOUS
<1> HIDE DEF S, q, zeros
<1>10. /\ Append(gmRegion, q) \in Seq(S)
       /\ Len(Append(gmRegion, q)) = cur + 1
       /\ \A g \in 1..cur : Append(gmRegion, q)[g] = gmRegion[g]
       /\ Append(gmRegion, q)[cur + 1] = q
  BY <1>1, <1>6, AppendProperties
<1>11. /\ mem \o zeros \in Seq(Stored)
       /\ Len(mem \o zeros) = Len(mem) + Len(zeros)
       /\ \A p \in 1..(Len(mem) + Len(zeros)) :
             (mem \o zeros)[p] = IF p <= Len(mem) THEN mem[p] ELSE zeros[p - Len(mem)]
  BY <1>1, <1>8, ConcatProperties
<1>12. \A p \in 1..Len(mem') : p > Len(mem) => mem'[p] = "zero"
  <2> SUFFICES ASSUME NEW p \in 1..Len(mem'), p > Len(mem) PROVE mem'[p] = "zero"
    OBVIOUS
  <2>1. p \in 1..(Len(mem) + Len(zeros)) /\ p - Len(mem) \in 1..Len(zeros) /\ ~(p <= Len(mem))
    BY <1>1, <1>5, <1>7, <1>8, <1>11
  <2> QED
    BY <1>7, <1>8, <1>9, <1>11, <2>1
<1>13. \A p \in 1..Len(mem) : mem'[p] = mem[p]
  <2> SUFFICES ASSUME NEW p \in 1..Len(mem) PROVE mem'[p] = mem[p]
    OBVIOUS
  <2>1. p \in 1..(Len(mem) + Len(zeros)) /\ p <= Len(mem)
    BY <1>1, <1>5, <1>8
  <2> QED
    BY <1>7, <1>11, <2>1
<1>14. Listed'
  BY <1>7, <1>10 DEF Listed, S
<1>15. /\ Len(gmRegion') = cur + 1
       /\ \A g \in 1..cur : gmRegion'[g] = gmRegion[g]
       /\ gmRegion'[cur + 1] = NewRegion(HeaderAt(cur + 1), Len(mem))
  BY <1>7, <1>10 DEF q
<1>16. mem' \in Seq(Stored) /\ Len(mem') = Len(mem) + HeaderAt(cur + 1).nents
  BY <1>7, <1>8, <1>11
<1> QED
  BY <1>1, <1>2, <1>3, <1>4, <1>5, <1>12, <1>13, <1>14, <1>15, <1>16

(* A turn of the inner loop writes one page of the region that was added   *)
(* last, and one entry.                                                    *)
LEMMA LoadEffect ==
    ASSUME Tables, LoadPage
    PROVE  /\ cur \in 1..(Len(dump) + 1) /\ Len(dump) \in Nat
           /\ pageCnt + 1 \in 1..Header.nents /\ pageCnt + 1 <= Header.end - Header.start
           /\ Header.start \in Nat /\ Header.start + pageCnt \in Vpns
           /\ NewPage = gmRegion[cur].pages[pageCnt + 1] /\ NewPage \in 1..Len(mem)
           /\ buf' \in Content \cup {"zero"}
           /\ mem' \in Seq(Stored) /\ Len(mem') = Len(mem)
           /\ \A p \in 1..Len(mem) :
                 mem'[p] = IF Header.valid /\ p = NewPage THEN buf' ELSE mem[p]
           /\ pgt' = [pgt EXCEPT ![Header.start + pageCnt] = NewPage]
<1>1. /\ dump \in Dumps /\ mem \in Seq(Stored) /\ Len(mem) \in Nat /\ pageCnt \in Nat
      /\ cur \in 0..(Len(dump) + 1) /\ Len(gmRegion) = cur /\ cur > 0
      /\ TypeOK /\ RegionsInv
  BY LenProperties DEF Tables, TypeOK, RegionsInv, Stored, LoadPage
<1>2. dump \in Seq(Region) /\ Len(dump) \in Nat
  BY <1>1, DumpsAssumption, LenProperties
<1>3. cur \in 1..(Len(dump) + 1) /\ cur \in 1..cur /\ cur \in Nat
  BY <1>1, <1>2
<1>4. Header \in Region
  BY <1>1, <1>3, HeaderFacts DEF Header
<1>5. Header.start \in Nat /\ Header.end \in Nat /\ Header.nents \in Nat
  BY <1>4, DumpsAssumption DEF Region
<1>6. pageCnt + 1 \in 1..Header.nents /\ pageCnt + 1 <= Header.end - Header.start
  BY <1>1, <1>5 DEF LoadPage, PagesLeft
<1>7. /\ Header.start + ((pageCnt + 1) - 1) \in Vpns
      /\ Header.valid => Header.data[pageCnt + 1] \in Content
  BY <1>1, <1>3, <1>6, HeaderFacts DEF Header
<1>8. Header.start + pageCnt \in Vpns
  BY <1>1, <1>5, <1>7
<1>9. NewPage = gmRegion[cur].pages[pageCnt + 1]
  BY <1>1 DEF NewPage
<1>10. NewPage \in 1..Len(mem)
  BY <1>1, <1>3, <1>6, <1>9, RegionFacts DEF Header
<1>11. buf' \in Content \cup {"zero"}
  BY <1>1, <1>7 DEF LoadPage, TypeOK
<1>12. /\ mem' \in Seq(Stored) /\ Len(mem') = Len(mem)
       /\ \A p \in 1..Len(mem) :
             mem'[p] = IF Header.valid /\ p = NewPage THEN buf' ELSE mem[p]
  <2>1. buf' \in Stored
    BY <1>11 DEF Stored, Written
  <2>2. CASE Header.valid
    <3>1. mem' = [mem EXCEPT ![NewPage] = buf']
      BY <2>2 DEF LoadPage
    <3> QED
      BY <1>1, <2>1, <2>2, <3>1, SeqWrite
  <2>3. CASE ~Header.valid
    <3>1. mem' = mem
      BY <2>3 DEF LoadPage
    <3> QED
      BY <1>1, <2>3, <3>1
  <2> QED
    BY <2>2, <2>3
<1> QED
  BY <1>2, <1>3, <1>5, <1>6, <1>8, <1>9, <1>10, <1>11, <1>12 DEF LoadPage

(* What gr_mem_contents_check leaves in a page: for the pages of a valid   *)
(* region that the file holds, the content in the file.                    *)
LEMMA CheckEffect ==
    ASSUME Tables, NEW g \in 1..cur, NEW k \in 1..gmRegion[g].nents
    PROVE  ContentsAfterCheck[gmRegion[g].pages[k]] =
              IF ~gmRegion[g].valid \/ k > gmRegion[g].end - gmRegion[g].start
              THEN mem[gmRegion[g].pages[k]]
              ELSE IF g <= Len(dump) THEN dump[g].data[k] ELSE buf
<1> DEFINE p == gmRegion[g].pages[k]
           owner == CHOOSE h \in 1..Len(gmRegion) :
                       \E l \in 1..Len(gmRegion[h].pages) : gmRegion[h].pages[l] = p
           place == CHOOSE l \in 1..Len(gmRegion[owner].pages) : gmRegion[owner].pages[l] = p
<1>1. TypeOK /\ RegionsInv /\ Len(gmRegion) = cur
  BY DEF Tables, RegionsInv
<1>2. \A h \in 1..cur : Len(gmRegion[h].pages) = gmRegion[h].nents
  BY <1>1, RegionFacts
<1>3. p \in 1..Len(mem)
  BY <1>1, RegionFacts
<1>4. \A h \in 1..cur : \A l \in 1..gmRegion[h].nents :
         gmRegion[h].pages[l] = p => h = g /\ l = k
  BY <1>1, OnePlace
<1> HIDE DEF p
<1>5. owner = g
  <2>1. g \in 1..Len(gmRegion) /\ \E l \in 1..Len(gmRegion[g].pages) : gmRegion[g].pages[l] = p
    BY <1>1, <1>2 DEF p
  <2>2. /\ owner \in 1..Len(gmRegion)
        /\ \E l \in 1..Len(gmRegion[owner].pages) : gmRegion[owner].pages[l] = p
    BY <2>1, Zenon
  <2> HIDE DEF owner
  <2> QED
    BY <1>1, <1>2, <1>4, <2>2
<1>6. place = k
  <2> HIDE DEF owner
  <2>1. k \in 1..Len(gmRegion[owner].pages) /\ gmRegion[owner].pages[k] = p
    BY <1>2, <1>5 DEF p
  <2>2. place \in 1..Len(gmRegion[owner].pages) /\ gmRegion[owner].pages[place] = p
    BY <2>1, Zenon
  <2> HIDE DEF place
  <2> QED
    BY <1>2, <1>4, <1>5, <2>2
<1>7. ContentsAfterCheck[p] =
         IF ~gmRegion[owner].valid \/ place > gmRegion[owner].end - gmRegion[owner].start
         THEN mem[p]
         ELSE IF owner <= Len(dump) THEN dump[owner].data[place] ELSE buf
  BY <1>3 DEF ContentsAfterCheck
<1> HIDE DEF owner, place
<1> QED
  BY <1>5, <1>6, <1>7 DEF p

(* It yields contents for as many pages as there are.                      *)
LEMMA CheckTyped ==
    ASSUME Tables
    PROVE  ContentsAfterCheck \in [1..Len(mem) -> Stored]
<1>1. /\ TypeOK /\ RegionsInv /\ mem \in Seq(Stored) /\ Len(mem) \in Nat /\ dump \in Dumps
      /\ buf \in Stored /\ cur \in Nat
  BY LenProperties DEF Tables, TypeOK, RegionsInv, Stored, Written
<1>2. ASSUME NEW p \in 1..Len(mem) PROVE ContentsAfterCheck[p] \in Stored
  <2>1. PICK g \in 1..cur : \E k \in DOMAIN gmRegion[g].pages : gmRegion[g].pages[k] = p
    BY DEF Tables, PagesInv
  <2>2. PICK k \in 1..gmRegion[g].nents : gmRegion[g].pages[k] = p
    BY <1>1, <2>1, RegionFacts
  <2>3. mem[p] \in Stored
    BY <1>1, ElementOfSeq
  <2>4. /\ gmRegion[g].valid = HeaderAt(g).valid /\ gmRegion[g].end = HeaderAt(g).end
        /\ gmRegion[g].start = HeaderAt(g).start /\ gmRegion[g].nents = HeaderAt(g).nents
        /\ gmRegion[g].end - gmRegion[g].start \in Int
    BY <1>1, RegionFacts
  <2>5. ASSUME gmRegion[g].valid, ~(k > gmRegion[g].end - gmRegion[g].start), g <= Len(dump)
        PROVE  dump[g].data[k] \in Stored
    <3>1. g \in Nat /\ g > 0 /\ k \in 1..HeaderAt(g).nents
          /\ k <= HeaderAt(g).end - HeaderAt(g).start /\ HeaderAt(g).valid
      BY <1>1, <2>4, <2>5
    <3>2. HeaderAt(g).data[k] \in Content /\ HeaderAt(g) = dump[g]
      BY <1>1, <2>5, <3>1, HeaderFacts
    <3> QED
      BY <3>2 DEF Stored
  <2>6. ContentsAfterCheck[p] =
              IF ~gmRegion[g].valid \/ k > gmRegion[g].end - gmRegion[g].start
              THEN mem[p]
              ELSE IF g <= Len(dump) THEN dump[g].data[k] ELSE buf
    BY <2>2, CheckEffect
  <2> QED
    BY <1>1, <2>3, <2>5, <2>6
<1> DEFINE owner(p) == CHOOSE g \in 1..Len(gmRegion) :
                          \E k \in 1..Len(gmRegion[g].pages) : gmRegion[g].pages[k] = p
           r(p) == gmRegion[owner(p)]
           place(p) == CHOOSE k \in 1..Len(r(p).pages) : r(p).pages[k] = p
           content(p) == IF ~r(p).valid \/ place(p) > r(p).end - r(p).start THEN mem[p]
                         ELSE IF owner(p) <= Len(dump) THEN dump[owner(p)].data[place(p)]
                         ELSE buf
<1>3. ContentsAfterCheck = [p \in 1..Len(mem) |-> content(p)]
  BY Zenon DEF ContentsAfterCheck
<1> HIDE DEF content
<1> QED
  BY <1>2, <1>3

(* Restoring keeps the number of pages, and zeroes those that an address   *)
(* of an invalid region leads to.                                          *)
LEMMA RestoreEffect ==
    ASSUME Tables, RestoreMemory
    PROVE  /\ mem' \in Seq(Stored) /\ Len(mem') = Len(mem)
           /\ \A p \in 1..Len(mem) :
                 mem'[p] = IF \E g \in 1..cur : ~gmRegion[g].valid
                                /\ \E v \in Backed(gmRegion[g]) : CpuPage(v) = p
                           THEN "zero" ELSE ContentsAfterCheck[p]
<1>1. ContentsAfterCheck \in [1..Len(mem) -> Stored] /\ Len(mem) \in Nat /\ Len(gmRegion) = cur
  BY CheckTyped, LenProperties DEF Tables, TypeOK, RegionsInv
<1>2. Len(ContentsAfterCheck) = Len(mem)
  BY <1>1, SeqOfFunction
<1> DEFINE Cleaned(p) == \E g \in 1..cur : ~gmRegion[g].valid
                            /\ \E v \in Backed(gmRegion[g]) : CpuPage(v) = p
<1>3. mem' = [p \in 1..Len(mem) |-> IF Cleaned(p) THEN "zero" ELSE ContentsAfterCheck[p]]
  BY <1>1, <1>2 DEF RestoreMemory, ContentsAfterClean
<1> HIDE DEF Cleaned
<1>4. \A p \in 1..Len(mem) : ContentsAfterCheck[p] \in Stored
  BY <1>1
<1>5. "zero" \in Stored
  BY DEF Stored, Written
<1>6. mem' \in [1..Len(mem) -> Stored]
  BY <1>3, <1>4, <1>5
<1>7. \A p \in 1..Len(mem) : mem'[p] = IF Cleaned(p) THEN "zero" ELSE ContentsAfterCheck[p]
  BY <1>3
<1> QED
  BY <1>1, <1>6, <1>7, SeqOfFunction DEF Cleaned

(* gr_restore_pte leads an address to the page of the last region that     *)
(* holds it.                                                               *)
LEMMA RestorePteEffect ==
    ASSUME Tables, RestorePte
    PROVE  /\ DOMAIN pgt' = Vpns
           /\ \A v \in Vpns : v \notin Loaded => pgt'[v] = pgt[v]
           /\ \A v \in Loaded : \E g \in 1..cur :
                 /\ v \in Backed(gmRegion[g])
                 /\ \A h \in (g + 1)..cur : v \notin Backed(gmRegion[h])
                 /\ pgt'[v] = PageOf(g, v)
<1>1. Len(gmRegion) = cur /\ cur \in Nat /\ RegionsInv /\ TypeOK
  BY DEF Tables, TypeOK, RegionsInv
<1> DEFINE IsLast(g, v) == /\ v \in Backed(gmRegion[g])
                           /\ \A h \in (g + 1)..Len(gmRegion) : v \notin Backed(gmRegion[h])
           last(v) == CHOOSE g \in 1..Len(gmRegion) : IsLast(g, v)
<1>2. pgt' = [v \in Vpns |-> IF v \notin Loaded THEN pgt[v]
                ELSE gmRegion[last(v)].pages[(v - gmRegion[last(v)].start) + 1]]
  BY DEF RestorePte
<1>3. ASSUME NEW v \in Loaded
      PROVE  v \in Vpns /\ \E g \in 1..cur : IsLast(g, v) /\ pgt'[v] = PageOf(g, v)
  <2> DEFINE S == {g \in 1..cur : v \in Backed(gmRegion[g])}
  <2>1. S \subseteq 0..cur /\ S # {} /\ v \in Vpns
    BY <1>1 DEF Loaded, Backed
  <2>2. PICK m \in S : \A g \in S : g <= m
    BY <1>1, <2>1, Largest
  <2>3. m \in 1..Len(gmRegion) /\ IsLast(m, v)
    <3>1. m \in 1..cur /\ v \in Backed(gmRegion[m])
      OBVIOUS
    <3>2. ASSUME NEW h \in (m + 1)..cur PROVE v \notin Backed(gmRegion[h])
      <4>1. h \in 1..cur /\ ~(h <= m)
        BY <1>1, <3>1
      <4>2. h \notin S
        BY <2>2, <4>1
      <4> QED
        BY <4>1, <4>2
    <3> QED
      BY <1>1, <3>1, <3>2
  <2>4. last(v) \in 1..Len(gmRegion) /\ IsLast(last(v), v)
    <3> HIDE DEF IsLast
    <3> QED
      BY <2>3, Zenon
  <2>5. pgt'[v] = gmRegion[last(v)].pages[(v - gmRegion[last(v)].start) + 1]
    <3> HIDE DEF last
    <3> QED
      BY <1>2, <2>1
  <2> HIDE DEF last, IsLast
  <2> QED
    BY <1>1, <2>1, <2>4, <2>5 DEF PageOf
<1>4. DOMAIN pgt' = Vpns /\ \A v \in Vpns : v \notin Loaded => pgt'[v] = pgt[v]
  <2> HIDE DEF last
  <2> QED
    BY <1>2
<1>5. ASSUME NEW v \in Loaded
      PROVE  \E g \in 1..cur :
                 /\ v \in Backed(gmRegion[g])
                 /\ \A h \in (g + 1)..cur : v \notin Backed(gmRegion[h])
                 /\ pgt'[v] = PageOf(g, v)
  BY <1>1, <1>3
<1> QED
  BY <1>4, <1>5

-----------------------------------------------------------------------------
(* Types, and the pages of the regions.                                    *)

LEMMA TablesStart ==
    ASSUME Init
    PROVE  Tables
<1>1. dump \in Seq(Region) /\ Len(dump) \in Nat /\ Len(dump) > 0
  <2>1. dump \in Seq(Region) /\ dump # << >>
    BY DumpsAssumption DEF Init
  <2> QED
    BY <2>1, LenProperties, EmptySeq
<1>2. Len(<< >>) = 0 /\ << >> \in Seq(Stored)
      /\ << >> \in Seq({NewRegion(r, n) : r \in Region, n \in Nat})
  BY EmptySeq
<1>3. TypeOK
  <2>1. mem = << >> /\ mem \in Seq(Stored) /\ Len(mem) = 0 /\ Len(gmRegion) = 0
    BY <1>2 DEF Init
  <2>2. pgt \in [Vpns -> 0..Len(mem)]
    BY <2>1 DEF Init, NoPage
  <2>3. /\ feof \in BOOLEAN /\ fresh \in BOOLEAN /\ phase \in {"header", "pages", "ready"}
        /\ buf \in Content \cup {"zero"}
    BY DEF Init
  <2>4. cur \in 0..(Len(dump) + 1) /\ pageCnt \in Nat /\ runs \in 0..MaxRuns
    BY <1>1, RunsAssumption DEF Init
  <2>5. \A g \in 1..Len(gmRegion) : FALSE
    BY <2>1
  <2> QED
    BY <2>1, <2>2, <2>3, <2>4, <2>5 DEF Init, TypeOK, Stored
<1>4. RegionsInv
  BY <1>1, <1>2 DEF Init, RegionsInv, AtEnd
<1>5. PagesInv
  BY <1>2 DEF Init, PagesInv
<1> QED
  BY <1>2, <1>3, <1>4, <1>5 DEF Tables, Listed, Init

(* What all steps but ReadHeader have in common: the list stays and no     *)
(* page is added.                                                          *)
LEMMA SameList ==
    ASSUME Tables, UNCHANGED <<dump, cur, feof, gmRegion>>, Len(mem') = Len(mem),
           phase' = "ready" => AtEnd, phase' = "pages" => cur > 0
    PROVE  Listed' /\ RegionsInv' /\ PagesInv'
<1>1. Listed'
  BY DEF Tables, Listed
<1>2. AtEnd' <=> AtEnd
  BY DEF AtEnd
<1>3. \A g \in 1..cur : HeaderAt(g)' = HeaderAt(g)
  BY DEF HeaderAt
<1>4. RegionsInv'
  <2>1. \A g \in 1..cur : \E n \in 0..Len(mem) :
          n + HeaderAt(g)'.nents <= Len(mem) /\ gmRegion[g] = NewRegion(HeaderAt(g)', n)
    BY <1>3 DEF Tables, RegionsInv
  <2> QED
    BY <1>2, <2>1 DEF Tables, RegionsInv, NewRegion
<1>5. PagesInv'
  BY DEF Tables, PagesInv
<1> QED
  BY <1>1, <1>4, <1>5

LEMMA ReadKeepsTables ==
    ASSUME Tables, ReadHeader
    PROVE  Tables'
<1> DEFINE c == cur + 1
           r == HeaderAt(c)
           m == Len(mem)
<1>1. /\ c \in 1..(Len(dump) + 1) /\ cur \in Nat /\ Len(dump) \in Nat /\ r \in Region
      /\ r.nents \in Nat /\ m \in Nat /\ Len(mem') = m + r.nents
      /\ gmRegion'[c] = NewRegion(r, m) /\ \A g \in 1..cur : gmRegion'[g] = gmRegion[g]
      /\ Len(gmRegion') = c /\ mem' \in Seq(Stored)
  BY ReadEffect
<1>2. /\ cur' = c /\ dump' = dump /\ (feof' <=> c > Len(dump)) /\ pageCnt' = 0
      /\ phase' = "pages" /\ UNCHANGED <<buf, pgt, runs, fresh>>
  BY <1>1 DEF ReadHeader
<1>3. TypeOK /\ RegionsInv /\ PagesInv
  BY DEF Tables
<1>4. /\ \A g \in 1..cur : DOMAIN gmRegion[g].pages = 1..gmRegion[g].nents
                          /\ Len(gmRegion[g].pages) = gmRegion[g].nents
      /\ \A g \in 1..cur : \A k \in 1..gmRegion[g].nents : gmRegion[g].pages[k] \in 1..m
  BY <1>3, RegionFacts
<1>5. /\ DOMAIN gmRegion'[c].pages = 1..r.nents /\ Len(gmRegion'[c].pages) = r.nents
      /\ \A k \in 1..r.nents : gmRegion'[c].pages[k] = m + k
  BY <1>1, NewRegionFacts
<1>6. \A g \in 1..c : g \in 1..cur \/ g = c
  BY <1>1
<1>7. TypeOK'
  <2>1. \A g \in 1..c : \A k \in 1..Len(gmRegion'[g].pages) :
           gmRegion'[g].pages[k] \in 1..Len(mem')
    <3>1. ASSUME NEW g \in 1..cur, NEW k \in 1..Len(gmRegion'[g].pages)
          PROVE  gmRegion'[g].pages[k] \in 1..Len(mem')
      <4>1. gmRegion'[g] = gmRegion[g]
        BY <1>1
      <4>2. gmRegion[g].pages[k] \in 1..m
        BY <1>4, <4>1
      <4>3. \A p \in 1..m : p \in 1..Len(mem')
        BY <1>1
      <4> QED
        BY <4>1, <4>2, <4>3
    <3>2. ASSUME NEW k \in 1..Len(gmRegion'[c].pages)
          PROVE  gmRegion'[c].pages[k] \in 1..Len(mem')
      <4>1. k \in 1..r.nents /\ gmRegion'[c].pages[k] = m + k
        BY <1>5
      <4> QED
        BY <1>1, <4>1, SMTT(30)
    <3> HIDE DEF c
    <3> QED
      BY <1>6, <3>1, <3>2
  <2>2. pgt' \in [Vpns -> 0..Len(mem')]
    BY <1>1, <1>2, <1>3 DEF TypeOK
  <2>3. feof' \in BOOLEAN /\ fresh' \in BOOLEAN
    BY <1>2, <1>3 DEF TypeOK, ReadHeader
  <2>4. c \in 0..(Len(dump) + 1)
    BY <1>1
  <2> HIDE DEF c
  <2> QED
    BY <1>1, <1>2, <1>3, <2>1, <2>2, <2>3, <2>4 DEF TypeOK, Stored
<1>8. \A g \in 1..c : HeaderAt(g)' = HeaderAt(g)
  BY <1>2 DEF HeaderAt
<1>9. \A g \in 1..c : \E n \in 0..Len(mem') :
          n + HeaderAt(g).nents <= Len(mem') /\ gmRegion'[g] = NewRegion(HeaderAt(g), n)
  <2>1. ASSUME NEW g \in 1..cur
        PROVE  \E n \in 0..Len(mem') :
                  n + HeaderAt(g).nents <= Len(mem') /\ gmRegion'[g] = NewRegion(HeaderAt(g), n)
    <3>1. PICK n \in 0..m : n + HeaderAt(g).nents <= m /\ gmRegion[g] = NewRegion(HeaderAt(g), n)
      BY <1>3 DEF RegionsInv
    <3>2. HeaderAt(g).nents \in Nat
      BY <1>3, RegionFacts
    <3>3. n \in 0..Len(mem') /\ n + HeaderAt(g).nents <= Len(mem')
      <4>1. r.nents \in Nat /\ m \in Nat /\ Len(mem') = m + r.nents
        BY <1>1
      <4> HIDE DEF r, m
      <4> QED
        BY <3>1, <3>2, <4>1, StillFits
    <3> QED
      BY <1>1, <3>1, <3>3
  <2>2. m \in 0..Len(mem') /\ m + r.nents <= Len(mem')
    BY <1>1
  <2> QED
    BY <1>1, <1>6, <2>1, <2>2
<1>10. \A g, h \in 1..c : g < h =>
          \A k \in DOMAIN gmRegion'[g].pages : \A l \in DOMAIN gmRegion'[h].pages :
              gmRegion'[g].pages[k] < gmRegion'[h].pages[l]
  <2> SUFFICES ASSUME NEW g \in 1..c, NEW h \in 1..c, g < h,
                      NEW k \in DOMAIN gmRegion'[g].pages, NEW l \in DOMAIN gmRegion'[h].pages
               PROVE  gmRegion'[g].pages[k] < gmRegion'[h].pages[l]
    OBVIOUS
  <2>1. g \in 1..cur
    BY <1>1
  <2>2. CASE h \in 1..cur
    <3>1. gmRegion'[g] = gmRegion[g] /\ gmRegion'[h] = gmRegion[h]
      BY <1>1, <2>1, <2>2
    <3> QED
      BY <1>3, <2>1, <2>2, <3>1 DEF RegionsInv
  <2>3. CASE h = c
    <3>1. gmRegion'[g].pages[k] \in 1..m
      BY <1>1, <1>4, <2>1
    <3>2. l \in 1..r.nents /\ gmRegion'[h].pages[l] = m + l
      BY <1>5, <2>3
    <3> QED
      BY <1>1, <3>1, <3>2
  <2> QED
    BY <1>6, <2>2, <2>3
<1>11. RegionsInv'
  <2>1. AtEnd' <=> c > Len(dump)
    BY <1>2 DEF AtEnd
  <2>2. c > 0 /\ phase' # "ready"
    BY <1>1, <1>2
  <2>3. \A g \in 1..c : \E n \in 0..Len(mem') :
          n + HeaderAt(g)'.nents <= Len(mem') /\ gmRegion'[g] = NewRegion(HeaderAt(g)', n)
    BY <1>8, <1>9
  <2> HIDE DEF c
  <2> QED
    BY <1>1, <1>2, <1>10, <2>1, <2>2, <2>3 DEF RegionsInv, NewRegion
<1>12. \A p \in 1..Len(mem') : \E g \in 1..c :
          \E k \in DOMAIN gmRegion'[g].pages : gmRegion'[g].pages[k] = p
  <2> SUFFICES ASSUME NEW p \in 1..Len(mem')
               PROVE  \E g \in 1..c : \E k \in DOMAIN gmRegion'[g].pages : gmRegion'[g].pages[k] = p
    OBVIOUS
  <2>1. CASE p <= m
    <3>1. p \in 1..m
      BY <1>1, <2>1
    <3>2. PICK g \in 1..cur : \E k \in DOMAIN gmRegion[g].pages : gmRegion[g].pages[k] = p
      BY <1>3, <3>1 DEF PagesInv
    <3>3. g \in 1..c /\ gmRegion'[g] = gmRegion[g]
      BY <1>1
    <3> QED
      BY <3>2, <3>3
  <2>2. CASE p > m
    <3>1. p - m \in 1..r.nents /\ m + (p - m) = p
      BY <1>1, <2>2
    <3>2. c \in 1..c
      BY <1>1
    <3> QED
      BY <1>5, <3>1, <3>2
  <2> QED
    BY <1>1, <2>1, <2>2
<1>13. PagesInv'
  <2> HIDE DEF c
  <2> QED
    BY <1>2, <1>12 DEF PagesInv
<1> QED
  BY <1>7, <1>11, <1>13, ReadEffect DEF Tables

LEMMA LoadKeepsTables ==
    ASSUME Tables, LoadPage
    PROVE  Tables'
<1>1. /\ mem' \in Seq(Stored) /\ Len(mem') = Len(mem) /\ buf' \in Content \cup {"zero"}
      /\ NewPage \in 1..Len(mem) /\ pgt' = [pgt EXCEPT ![Header.start + pageCnt] = NewPage]
      /\ cur \in 1..(Len(dump) + 1) /\ Len(dump) \in Nat
  BY LoadEffect
<1>2. /\ UNCHANGED <<dump, cur, feof, phase, gmRegion, runs, fresh>>
      /\ pageCnt' = pageCnt + 1 /\ phase = "pages"
  BY DEF LoadPage
<1>3. Listed' /\ RegionsInv' /\ PagesInv'
  BY <1>1, <1>2, SameList DEF Tables, RegionsInv
<1>4. pgt' \in [Vpns -> 0..Len(mem)]
  <2>1. pgt \in [Vpns -> 0..Len(mem)] /\ NewPage \in 0..Len(mem)
    BY <1>1 DEF Tables, TypeOK
  <2> QED
    BY <1>1, <2>1
<1>5. TypeOK'
  BY <1>1, <1>2, <1>4 DEF Tables, TypeOK, Stored
<1> QED
  BY <1>3, <1>5 DEF Tables

(* Copies, replays and restores change contents and page table only.       *)
LEMMA UseKeepsTables ==
    ASSUME Tables,
           RestoreMemory \/ RestorePte \/ \E v \in Loaded : CopyIn(v) \/ GpuRun(v)
    PROVE  Tables'
<1>1. /\ UNCHANGED <<loadVars, phase, gmRegion>> /\ phase = "ready" /\ Use
      /\ fresh' \in BOOLEAN
  BY DEF RestoreMemory, RestorePte, CopyIn, GpuRun, Tables, TypeOK
<1>2. TypeOK /\ RegionsInv /\ mem \in Seq(Stored) /\ pgt \in [Vpns -> 0..Len(mem)] /\ AtEnd
  BY <1>1 DEF Tables, TypeOK, Stored, RegionsInv
<1>3. "input" \in Stored /\ "gpu" \in Stored
  BY DEF Stored, Written
<1>4. mem' \in Seq(Stored) /\ Len(mem') = Len(mem) /\ pgt' \in [Vpns -> 0..Len(mem)]
  <2>1. CASE RestoreMemory
    BY <1>2, <2>1, RestoreEffect DEF RestoreMemory
  <2>2. CASE RestorePte
    <3>1. ASSUME NEW v \in Vpns PROVE pgt'[v] \in 0..Len(mem)
      <4>1. CASE v \notin Loaded
        BY <1>2, <2>2, <4>1, RestorePteEffect
      <4>2. CASE v \in Loaded
        <5>1. PICK g \in 1..cur : v \in Backed(gmRegion[g]) /\ pgt'[v] = PageOf(g, v)
          BY <2>2, <4>2, RestorePteEffect
        <5>2. PageOf(g, v) \in 1..Len(mem)
          BY <1>2, <5>1, BackedFacts
        <5> QED
          BY <5>1, <5>2
      <4> QED
        BY <4>1, <4>2
    <3>2. DOMAIN pgt' = Vpns /\ pgt' = [v \in Vpns |-> pgt'[v]]
      BY <2>2 DEF RestorePte
    <3> QED
      BY <1>2, <2>2, <3>1, <3>2 DEF RestorePte
  <2>3. CASE \E v \in Loaded : CopyIn(v)
    <3>1. PICK v \in Loaded : CopyIn(v)
      BY <2>3
    <3> QED
      BY <1>2, <1>3, <3>1, SeqWrite DEF CopyIn
  <2>4. CASE \E v \in Loaded : GpuRun(v)
    <3>1. PICK v \in Loaded : GpuRun(v)
      BY <2>4
    <3> QED
      BY <1>2, <1>3, <3>1, SeqWrite DEF GpuRun
  <2> QED
    BY <2>1, <2>2, <2>3, <2>4
<1>5. Listed' /\ RegionsInv' /\ PagesInv'
  BY <1>1, <1>2, <1>4, SameList DEF loadVars
<1>6. runs' \in 0..MaxRuns
  BY <1>1, <1>2, RunsAssumption DEF Use, TypeOK
<1>7. TypeOK'
  BY <1>1, <1>2, <1>4, <1>6 DEF TypeOK, loadVars, Stored
<1> QED
  BY <1>5, <1>7 DEF Tables

LEMMA TablesStep ==
    ASSUME Tables, [Next]_vars
    PROVE  Tables'
<1>1. CASE ReadHeader
  BY <1>1, ReadKeepsTables
<1>2. CASE LoadPage
  BY <1>2, LoadKeepsTables
<1>3. CASE EndOfRegion
  <2>1. UNCHANGED <<loadVars, gmRegion, pgt, mem, runs, fresh>>
        /\ phase = "pages" /\ phase' = IF feof THEN "ready" ELSE "header"
    BY <1>3 DEF EndOfRegion
  <2>2. Listed' /\ RegionsInv' /\ PagesInv'
    BY <2>1, SameList DEF loadVars, Tables, RegionsInv
  <2>3. TypeOK'
    BY <2>1 DEF Tables, TypeOK, loadVars
  <2> QED
    BY <2>2, <2>3 DEF Tables
<1>4. CASE RestoreMemory \/ RestorePte \/ \E v \in Loaded : CopyIn(v) \/ GpuRun(v)
  BY <1>4, UseKeepsTables
<1>5. CASE Done \/ UNCHANGED vars
  <2>1. UNCHANGED vars
    BY <1>5 DEF Done
  <2>2. Listed' /\ RegionsInv' /\ PagesInv'
    BY <2>1, SameList DEF vars, loadVars, Tables, RegionsInv
  <2>3. TypeOK'
    BY <2>1 DEF vars, loadVars, Tables, TypeOK
  <2> QED
    BY <2>2, <2>3 DEF Tables
<1> QED
  BY <1>1, <1>2, <1>3, <1>4, <1>5 DEF Next, Load

LEMMA TablesInvariant == Spec => []Tables
<1>1. Init => Tables
  BY TablesStart
<1>2. Tables /\ [Next]_vars => Tables'
  BY TablesStep
<1> QED
  BY <1>1, <1>2, PTL DEF Spec

(* The variables of the loader, the list of regions and the page table     *)
(* have the values their types say: whatever is loaded, copied or          *)
(* restored, every page of a region and every entry of the page table is a *)
(* page that the pool has handed out (gr_mem_contents_init, gr_restore_pte *)
(* and the restore of the contents).                                       *)
THEOREM TypeCorrect == Spec => []TypeOK
<1>1. Tables => TypeOK
  BY DEF Tables
<1> QED
  BY <1>1, TablesInvariant, PTL

-----------------------------------------------------------------------------
(* Which regions hold an address.                                          *)

(* A region that was read is the one at its place in the file; the extra   *)
(* one repeats the last.                                                   *)
LEMMA DumpFacts ==
    ASSUME TypeOK, RegionsInv, NEW g \in 1..cur
    PROVE  \E i \in 1..Len(dump) :
              /\ g <= Len(dump) => i = g
              /\ g > Len(dump) => i = Len(dump)
              /\ HeaderAt(g) = dump[i]
              /\ gmRegion[g].start = dump[i].start /\ gmRegion[g].valid = dump[i].valid
              /\ Backed(gmRegion[g]) = Backed(dump[i])
              /\ \A v : Encloses(gmRegion[g], v) <=> Encloses(dump[i], v)
<1>1. g \in Nat /\ g > 0 /\ dump \in Dumps
  BY DEF TypeOK
<1>2. /\ Len(dump) \in Nat /\ Len(dump) > 0
      /\ g <= Len(dump) => HeaderAt(g) = dump[g]
      /\ g > Len(dump) => HeaderAt(g) = dump[Len(dump)]
  BY <1>1, HeaderFacts
<1>3. /\ gmRegion[g].start = HeaderAt(g).start /\ gmRegion[g].end = HeaderAt(g).end
      /\ gmRegion[g].nents = HeaderAt(g).nents /\ gmRegion[g].valid = HeaderAt(g).valid
  BY RegionFacts
<1> DEFINE i == IF g > Len(dump) THEN Len(dump) ELSE g
<1>4. i \in 1..Len(dump) /\ (g <= Len(dump) => i = g) /\ (g > Len(dump) => i = Len(dump))
  BY <1>1, <1>2
<1>5. HeaderAt(g) = dump[i]
  BY <1>1, <1>2
<1> HIDE DEF i
<1>6. Backed(gmRegion[g]) = Backed(dump[i])
  BY <1>3, <1>5 DEF Backed
<1>7. \A v : Encloses(gmRegion[g], v) <=> Encloses(dump[i], v)
  BY <1>3, <1>5 DEF Encloses
<1> QED
  BY <1>3, <1>4, <1>5, <1>6, <1>7

(* An address that only region g of the dump holds is in no other region   *)
(* of the list either.                                                     *)
LEMMA OnlyOneHolds ==
    ASSUME TypeOK, RegionsInv, NEW g \in AllButLast, NEW v, OnlyIn(g, v),
           NEW h \in 1..cur, Encloses(gmRegion[h], v)
    PROVE  h = g
<1>1. PICK i \in 1..Len(dump) :
         /\ h <= Len(dump) => i = h
         /\ h > Len(dump) => i = Len(dump)
         /\ \A u : Encloses(gmRegion[h], u) <=> Encloses(dump[i], u)
  BY DumpFacts
<1>2. i = g
  BY <1>1 DEF OnlyIn
<1>3. Len(dump) \in Nat
  BY HeaderFacts DEF TypeOK
<1> QED
  BY <1>1, <1>2, <1>3 DEF AllButLast

(* gr_find_region_enclosing_address returns a region that holds the        *)
(* address, if there is one.                                               *)
LEMMA EnclosingFacts ==
    ASSUME TypeOK, RegionsInv, NEW v, NEW h \in 1..cur, Encloses(gmRegion[h], v)
    PROVE  Enclosing(v) \in 1..cur /\ Encloses(gmRegion[Enclosing(v)], v)
<1>1. Len(gmRegion) = cur /\ cur \in Nat
  BY DEF TypeOK, RegionsInv
<1> DEFINE S == {g \in 1..cur : Encloses(gmRegion[g], v)}
           First(g) == /\ Encloses(gmRegion[g], v)
                       /\ \A f \in 1..(g - 1) : ~Encloses(gmRegion[f], v)
<1>2. S \subseteq Nat /\ S # {}
  BY <1>1
<1>3. PICK m \in S : \A g \in S : m <= g
  BY <1>2, Smallest
<1>4. m \in 1..Len(gmRegion) /\ First(m)
  <2>1. m \in 1..cur /\ Encloses(gmRegion[m], v)
    OBVIOUS
  <2>2. ASSUME NEW f \in 1..(m - 1) PROVE ~Encloses(gmRegion[f], v)
    <3>1. f \in 1..cur /\ ~(m <= f)
      BY <1>1, <2>1
    <3>2. f \notin S
      BY <1>3, <3>1
    <3> QED
      BY <3>1, <3>2
  <2> QED
    BY <1>1, <2>1, <2>2
<1>5. Enclosing(v) = CHOOSE g \in 1..Len(gmRegion) : First(g)
  BY DEF Enclosing
<1> HIDE DEF First
<1>6. Enclosing(v) \in 1..Len(gmRegion) /\ First(Enclosing(v))
  BY <1>4, <1>5, Zenon
<1> QED
  BY <1>1, <1>6 DEF First

(* So for such an address the CPU finds the page of that region.           *)
LEMMA CpuFinds ==
    ASSUME TypeOK, RegionsInv, NEW g \in AllButLast, g <= cur,
           NEW v \in Backed(gmRegion[g]), OnlyIn(g, v)
    PROVE  CpuPage(v) = PageOf(g, v)
<1>1. g \in 1..cur
  <2>1. Len(dump) \in Nat /\ cur \in Nat
    BY HeaderFacts DEF TypeOK
  <2> QED
    BY <2>1 DEF AllButLast
<1>2. Encloses(gmRegion[g], v)
  BY <1>1, BackedFacts
<1>3. Enclosing(v) = g
  BY <1>1, <1>2, EnclosingFacts, OnlyOneHolds
<1> QED
  BY <1>3 DEF CpuPage, PageOf

-----------------------------------------------------------------------------
(* The page table.                                                         *)

(* What both invariants speak of: a page of a region that was read and is  *)
(* not the last.                                                           *)
LEMMA OwnPage ==
    ASSUME TypeOK, RegionsInv, NEW g \in AllButLast, g <= cur, NEW v \in Backed(gmRegion[g])
    PROVE  /\ g \in 1..cur /\ g \in 1..Len(dump) /\ g <= Len(dump) - 1 /\ cur \in Nat
           /\ Len(dump) \in Nat /\ HeaderAt(g) = dump[g]
           /\ gmRegion[g].start = dump[g].start /\ gmRegion[g].valid = dump[g].valid
           /\ gmRegion[g].start \in Nat
           /\ v \in Vpns /\ v \in Nat /\ v >= gmRegion[g].start
           /\ v < gmRegion[g].end /\ v < gmRegion[g].start + gmRegion[g].nents
           /\ PageOf(g, v) \in 1..Len(mem)
<1>1. Len(dump) \in Nat /\ cur \in Nat
  BY HeaderFacts DEF TypeOK
<1>2. g \in 1..cur /\ g \in 1..Len(dump) /\ g <= Len(dump) - 1
  BY <1>1 DEF AllButLast
<1>3. HeaderAt(g) = dump[g]
  BY <1>1, <1>2 DEF HeaderAt
<1>4. /\ gmRegion[g].start = HeaderAt(g).start /\ gmRegion[g].valid = HeaderAt(g).valid
      /\ gmRegion[g].start \in Nat
  BY <1>2, RegionFacts
<1>5. v \in Vpns /\ v \in Nat /\ PageOf(g, v) \in 1..Len(mem)
  BY <1>2, BackedFacts
<1>6. v >= gmRegion[g].start /\ v < gmRegion[g].end /\ v < gmRegion[g].start + gmRegion[g].nents
  BY DEF Backed
<1> QED
  BY <1>1, <1>2, <1>3, <1>4, <1>5, <1>6

(* A page of the region being loaded, and how far the loader is in it.     *)
LEMMA PastFacts ==
    ASSUME TypeOK, RegionsInv, NEW g \in AllButLast, g <= cur, NEW v \in Backed(gmRegion[g])
    PROVE  /\ phase # "pages" => Past(g, v)
           /\ g < cur => Past(g, v)
           /\ phase = "pages" /\ ~PagesLeft => Past(g, v)
           /\ g = cur /\ phase = "pages" => (Past(g, v) <=> v < Header.start + pageCnt)
<1>1. /\ g \in 1..cur /\ cur \in Nat /\ gmRegion[g].start \in Nat /\ v \in Nat
      /\ v < gmRegion[g].end /\ v < gmRegion[g].start + gmRegion[g].nents
  BY OwnPage
<1>2. g < cur \/ g = cur
  BY <1>1
<1>3. ASSUME phase = "pages", ~PagesLeft, g = cur PROVE v < Header.start + pageCnt
  <2>1. /\ gmRegion[g].start = Header.start /\ gmRegion[g].end = Header.end
        /\ gmRegion[g].nents = Header.nents /\ pageCnt \in Nat
        /\ gmRegion[g].end \in Nat /\ gmRegion[g].nents \in Nat
    BY <1>1, <1>3, RegionFacts DEF Header, TypeOK
  <2> QED
    BY <1>1, <1>3, <2>1 DEF PagesLeft
<1> QED
  BY <1>1, <1>2, <1>3 DEF Past

(* Steps that leave loader and list alone leave the places alone.          *)
LEMMA PlacesStay ==
    ASSUME UNCHANGED <<loadVars, phase, gmRegion>>
    PROVE  /\ AllButLast' = AllButLast
           /\ \A g, v : Past(g, v)' <=> Past(g, v)
           /\ \A g, v : OnlyIn(g, v)' <=> OnlyIn(g, v)
           /\ \A g, v : PageOf(g, v)' = PageOf(g, v)
           /\ \A g, v : Recorded(g, v)' = Recorded(g, v)
           /\ \A v : CpuPage(v)' = CpuPage(v)
<1>1. UNCHANGED <<dump, cur, feof, pageCnt, buf, phase, gmRegion>>
  BY DEF loadVars
<1>2. AllButLast' = AllButLast
  BY <1>1 DEF AllButLast
<1>3. \A g, v : Past(g, v)' <=> Past(g, v)
  BY <1>1 DEF Past, Header, HeaderAt
<1>4. \A g, v : OnlyIn(g, v)' <=> OnlyIn(g, v)
  BY <1>1 DEF OnlyIn
<1>5. \A g, v : PageOf(g, v)' = PageOf(g, v)
  BY <1>1 DEF PageOf
<1>6. \A g, v : Recorded(g, v)' = Recorded(g, v)
  BY <1>1 DEF Recorded
<1>7. \A v : CpuPage(v)' = CpuPage(v)
  <2>1. \A v : Enclosing(v)' = Enclosing(v)
    BY <1>1, Zenon DEF Enclosing
  <2> QED
    BY <1>1, <2>1 DEF CpuPage
<1> QED
  BY <1>2, <1>3, <1>4, <1>5, <1>6, <1>7

(* When a region is added, the loader is past all earlier ones and at the  *)
(* start of this one.                                                      *)
LEMMA PlacesAfterRead ==
    ASSUME Tables, ReadHeader
    PROVE  /\ AllButLast' = AllButLast
           /\ \A g, v : OnlyIn(g, v)' <=> OnlyIn(g, v)
           /\ \A g, v : Recorded(g, v)' = Recorded(g, v)
           /\ \A g \in AllButLast : g <= cur + 1 =>
                 \/ /\ g <= cur
                    /\ gmRegion'[g] = gmRegion[g]
                    /\ \A v : PageOf(g, v)' = PageOf(g, v) /\ Past(g, v)' 
                    /\ \A v \in Backed(gmRegion[g]) : Past(g, v)
                 \/ /\ g = cur + 1
                    /\ \A v \in Backed(gmRegion'[g]) :
                          ~Past(g, v)' /\ PageOf(g, v)' \in 1..Len(mem') /\ PageOf(g, v)' > Len(mem)
<1>1. dump' = dump /\ cur' = cur + 1 /\ pageCnt' = 0 /\ phase' = "pages" /\ phase = "header"
  BY DEF ReadHeader
<1>2. /\ cur \in Nat /\ Len(dump) \in Nat /\ HeaderAt(cur + 1) \in Region /\ Len(mem) \in Nat
      /\ Len(mem') = Len(mem) + HeaderAt(cur + 1).nents
      /\ gmRegion'[cur + 1] = NewRegion(HeaderAt(cur + 1), Len(mem))
      /\ \A g \in 1..cur : gmRegion'[g] = gmRegion[g]
  BY ReadEffect
<1>3. AllButLast' = AllButLast
  BY <1>1 DEF AllButLast
<1>4. \A g, v : OnlyIn(g, v)' <=> OnlyIn(g, v)
  BY <1>1 DEF OnlyIn
<1>5. \A g, v : Recorded(g, v)' = Recorded(g, v)
  BY <1>1 DEF Recorded
<1>6. TypeOK /\ RegionsInv
  BY DEF Tables
<1>7. ASSUME NEW g \in AllButLast, g <= cur
      PROVE  /\ gmRegion'[g] = gmRegion[g]
             /\ \A v : PageOf(g, v)' = PageOf(g, v) /\ Past(g, v)'
             /\ \A v \in Backed(gmRegion[g]) : Past(g, v)
  <2>1. g \in Nat /\ g \in 1..cur /\ g < cur + 1
    BY <1>2, <1>7 DEF AllButLast
  <2>2. gmRegion'[g] = gmRegion[g]
    BY <1>2, <2>1
  <2>3. \A v : PageOf(g, v)' = PageOf(g, v)
    BY <2>2 DEF PageOf
  <2>4. \A v : Past(g, v)'
    BY <1>1, <2>1 DEF Past
  <2>5. \A v \in Backed(gmRegion[g]) : Past(g, v)
    BY <1>1, <1>6, <1>7, PastFacts
  <2> QED
    BY <2>2, <2>3, <2>4, <2>5
<1>8. ASSUME NEW g \in AllButLast, g = cur + 1, NEW v \in Backed(gmRegion'[g])
      PROVE  ~Past(g, v)' /\ PageOf(g, v)' \in 1..Len(mem') /\ PageOf(g, v)' > Len(mem)
  <2> DEFINE r == HeaderAt(cur + 1)
             q == gmRegion'[cur + 1]
  <2>1. /\ q.start = r.start /\ q.end = r.end /\ q.nents = r.nents /\ r.nents \in Nat
        /\ \A k \in 1..r.nents : q.pages[k] = Len(mem) + k
    BY <1>2, NewRegionFacts
  <2>2. r.start \in Nat
    BY <1>2, DumpsAssumption DEF Region
  <2>3. v \in Nat /\ v >= r.start /\ v < r.start + r.nents
    BY <1>8, <2>1, DumpsAssumption DEF Backed
  <2>4. (v - r.start) + 1 \in 1..r.nents
    BY <2>1, <2>2, <2>3
  <2>5. q.pages[(v - q.start) + 1] = Len(mem) + ((v - r.start) + 1)
    BY <2>1, <2>4
  <2>6. PageOf(g, v)' = Len(mem) + ((v - r.start) + 1)
    BY <1>8, <2>5 DEF PageOf
  <2>7. Header'.start = r.start
    BY <1>1 DEF Header, HeaderAt
  <2>8. ~(v < r.start + 0) /\ ~(cur + 1 < cur + 1)
    BY <1>2, <2>2, <2>3
  <2>9. ~Past(g, v)'
    BY <1>1, <1>8, <2>7, <2>8 DEF Past
  <2> QED
    BY <1>2, <2>1, <2>4, <2>6, <2>9
<1>9. \A g \in AllButLast : g <= cur + 1 => g <= cur \/ g = cur + 1
  BY <1>2 DEF AllButLast
<1> QED
  BY <1>3, <1>4, <1>5, <1>7, <1>8, <1>9

(* One page of the last region is loaded: it is a new place of the loader  *)
(* only for that page.                                                     *)
LEMMA PlacesAfterLoad ==
    ASSUME Tables, LoadPage
    PROVE  /\ AllButLast' = AllButLast
           /\ \A g, v : OnlyIn(g, v)' <=> OnlyIn(g, v)
           /\ \A g, v : Recorded(g, v)' = Recorded(g, v)
           /\ \A g, v : PageOf(g, v)' = PageOf(g, v)
           /\ \A g \in AllButLast : g <= cur =>
                 \A v \in Backed(gmRegion[g]) : OnlyIn(g, v) =>
                    \/ /\ g = cur /\ v = Header.start + pageCnt
                       /\ PageOf(g, v) = NewPage
                       /\ Past(g, v)' /\ ~Past(g, v)
                    \/ /\ v # Header.start + pageCnt
                       /\ PageOf(g, v) # NewPage
                       /\ Past(g, v)' <=> Past(g, v)
<1>1. /\ UNCHANGED <<dump, cur, feof, phase, gmRegion>> /\ pageCnt' = pageCnt + 1
      /\ phase = "pages" /\ PagesLeft
  BY DEF LoadPage
<1>2. /\ cur \in 1..(Len(dump) + 1) /\ Len(dump) \in Nat
      /\ pageCnt + 1 \in 1..Header.nents /\ Header.start \in Nat
      /\ NewPage = gmRegion[cur].pages[pageCnt + 1]
  BY LoadEffect
<1>3. TypeOK /\ RegionsInv /\ pageCnt \in Nat
  BY DEF Tables, TypeOK
<1>4. AllButLast' = AllButLast
  BY <1>1 DEF AllButLast
<1>5. \A g, v : OnlyIn(g, v)' <=> OnlyIn(g, v)
  BY <1>1 DEF OnlyIn
<1>6. \A g, v : Recorded(g, v)' = Recorded(g, v)
  BY <1>1 DEF Recorded
<1>7. \A g, v : PageOf(g, v)' = PageOf(g, v)
  BY <1>1 DEF PageOf
<1>8. cur \in 1..cur
  BY <1>2
<1>9. /\ gmRegion[cur].start = Header.start /\ gmRegion[cur].end = Header.end
      /\ gmRegion[cur].nents = Header.nents
      /\ Header.end \in Nat /\ Header.nents \in Nat
  BY <1>3, <1>8, RegionFacts DEF Header
<1>10. Encloses(gmRegion[cur], Header.start + pageCnt)
  BY <1>1, <1>2, <1>3, <1>9 DEF Encloses, PagesLeft
<1>11. Header' = Header
  BY <1>1 DEF Header, HeaderAt
<1>12. ASSUME NEW g \in AllButLast, g <= cur, NEW v \in Backed(gmRegion[g]), OnlyIn(g, v)
       PROVE  \/ /\ g = cur /\ v = Header.start + pageCnt
                 /\ PageOf(g, v) = NewPage
                 /\ Past(g, v)' /\ ~Past(g, v)
              \/ /\ v # Header.start + pageCnt
                 /\ PageOf(g, v) # NewPage
                 /\ Past(g, v)' <=> Past(g, v)
  <2>1. /\ g \in 1..cur /\ v \in Nat /\ gmRegion[g].start \in Nat
        /\ (v - gmRegion[g].start) + 1 \in 1..gmRegion[g].nents
    <3>1. g \in 1..cur
      BY <1>3, <1>12, OwnPage
    <3> QED
      BY <1>3, <3>1, BackedFacts, RegionFacts
  <2>2. CASE v = Header.start + pageCnt
    <3>1. g = cur
      BY <1>3, <1>8, <1>10, <1>12, <2>2, OnlyOneHolds
    <3>2. (v - gmRegion[g].start) + 1 = pageCnt + 1
      BY <1>2, <1>3, <1>9, <2>2, <3>1
    <3>3. PageOf(g, v) = NewPage
      BY <1>2, <3>1, <3>2 DEF PageOf
    <3>4. v < Header.start + (pageCnt + 1) /\ ~(v < Header.start + pageCnt) /\ ~(g < cur)
      BY <1>2, <1>3, <2>2, <3>1
    <3>5. Past(g, v)' /\ ~Past(g, v)
      BY <1>1, <1>11, <3>1, <3>4 DEF Past
    <3> QED
      BY <2>2, <3>1, <3>3, <3>5
  <2>3. CASE v # Header.start + pageCnt
    <3>1. ASSUME PageOf(g, v) = NewPage PROVE FALSE
      <4>1. pageCnt + 1 \in 1..gmRegion[cur].nents
        BY <1>2, <1>9
      <4>2. g = cur /\ (v - gmRegion[g].start) + 1 = pageCnt + 1
        <5> DEFINE k == (v - gmRegion[g].start) + 1
                   l == pageCnt + 1
        <5>1. /\ k \in 1..gmRegion[g].nents /\ l \in 1..gmRegion[cur].nents
              /\ gmRegion[g].pages[k] = gmRegion[cur].pages[l]
          BY <1>2, <2>1, <3>1, <4>1 DEF PageOf
        <5> HIDE DEF k, l
        <5>2. g = cur /\ k = l
          BY <1>3, <1>8, <2>1, <5>1, OnePlace
        <5> QED
          BY <5>2 DEF k, l
      <4>3. v = Header.start + pageCnt
        BY <1>3, <1>9, <2>1, <4>2
      <4> QED
        BY <2>3, <4>3
    <3>2. v < Header.start + (pageCnt + 1) <=> v < Header.start + pageCnt
      BY <1>2, <1>3, <2>1, <2>3, SMTT(30)
    <3>3. Past(g, v)' <=> Past(g, v)
      BY <1>1, <1>11, <3>2 DEF Past
    <3> QED
      BY <2>3, <3>1, <3>3
  <2> QED
    BY <2>2, <2>3
<1> QED
  BY <1>4, <1>5, <1>6, <1>7, <1>12

(* At the end of a region the loader is past all of it.                    *)
LEMMA PlacesAtEnd ==
    ASSUME Tables, EndOfRegion
    PROVE  /\ AllButLast' = AllButLast
           /\ \A g, v : OnlyIn(g, v)' <=> OnlyIn(g, v)
           /\ \A g, v : Recorded(g, v)' = Recorded(g, v)
           /\ \A g, v : PageOf(g, v)' = PageOf(g, v)
           /\ \A g \in AllButLast : g <= cur => \A v \in Backed(gmRegion[g]) : Past(g, v)
<1>1. UNCHANGED <<dump, gmRegion>> /\ phase = "pages" /\ ~PagesLeft
  BY DEF EndOfRegion, loadVars
<1>2. AllButLast' = AllButLast /\ \A g, v : OnlyIn(g, v)' <=> OnlyIn(g, v)
  BY <1>1 DEF AllButLast, OnlyIn
<1>3. \A g, v : Recorded(g, v)' = Recorded(g, v) /\ PageOf(g, v)' = PageOf(g, v)
  BY <1>1 DEF Recorded, PageOf
<1>4. \A g \in AllButLast : g <= cur => \A v \in Backed(gmRegion[g]) : Past(g, v)
  BY <1>1, PastFacts DEF Tables
<1> QED
  BY <1>2, <1>3, <1>4

LEMMA EntriesStart ==
    ASSUME Init
    PROVE  EntriesInv
<1>1. Len(dump) \in Nat
  BY DumpsAssumption, LenProperties DEF Init
<1> QED
  BY <1>1 DEF Init, EntriesInv, AllButLast

LEMMA EntriesStep ==
    ASSUME Tables, EntriesInv, [Next]_vars
    PROVE  EntriesInv'
<1> USE DEF EntriesInv
<1>1. TypeOK /\ RegionsInv /\ pgt \in [Vpns -> 0..Len(mem)]
  BY DEF Tables, TypeOK
<1>2. CASE ReadHeader
  <2> SUFFICES ASSUME NEW g \in AllButLast, g <= cur + 1,
                      NEW v \in Backed(gmRegion'[g]), OnlyIn(g, v), Past(g, v)'
               PROVE  pgt[v] = PageOf(g, v)'
    <3>1. cur' = cur + 1 /\ pgt' = pgt
      BY <1>2 DEF ReadHeader
    <3>2. AllButLast' = AllButLast /\ \A g, v : OnlyIn(g, v)' <=> OnlyIn(g, v)
      BY <1>2, PlacesAfterRead
    <3>3. \A g : Backed(gmRegion[g])' = Backed(gmRegion'[g])
      BY DEF Backed
    <3> QED
      BY <3>1, <3>2, <3>3
  <2>1. \/ /\ g <= cur /\ gmRegion'[g] = gmRegion[g]
           /\ PageOf(g, v)' = PageOf(g, v)
           /\ \A u \in Backed(gmRegion[g]) : Past(g, u)
        \/ ~Past(g, v)'
    BY <1>2, PlacesAfterRead
  <2> QED
    BY <2>1
<1>3. CASE LoadPage
  <2>1. /\ UNCHANGED <<cur, gmRegion>> /\ pgt' = [pgt EXCEPT ![Header.start + pageCnt] = NewPage]
        /\ Header.start + pageCnt \in Vpns
    BY <1>3, LoadEffect DEF LoadPage
  <2>2. /\ AllButLast' = AllButLast
        /\ \A g, v : OnlyIn(g, v)' <=> OnlyIn(g, v)
        /\ \A g, v : PageOf(g, v)' = PageOf(g, v)
    BY <1>3, PlacesAfterLoad
  <2> SUFFICES ASSUME NEW g \in AllButLast, g <= cur,
                      NEW v \in Backed(gmRegion[g]), OnlyIn(g, v), Past(g, v)'
               PROVE  pgt'[v] = PageOf(g, v)
    <3>1. \A g : Backed(gmRegion[g])' = Backed(gmRegion[g])
      BY <2>1 DEF Backed
    <3> QED
      BY <2>1, <2>2, <3>1
  <2>3. \/ v = Header.start + pageCnt /\ PageOf(g, v) = NewPage
        \/ v # Header.start + pageCnt /\ Past(g, v)
    BY <1>3, PlacesAfterLoad
  <2>4. v \in Vpns
    BY DEF Backed
  <2>5. pgt'[v] = IF v = Header.start + pageCnt THEN NewPage ELSE pgt[v]
    BY <1>1, <2>1, <2>4
  <2> QED
    BY <2>3, <2>5
<1>4. CASE EndOfRegion
  <2>1. UNCHANGED <<cur, gmRegion, pgt>>
    BY <1>4 DEF EndOfRegion, loadVars
  <2>2. \A g : Backed(gmRegion[g])' = Backed(gmRegion[g])
    BY <2>1 DEF Backed
  <2>3. /\ AllButLast' = AllButLast
        /\ \A g, v : OnlyIn(g, v)' <=> OnlyIn(g, v)
        /\ \A g, v : PageOf(g, v)' = PageOf(g, v)
        /\ \A g \in AllButLast : g <= cur => \A v \in Backed(gmRegion[g]) : Past(g, v)
    BY <1>4, PlacesAtEnd
  <2> QED
    BY <2>1, <2>2, <2>3
<1>5. CASE UNCHANGED <<loadVars, phase, gmRegion, pgt>>
  <2>1. \A g : Backed(gmRegion[g])' = Backed(gmRegion[g])
    BY <1>5 DEF Backed
  <2>2. /\ AllButLast' = AllButLast
        /\ \A g, v : Past(g, v)' <=> Past(g, v)
        /\ \A g, v : OnlyIn(g, v)' <=> OnlyIn(g, v)
        /\ \A g, v : PageOf(g, v)' = PageOf(g, v)
    BY <1>5, PlacesStay
  <2> QED
    BY <1>5, <2>1, <2>2 DEF loadVars
<1>6. CASE RestorePte
  <2>1. UNCHANGED <<loadVars, phase, gmRegion>> /\ Len(gmRegion) = cur
    BY <1>1, <1>6 DEF RestorePte, RegionsInv
  <2>2. \A g : Backed(gmRegion[g])' = Backed(gmRegion[g])
    BY <2>1 DEF Backed
  <2>3. /\ AllButLast' = AllButLast
        /\ \A g, v : OnlyIn(g, v)' <=> OnlyIn(g, v)
        /\ \A g, v : PageOf(g, v)' = PageOf(g, v)
    BY <2>1, PlacesStay
  <2> SUFFICES ASSUME NEW g \in AllButLast, g <= cur,
                      NEW v \in Backed(gmRegion[g]), OnlyIn(g, v)
               PROVE  pgt'[v] = PageOf(g, v)
    BY <2>1, <2>2, <2>3 DEF loadVars
  <2>4. g \in 1..cur
    BY <1>1, OwnPage
  <2>5. v \in Loaded
    BY <2>1, <2>4 DEF Loaded
  <2>6. PICK h \in 1..cur : v \in Backed(gmRegion[h]) /\ pgt'[v] = PageOf(h, v)
    BY <1>6, <2>5, RestorePteEffect
  <2>7. Encloses(gmRegion[h], v)
    BY <1>1, <2>6, BackedFacts
  <2>8. h = g
    BY <1>1, <2>7, OnlyOneHolds
  <2> QED
    BY <2>6, <2>8
<1> QED
  BY <1>2, <1>3, <1>4, <1>5, <1>6
  DEF Next, Load, RestoreMemory, CopyIn, GpuRun, Done, vars

-----------------------------------------------------------------------------
(* Contents.                                                               *)

LEMMA ContentStart ==
    ASSUME Init
    PROVE  ContentInv
<1>1. Len(dump) \in Nat
  BY DumpsAssumption, LenProperties DEF Init
<1> QED
  BY <1>1 DEF Init, ContentInv, AllButLast

(* No page of an invalid region is one of a valid region: zeroing the      *)
(* first does no harm to the second.                                       *)
LEMMA CleanedElsewhere ==
    ASSUME TypeOK, RegionsInv, AtEnd, OverlapsBacked(dump),
           NEW g \in AllButLast, g <= cur, NEW v \in Backed(gmRegion[g]), OnlyIn(g, v),
           NEW h \in 1..cur, ~gmRegion[h].valid, NEW u \in Backed(gmRegion[h]),
           CpuPage(u) = PageOf(g, v)
    PROVE  ~gmRegion[g].valid
<1> DEFINE e == Enclosing(u)
<1>1. Encloses(gmRegion[h], u)
  BY BackedFacts
<1>2. e \in 1..cur /\ Encloses(gmRegion[e], u)
  BY <1>1, EnclosingFacts
<1>3. CpuPage(u) = PageOf(e, u)
  BY DEF CpuPage, PageOf
<1> HIDE DEF e
<1>4. PICK i \in 1..Len(dump) :
         /\ gmRegion[h].valid = dump[i].valid
         /\ Backed(gmRegion[h]) = Backed(dump[i])
  BY DumpFacts
<1>5. PICK j \in 1..Len(dump) :
         /\ Backed(gmRegion[e]) = Backed(dump[j])
         /\ \A w : Encloses(gmRegion[e], w) <=> Encloses(dump[j], w)
  BY <1>2, DumpFacts
<1>6. u \in Backed(gmRegion[e])
  BY <1>2, <1>4, <1>5 DEF OverlapsBacked
<1>7. g \in 1..cur
  BY OwnPage
<1> DEFINE k == (u - gmRegion[e].start) + 1
           l == (v - gmRegion[g].start) + 1
<1>8. /\ k \in 1..gmRegion[e].nents /\ l \in 1..gmRegion[g].nents
      /\ gmRegion[e].pages[k] = gmRegion[g].pages[l]
      /\ u \in Nat /\ v \in Nat /\ gmRegion[g].start \in Nat
  BY <1>2, <1>3, <1>6, <1>7, BackedFacts, RegionFacts DEF PageOf
<1>9. e = g /\ k = l
  <2> HIDE DEF k, l
  <2> QED
    BY <1>2, <1>7, <1>8, OnePlace
<1>10. u = v
  BY <1>8, <1>9, SMTT(30)
<1>11. h = g
  BY <1>1, <1>10, OnlyOneHolds
<1> QED
  BY <1>11

(* Restoring the contents of a page.                                       *)
LEMMA ContentRestored ==
    ASSUME Tables, RestoreMemory, OverlapsBacked(dump),
           NEW g \in AllButLast, g <= cur, NEW v \in Backed(gmRegion[g]), OnlyIn(g, v)
    PROVE  mem'[PageOf(g, v)] = Recorded(g, v)
<1>1. TypeOK /\ RegionsInv /\ AtEnd
  BY DEF Tables, RegionsInv, RestoreMemory
<1>2. /\ g \in 1..cur /\ g \in 1..Len(dump) /\ Len(dump) \in Nat
      /\ gmRegion[g].start = dump[g].start /\ gmRegion[g].valid = dump[g].valid
      /\ PageOf(g, v) \in 1..Len(mem)
  BY <1>1, OwnPage
<1> DEFINE Cleaned == \E h \in 1..cur : ~gmRegion[h].valid
                         /\ \E u \in Backed(gmRegion[h]) : CpuPage(u) = PageOf(g, v)
<1>3. mem'[PageOf(g, v)] = IF Cleaned THEN "zero" ELSE ContentsAfterCheck[PageOf(g, v)]
  BY <1>2, RestoreEffect
<1>4. CASE gmRegion[g].valid
  <2>1. ~Cleaned
    BY <1>1, <1>4, CleanedElsewhere
  <2> DEFINE k == (v - gmRegion[g].start) + 1
  <2>2. /\ k \in 1..gmRegion[g].nents /\ k <= gmRegion[g].end - gmRegion[g].start
        /\ k \in Int /\ gmRegion[g].end - gmRegion[g].start \in Int
    BY <1>1, <1>2, BackedFacts, RegionFacts, SMTT(30)
  <2>3. PageOf(g, v) = gmRegion[g].pages[k] /\ k = (v - dump[g].start) + 1
    BY <1>2 DEF PageOf
  <2> HIDE DEF k
  <2>4. ContentsAfterCheck[PageOf(g, v)] = dump[g].data[k]
    BY <1>2, <1>4, <2>2, <2>3, CheckEffect
  <2> HIDE DEF Cleaned
  <2> QED
    BY <1>2, <1>3, <1>4, <2>1, <2>3, <2>4 DEF Recorded
<1>5. CASE ~gmRegion[g].valid
  <2>1. CpuPage(v) = PageOf(g, v)
    BY <1>1, CpuFinds
  <2>2. Cleaned
    BY <1>2, <1>5, <2>1
  <2> HIDE DEF Cleaned
  <2> QED
    BY <1>2, <1>3, <1>5, <2>2 DEF Recorded
<1> QED
  BY <1>4, <1>5

LEMMA ContentStep ==
    ASSUME Tables, ContentInv, OverlapsBacked(dump), [Next]_vars
    PROVE  ContentInv'
<1> USE DEF ContentInv
<1>1. TypeOK /\ RegionsInv
  BY DEF Tables
<1>2. CASE ReadHeader
  <2> SUFFICES ASSUME fresh, NEW g \in AllButLast, g <= cur + 1,
                      NEW v \in Backed(gmRegion'[g]), OnlyIn(g, v)
               PROVE  mem'[PageOf(g, v)'] = IF Past(g, v)' THEN Recorded(g, v) ELSE "zero"
    <3>1. cur' = cur + 1 /\ fresh' = fresh
      BY <1>2 DEF ReadHeader
    <3>2. /\ AllButLast' = AllButLast /\ \A g, v : OnlyIn(g, v)' <=> OnlyIn(g, v)
          /\ \A g, v : Recorded(g, v)' = Recorded(g, v)
      BY <1>2, PlacesAfterRead
    <3>3. \A g : Backed(gmRegion[g])' = Backed(gmRegion'[g])
      BY DEF Backed
    <3> QED
      BY <3>1, <3>2, <3>3
  <2>1. CASE g <= cur /\ gmRegion'[g] = gmRegion[g]
    <3>1. PageOf(g, v)' = PageOf(g, v) /\ Past(g, v)' /\ Past(g, v)
      <4>1. g # cur + 1
        BY <1>1, <2>1, OwnPage
      <4> QED
        BY <1>2, <2>1, <4>1, PlacesAfterRead
    <3>2. PageOf(g, v) \in 1..Len(mem)
      BY <1>1, <2>1, OwnPage
    <3>3. mem'[PageOf(g, v)] = mem[PageOf(g, v)]
      BY <1>2, <3>2, ReadEffect
    <3> QED
      BY <2>1, <3>1, <3>3
  <2>2. CASE ~Past(g, v)' /\ PageOf(g, v)' \in 1..Len(mem') /\ PageOf(g, v)' > Len(mem)
    BY <1>2, <2>2, ReadEffect
  <2> QED
    BY <1>2, <2>1, <2>2, PlacesAfterRead
<1>3. CASE LoadPage
  <2>1. UNCHANGED <<cur, gmRegion, fresh>>
    BY <1>3 DEF LoadPage
  <2>2. /\ AllButLast' = AllButLast
        /\ \A g, v : OnlyIn(g, v)' <=> OnlyIn(g, v)
        /\ \A g, v : Recorded(g, v)' = Recorded(g, v)
        /\ \A g, v : PageOf(g, v)' = PageOf(g, v)
    BY <1>3, PlacesAfterLoad
  <2> SUFFICES ASSUME fresh, NEW g \in AllButLast, g <= cur,
                      NEW v \in Backed(gmRegion[g]), OnlyIn(g, v)
               PROVE  mem'[PageOf(g, v)] = IF Past(g, v)' THEN Recorded(g, v) ELSE "zero"
    <3>1. \A g : Backed(gmRegion[g])' = Backed(gmRegion[g])
      BY <2>1 DEF Backed
    <3> QED
      BY <2>1, <2>2, <3>1
  <2>3. /\ g \in 1..cur /\ g \in 1..Len(dump) /\ g <= Len(dump) - 1 /\ Len(dump) \in Nat
        /\ HeaderAt(g) = dump[g] /\ PageOf(g, v) \in 1..Len(mem)
    BY <1>1, OwnPage
  <2>4. mem'[PageOf(g, v)] =
           IF Header.valid /\ PageOf(g, v) = NewPage THEN buf' ELSE mem[PageOf(g, v)]
    BY <1>3, <2>3, LoadEffect
  <2>5. CASE g = cur /\ v = Header.start + pageCnt /\ PageOf(g, v) = NewPage
             /\ Past(g, v)' /\ ~Past(g, v)
    <3>1. Header = dump[g] /\ ~AtEnd
      BY <2>3, <2>5 DEF Header, AtEnd
    <3>2. pageCnt \in Nat /\ Header.start \in Nat
      BY <1>1, <1>3, LoadEffect DEF TypeOK
    <3>3. (v - dump[g].start) + 1 = pageCnt + 1
      BY <2>5, <3>1, <3>2
    <3>4. Header.valid => buf' = dump[g].data[pageCnt + 1]
      BY <1>3, <3>1 DEF LoadPage
    <3>5. mem[PageOf(g, v)] = "zero"
      BY <2>5
    <3> QED
      BY <2>4, <2>5, <3>1, <3>3, <3>4, <3>5 DEF Recorded
  <2>6. CASE PageOf(g, v) # NewPage /\ (Past(g, v)' <=> Past(g, v))
    BY <2>4, <2>6
  <2> QED
    BY <1>3, <2>5, <2>6, PlacesAfterLoad
<1>4. CASE EndOfRegion
  <2>1. UNCHANGED <<cur, gmRegion, mem, fresh>> /\ phase' # "pages"
    BY <1>4 DEF EndOfRegion, loadVars
  <2>2. \A g : Backed(gmRegion[g])' = Backed(gmRegion[g])
    BY <2>1 DEF Backed
  <2>3. /\ AllButLast' = AllButLast
        /\ \A g, v : OnlyIn(g, v)' <=> OnlyIn(g, v)
        /\ \A g, v : Recorded(g, v)' = Recorded(g, v)
        /\ \A g, v : PageOf(g, v)' = PageOf(g, v)
        /\ \A g \in AllButLast : g <= cur => \A v \in Backed(gmRegion[g]) : Past(g, v)
    BY <1>4, PlacesAtEnd
  <2>4. \A g \in AllButLast : g <= cur => \A v : Past(g, v)'
    <3> SUFFICES ASSUME NEW g \in AllButLast, g <= cur, NEW v PROVE Past(g, v)'
      OBVIOUS
    <3>1. g < cur \/ g = cur
      <4>1. Len(dump) \in Nat /\ cur \in Nat
        BY <1>1, HeaderFacts DEF TypeOK
      <4> QED
        BY <4>1 DEF AllButLast
    <3> QED
      BY <2>1, <3>1 DEF Past
  <2> QED
    BY <2>1, <2>2, <2>3, <2>4
<1>5. CASE UNCHANGED <<loadVars, phase, gmRegion, mem, fresh>>
  <2>1. \A g : Backed(gmRegion[g])' = Backed(gmRegion[g])
    BY <1>5 DEF Backed
  <2>2. /\ AllButLast' = AllButLast
        /\ \A g, v : Past(g, v)' <=> Past(g, v)
        /\ \A g, v : OnlyIn(g, v)' <=> OnlyIn(g, v)
        /\ \A g, v : Recorded(g, v)' = Recorded(g, v)
        /\ \A g, v : PageOf(g, v)' = PageOf(g, v)
    BY <1>5, PlacesStay
  <2> QED
    BY <1>5, <2>1, <2>2 DEF loadVars
<1>6. CASE RestoreMemory
  <2>1. UNCHANGED <<loadVars, phase, gmRegion>> /\ phase = "ready"
    BY <1>6 DEF RestoreMemory
  <2>2. \A g : Backed(gmRegion[g])' = Backed(gmRegion[g])
    BY <2>1 DEF Backed
  <2>3. /\ AllButLast' = AllButLast
        /\ \A g, v : Past(g, v)' <=> Past(g, v)
        /\ \A g, v : OnlyIn(g, v)' <=> OnlyIn(g, v)
        /\ \A g, v : Recorded(g, v)' = Recorded(g, v)
        /\ \A g, v : PageOf(g, v)' = PageOf(g, v)
    BY <2>1, PlacesStay
  <2>4. \A g \in AllButLast : g <= cur => \A v \in Backed(gmRegion[g]) : Past(g, v)
    BY <1>1, <2>1, PastFacts
  <2>5. \A g \in AllButLast : g <= cur => \A v \in Backed(gmRegion[g]) :
           OnlyIn(g, v) => mem'[PageOf(g, v)] = Recorded(g, v)
    BY <1>6, ContentRestored
  <2> QED
    BY <2>1, <2>2, <2>3, <2>4, <2>5 DEF loadVars
<1>7. CASE \E v \in Loaded : CopyIn(v) \/ GpuRun(v)
  BY <1>7 DEF CopyIn, GpuRun
<1> QED
  BY <1>2, <1>3, <1>4, <1>5, <1>6, <1>7
  DEF Next, Load, RestorePte, Done, vars

-----------------------------------------------------------------------------
(* What the caller relies on.                                              *)

(* When the loader is ready, what it has read of a region but the last is  *)
(* all of it.                                                              *)
LEMMA ReadyFacts ==
    ASSUME TypeOK, RegionsInv, phase = "ready", NEW g \in AllButLast,
           NEW v \in Backed(dump[g])
    PROVE  g <= cur /\ v \in Backed(gmRegion[g]) /\ Past(g, v)
<1>1. cur > Len(dump) /\ Len(dump) \in Nat /\ cur \in Nat
  BY HeaderFacts DEF RegionsInv, AtEnd, TypeOK
<1>2. g \in 1..cur /\ g <= Len(dump) /\ g < cur
  BY <1>1 DEF AllButLast
<1>3. Backed(gmRegion[g]) = Backed(dump[g])
  BY <1>2, DumpFacts
<1> QED
  BY <1>2, <1>3 DEF Past

LEMMA EntriesInvariant == Spec => []EntriesInv
<1>1. Init => EntriesInv
  BY EntriesStart
<1>2. Tables /\ EntriesInv /\ [Next]_vars => EntriesInv'
  BY EntriesStep
<1> QED
  BY <1>1, <1>2, TablesInvariant, PTL DEF Spec

(* Whatever is copied, replayed and restored, in any order, an address     *)
(* means the same page to gr_copy_to_gpu and gr_copy_from_gpu, which look  *)
(* it up in gm_region[], as to the GPU, which goes through the page table: *)
(* for every dump, and all regions but its last, where no other region     *)
(* holds the address.                                                      *)
THEOREM CpuAndGpuAgree == Spec => []SameView
<1>1. Tables /\ EntriesInv => SameView
  <2> SUFFICES ASSUME Tables, EntriesInv, phase = "ready", NEW g \in AllButLast,
                      NEW v \in Backed(dump[g]), OnlyIn(g, v)
               PROVE  CpuPage(v) = pgt[v]
    BY DEF SameView
  <2>1. TypeOK /\ RegionsInv
    BY DEF Tables
  <2>2. g <= cur /\ v \in Backed(gmRegion[g]) /\ Past(g, v)
    BY <2>1, ReadyFacts
  <2>3. CpuPage(v) = PageOf(g, v)
    BY <2>1, <2>2, CpuFinds
  <2>4. pgt[v] = PageOf(g, v)
    BY <2>2 DEF EntriesInv
  <2> QED
    BY <2>3, <2>4
<1> QED
  BY <1>1, TablesInvariant, EntriesInvariant, PTL

(* Before a replay that nothing but loading or restoring precedes, the GPU *)
(* finds at every such address the recorded content, and zeroes in the     *)
(* regions that were not valid (gr_mem_contents_init; gr_mem_contents_check *)
(* and gr_clean_invalid_region).  The dumps are those in which cleaning a  *)
(* region that overlaps another finds its pages there.                     *)
THEOREM GpuFindsRecording ==
    (\A d \in Dumps : OverlapsBacked(d)) => (Spec => []GpuSeesDump)
<1> SUFFICES ASSUME \A d \in Dumps : OverlapsBacked(d)
             PROVE  Spec => []GpuSeesDump
  OBVIOUS
<1>1. Init => ContentInv
  BY ContentStart
<1>2. Tables /\ ContentInv /\ [Next]_vars => ContentInv'
  <2>1. Tables => OverlapsBacked(dump)
    BY DEF Tables, TypeOK
  <2> QED
    BY <2>1, ContentStep
<1>3. Tables /\ EntriesInv /\ ContentInv => GpuSeesDump
  <2> SUFFICES ASSUME Tables, EntriesInv, ContentInv, phase = "ready", fresh,
                      NEW g \in AllButLast, NEW v \in Backed(dump[g]), OnlyIn(g, v)
               PROVE  GpuSees(v) = Recorded(g, v)
    BY DEF GpuSeesDump
  <2>1. TypeOK /\ RegionsInv
    BY DEF Tables
  <2>2. g <= cur /\ v \in Backed(gmRegion[g]) /\ Past(g, v)
    BY <2>1, ReadyFacts
  <2>3. pgt[v] = PageOf(g, v)
    BY <2>2 DEF EntriesInv
  <2>4. mem[PageOf(g, v)] = Recorded(g, v)
    BY <2>2 DEF ContentInv
  <2> QED
    BY <2>3, <2>4 DEF GpuSees
<1> QED
  BY <1>1, <1>2, <1>3, TablesInvariant, EntriesInvariant, PTL DEF Spec
=============================================================================

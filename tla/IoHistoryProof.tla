--------------------------- MODULE IoHistoryProof ---------------------------
(***************************************************************************)
(* Proof, for every size of the ring that divides the range of the         *)
(* counter, that a dump during which nothing is added writes exactly the   *)
(* last accesses of the history, before and after the counter overflows.   *)
(***************************************************************************)
EXTENDS IoHistory, TLAPS

USE DEF hvars, dvars, RingTypeOK, DumpTypeOK

-----------------------------------------------------------------------------
(* Arithmetic of the index into the ring.                                  *)
LEMMA Quotient ==
    ASSUME NEW a \in Int, NEW c \in Nat \ {0}
    PROVE  /\ a \div c \in Int /\ a % c \in 0..(c - 1)
           /\ a = c * (a \div c) + (a % c)
  OBVIOUS

(* A larger multiple is larger by at least one whole.                      *)
LEMMA Multiple ==
    ASSUME NEW q \in Int, NEW p \in Int, NEW c \in Nat, q < p
    PROVE  c * q \in Int /\ c * p \in Int /\ c * q + c <= c * p
<1>1. PICK d \in Nat : p = q + 1 + d
  <2>1. p - (q + 1) \in Nat /\ p = q + 1 + (p - (q + 1)) BY SMT
  <2> QED BY <2>1, Zenon
<1>2. c * d \in Nat BY SMT
<1>3. c * p = c * q + c + c * d BY <1>1, SMT
<1> QED BY <1>2, <1>3, SMT

(* Quotient and remainder are unique.                                      *)
LEMMA Unique ==
    ASSUME NEW q \in Int, NEW p \in Int, NEW c \in Nat \ {0},
           NEW r \in 0..(c - 1), NEW s \in 0..(c - 1), c * q + r = c * p + s
    PROVE  q = p /\ r = s
<1>1. c * q \in Int /\ c * p \in Int BY SMT
<1>2. CASE q < p BY <1>1, <1>2, Multiple
<1>3. CASE p < q BY <1>1, <1>3, Multiple
<1>4. CASE q = p BY <1>1, <1>4
<1> QED BY <1>2, <1>3, <1>4

(* Equal remainders stay equal when the same is added.                     *)
LEMMA ModShift ==
    ASSUME NEW a \in Int, NEW b \in Int, NEW d \in Int, NEW c \in Nat \ {0},
           a % c = b % c
    PROVE  (a + d) % c = (b + d) % c
<1> DEFINE qa == a \div c  qb == b \div c  m == (a + d) \div c  n == (b + d) \div c
           t == (a + d) % c  u == (b + d) % c
           r == a % c
<1>0. a + d \in Int /\ b + d \in Int
  OBVIOUS
<1>1. /\ qa \in Int /\ r \in 0..(c - 1) /\ a = c * qa + r
      /\ qb \in Int /\ b = c * qb + r
  BY Quotient
<1>2. m \in Int /\ t \in 0..(c - 1) /\ a + d = c * m + t
  BY <1>0, Quotient
<1>3. n \in Int /\ u \in 0..(c - 1) /\ b + d = c * n + u
  BY <1>0, Quotient
<1> SUFFICES t = u
  OBVIOUS
<1> HIDE DEF qa, qb, m, n, t, u, r
<1>4. c * (m + (qb - qa)) = c * m + (c * qb - c * qa)
  BY <1>1, <1>2
<1>5. c * m \in Int /\ c * n \in Int /\ c * qa \in Int /\ c * qb \in Int
  BY <1>1, <1>2, <1>3
<1>6. c * (m + (qb - qa)) + t = c * n + u
  BY <1>1, <1>2, <1>3, <1>4, <1>5
<1> DEFINE q == m + (qb - qa)
<1>7. q \in Int /\ c * q + t = c * n + u
  BY <1>1, <1>2, <1>6
<1> HIDE DEF q
<1> QED BY <1>2, <1>3, <1>7, Unique

(* Two positions less than a ring apart are different entries.             *)
LEMMA ModDistinct ==
    ASSUME NEW a \in Int, NEW d \in Int, NEW c \in Nat \ {0}, 0 < d, d < c
    PROVE  (a + d) % c # a % c
<1> SUFFICES ASSUME (a + d) % c = a % c PROVE FALSE
  OBVIOUS
<1> DEFINE q == a \div c  p == (a + d) \div c  r == a % c
<1>1. /\ q \in Int /\ p \in Int /\ r \in 0..(c - 1)
      /\ a = c * q + r /\ a + d = c * p + r
  BY Quotient
<1> HIDE DEF q, p, r
<1>2. c * q \in Int /\ c * p \in Int BY <1>1
<1>3. CASE q < p BY <1>1, <1>2, <1>3, Multiple
<1>4. CASE p < q BY <1>1, <1>2, <1>4, Multiple
<1>5. CASE p = q BY <1>1, <1>2, <1>5
<1> QED BY <1>1, <1>3, <1>4, <1>5

(* Remainders at the two ends of the range.                                *)
LEMMA ModSelf == ASSUME NEW c \in Nat \ {0} PROVE c % c = 0
<1>1. c \div c \in Int /\ c % c \in 0..(c - 1) /\ c = c * (c \div c) + (c % c)
  BY Quotient
<1>2. c * 1 + 0 = c * (c \div c) + (c % c)
  BY <1>1
<1> QED BY <1>1, <1>2, Unique

(* A number below the divisor is its own remainder.                        *)
LEMMA ModSmall == ASSUME NEW c \in Nat \ {0}, NEW a \in 0..(c - 1) PROVE a % c = a
<1>1. a \div c \in Int /\ a % c \in 0..(c - 1) /\ a = c * (a \div c) + (a % c)
  BY Quotient
<1>2. c * 0 + a = c * (a \div c) + (a % c)
  BY <1>1
<1> QED BY <1>1, <1>2, Unique

(* A sequence with one more element at its end.                            *)
LEMMA AppendFacts ==
    ASSUME NEW s, s \in Seq(Nat), NEW e \in Nat
    PROVE  /\ Len(Append(s, e)) = Len(s) + 1
           /\ Append(s, e)[Len(s) + 1] = e
           /\ \A m \in 1..Len(s) : Append(s, e)[m] = s[m]
  OBVIOUS

-----------------------------------------------------------------------------
(* What gr_io_history_add makes of the counter.                            *)
LEMMA CountStep ==
    ASSUME TypeOK, Ring
    PROVE  LET c == IF (count + 1) % Wrap = 0 THEN Size ELSE count + 1
           IN  /\ c \in 0..(Wrap - 1)
               /\ Kept(Len(log) + 1) <= c /\ c <= Len(log) + 1
               /\ c % Size = (Len(log) + 1) % Size
<1> DEFINE n == Len(log)
<1>0. n \in Nat /\ count \in Nat /\ count < Wrap /\ Wrap \in Nat \ {0} /\ Size \in Nat \ {0}
      /\ Size < Wrap /\ Wrap % Size = 0 /\ count <= n /\ Kept(n) <= count
  BY SizeAssumption, WrapAssumption DEF TypeOK, Ring
<1>1. (count + 1) % Size = (n + 1) % Size
  BY <1>0, ModShift DEF Ring
<1>2. CASE count + 1 = Wrap
  <2>1. (count + 1) % Wrap = 0
    BY <1>0, <1>2, ModSelf
  <2>2. Size % Size = (n + 1) % Size
    BY <1>0, <1>1, <1>2, ModSelf
  <2> QED BY <1>0, <1>2, <2>1, <2>2 DEF Kept
<1>3. CASE count + 1 # Wrap
  <2>1. count + 1 \in 0..(Wrap - 1)
    BY <1>0, <1>3
  <2>2. (count + 1) % Wrap # 0
    BY <1>0, <2>1, ModSmall
  <2> QED BY <1>0, <1>1, <2>1, <2>2 DEF Kept
<1> QED BY <1>2, <1>3

(* gr_io_history_add keeps the last Size accesses in the ring.             *)
LEMMA AddStep ==
    ASSUME RingInv, NEW t \in Threads, Add(t)
    PROVE  RingInv'
<1> USE DEF RingInv
<1> DEFINE n == Len(log)  s == held[t]
           c == IF (count + 1) % Wrap = 0 THEN Size ELSE count + 1
<1>1. /\ s \in Nat /\ s # 0 /\ n \in Nat /\ log \in Seq(Nat) /\ count \in Nat
      /\ Size \in Nat \ {0} /\ buf \in [0..(Size - 1) -> Nat]
  BY SizeAssumption DEF TypeOK, Add, Store
<1>2. /\ c \in 0..(Wrap - 1) /\ c % Size = (n + 1) % Size
      /\ Kept(n + 1) <= c /\ c <= n + 1
  BY CountStep
<1>3. /\ log' = Append(log, s) /\ count' = c /\ buf' = [buf EXCEPT ![count % Size] = s]
      /\ held' = [held EXCEPT ![t] = 0] /\ UNCHANGED <<accesses, dvars>>
  BY DEF Add, Store
<1> HIDE DEF c, s
<1>4. Len(log') = n + 1 /\ log'[n + 1] = s /\ \A j \in 1..n : log'[j] = log[j]
  BY <1>1, <1>3
<1>5. TypeOK'
  <2>1. count % Size \in 0..(Size - 1) BY <1>1
  <2>2. buf' \in [0..(Size - 1) -> Nat] BY <1>1, <1>3, <2>1
  <2>3. log' \in Seq(Nat) BY <1>1, <1>3
  <2>4. held' \in [Threads -> Nat] BY <1>3 DEF TypeOK
  <2> QED BY <1>2, <1>3, <2>2, <2>3, <2>4 DEF TypeOK
<1>6. ASSUME NEW j \in 1..(n + 1), j > (n + 1) - Size
      PROVE  buf'[(j - 1) % Size] = log'[j]
  <2>1. count % Size = n % Size /\ (j - 1) % Size \in 0..(Size - 1) /\ n % Size \in 0..(Size - 1)
    BY <1>1 DEF Ring
  <2>2. CASE j = n + 1
    <3>1. j - 1 = n BY <1>1, <2>2
    <3> QED BY <1>1, <1>3, <1>4, <2>1, <2>2, <3>1
  <2>3. CASE j # n + 1
    <3> DEFINE d == n - (j - 1)
    <3>0. Size \in Nat /\ n \in Nat BY <1>1
    <3> HIDE DEF n
    <3>1. j \in 1..n /\ j > n - Size /\ d \in Int /\ 0 < d /\ d < Size /\ (j - 1) + d = n /\ j - 1 \in Int
      BY <1>6, <2>3, <3>0
    <3> HIDE DEF d
    <3>2. n % Size # (j - 1) % Size
      BY <1>1, <3>1, ModDistinct
    <3>3. buf[(j - 1) % Size] = log[j]
      BY <3>1 DEF Ring, n
    <3>4. buf'[(j - 1) % Size] = buf[(j - 1) % Size]
      BY <1>1, <1>3, <2>1, <3>2
    <3> QED BY <1>4, <3>1, <3>3, <3>4
  <2> QED BY <2>2, <2>3
<1>7. Ring'
  BY <1>2, <1>3, <1>4, <1>6 DEF Ring, Kept
<1>8. base <= n /\ base \in Nat /\ base' # Len(log')
  BY <1>1, <1>3, <1>4 DEF Progress, TypeOK
<1>9. Progress'
  BY <1>1, <1>3, <1>4, <1>8 DEF Progress
<1>10. DumpRecent'
  <2> SUFFICES ASSUME dump = "closed", final = base
               PROVE  /\ Len(out) = Kept(base)
                      /\ \A j \in 1..Len(out) : out[j] = log'[(base - Kept(base)) + j]
    BY <1>3 DEF DumpRecent, Kept
  <2>1. Len(out) = Kept(base) BY DEF DumpRecent
  <2>2. ASSUME NEW j \in 1..Len(out) PROVE out[j] = log'[(base - Kept(base)) + j]
    <3>1. (base - Kept(base)) + j \in 1..n
      BY <1>1, <1>8, <2>1 DEF Kept
    <3> QED BY <1>4, <3>1 DEF DumpRecent
  <2> QED BY <2>1, <2>2
<1> QED BY <1>5, <1>7, <1>9, <1>10

(* The number of entries to write is the number of entries kept.           *)
LEMMA StartStep == ASSUME RingInv, DumpStart PROVE RingInv'
<1> USE DEF RingInv
<1>1. /\ Len(log) \in Nat /\ count \in Nat /\ Size \in Nat \ {0}
      /\ Kept(Len(log)) <= count /\ count <= Len(log)
  BY SizeAssumption DEF TypeOK, Ring
<1>2. iters' = Kept(Len(log)) /\ iters' \in 0..Size
  BY <1>1 DEF DumpStart, Kept
<1>3. /\ k' = 0 /\ base' = Len(log) /\ dump' = "index" /\ out' = out /\ dump = "off"
      /\ UNCHANGED <<accesses, held, hvars, slot, final>>
  BY DEF DumpStart
<1>4. out = <<>> /\ Len(out) = 0
  BY <1>3 DEF Progress
<1>5. TypeOK'
  BY <1>1, <1>2, <1>3 DEF TypeOK
<1>6. Ring'
  BY <1>3 DEF Ring, Kept
<1>7. Progress'
  BY <1>1, <1>2, <1>3, <1>4 DEF Progress, Kept
<1>8. DumpRecent'
  BY <1>3 DEF DumpRecent
<1> QED BY <1>5, <1>6, <1>7, <1>8

(* The index computed from the counter is the one of the next access.      *)
LEMMA IndexStep == ASSUME RingInv, DumpIndex PROVE RingInv'
<1> USE DEF RingInv
<1>1. /\ dump = "index" /\ k < iters /\ slot' = ((count - iters) + k) % Size
      /\ dump' = "read" /\ UNCHANGED <<accesses, held, hvars, iters, k, out, base, final>>
  BY DEF DumpIndex
<1>2. /\ base \in Nat /\ count \in Nat /\ iters \in Nat /\ k \in Nat
      /\ Size \in Nat \ {0} /\ count % Size = Len(log) % Size
  BY <1>1, SizeAssumption DEF TypeOK, Ring
<1>3. ASSUME base = Len(log)
      PROVE  (count + (k - iters)) % Size = (base + (k - iters)) % Size
  <2>1. k - iters \in Int /\ count \in Int /\ base \in Int BY <1>2
  <2> QED BY <1>2, <1>3, <2>1, ModShift, ZenonT(40)
<1>4. count + (k - iters) = (count - iters) + k /\ base + (k - iters) = (base - iters) + k
  BY <1>2
<1>5. /\ base = Len(log) => slot' = ((base - iters) + k) % Size
      /\ slot' \in 0..(Size - 1)
  BY <1>1, <1>2, <1>3, <1>4
<1>6. TypeOK'
  BY <1>1, <1>5 DEF TypeOK
<1>7. Ring'
  BY <1>1 DEF Ring, Kept
<1>8. Progress'
  BY <1>1, <1>5 DEF Progress, Kept
<1>9. DumpRecent'
  BY <1>1 DEF DumpRecent
<1> QED BY <1>6, <1>7, <1>8, <1>9

(* The entry written is the next access of the history.                    *)
LEMMA ReadStep == ASSUME RingInv, DumpRead PROVE RingInv'
<1> USE DEF RingInv
<1> DEFINE e == buf[slot]
<1>1. /\ dump = "read" /\ out' = Append(out, e) /\ k' = k + 1 /\ dump' = "index"
      /\ UNCHANGED <<accesses, held, hvars, iters, slot, base, final>>
  BY DEF DumpRead
<1>2. /\ base \in Nat /\ iters \in Nat /\ iters <= Size /\ k \in Nat /\ k < iters
      /\ Size \in Nat \ {0} /\ out \in Seq(Nat) /\ e \in Nat /\ base <= Len(log)
  BY <1>1, SizeAssumption DEF TypeOK, Progress
<1>3. TypeOK'
  <2> HIDE DEF e
  <2>1. out' \in Seq(Nat) /\ k' \in 0..Size
    BY <1>1, <1>2
  <2> QED BY <1>1, <2>1 DEF TypeOK
<1>4. Ring'
  BY <1>1 DEF Ring, Kept
<1>5. ASSUME base = Len(log)
      PROVE  /\ iters = Kept(base) /\ Len(out') = k + 1
             /\ \A m \in 1..(k + 1) : out'[m] = log[(base - iters) + m]
  <2> DEFINE j == (base - iters) + (k + 1)
  <2>1. /\ iters = Kept(base) /\ Len(out) = k /\ slot = ((base - iters) + k) % Size
        /\ \A m \in 1..k : out[m] = log[(base - iters) + m]
    BY <1>1, <1>5 DEF Progress
  <2>2. iters <= base
    BY <1>2, <2>1 DEF Kept
  <2>3. j \in 1..base /\ j > base - Size /\ j - 1 = (base - iters) + k
    BY <1>2, <2>2
  <2> HIDE DEF j
  <2>4. e = log[j]
    BY <1>5, <2>1, <2>3 DEF Ring
  <2> HIDE DEF e
  <2>5. Len(out') = k + 1 /\ out'[k + 1] = e /\ \A m \in 1..k : out'[m] = out[m]
    <3>1. out \in Seq(Nat) /\ e \in Nat /\ out' = Append(out, e) /\ Len(out) = k
      BY <1>1, <1>2, <2>1
    <3> QED BY ONLY <3>1, AppendFacts
  <2>6. ASSUME NEW m \in 1..(k + 1) PROVE out'[m] = log[(base - iters) + m]
    <3>1. m = k + 1 \/ m \in 1..k BY <1>2
    <3>2. CASE m = k + 1 BY <2>4, <2>5, <3>2 DEF j
    <3>3. CASE m \in 1..k BY <2>1, <2>5, <3>3
    <3> QED BY <3>1, <3>2, <3>3
  <2> QED BY <2>1, <2>5, <2>6
<1>6. Progress'
  <2>1. /\ k' <= iters' /\ k' = k + 1 /\ base' = base /\ iters' = iters /\ log' = log
        /\ dump' = "index" /\ base <= Len(log)
    BY <1>1, <1>2
  <2>2. Len(log)' = Len(log) /\ Kept(base)' = Kept(base)
    BY <2>1 DEF Kept
  <2> HIDE DEF RingInv
  <2> QED BY <1>5, <2>1, <2>2 DEF Progress
<1>7. DumpRecent'
  BY <1>1 DEF DumpRecent
<1> QED BY <1>3, <1>4, <1>6, <1>7

(* The inductive invariant of the history: what the ring holds and how far *)
(* the dump has come.                                                      *)
THEOREM RingInvariant == Spec => []RingInv
<1>1. Init => RingInv
  <2> SUFFICES ASSUME Init PROVE RingInv
    OBVIOUS
  <2>1. TypeOK
    BY SizeAssumption, WrapAssumption DEF Init, TypeOK
  <2>2. Ring
    BY SizeAssumption, ModSmall DEF Init, Ring, Kept
  <2>3. Progress /\ DumpRecent
    BY DEF Init, Progress, DumpRecent
  <2> QED BY <2>1, <2>2, <2>3 DEF RingInv
<1>2. RingInv /\ [Next]_vars => RingInv'
  <2> SUFFICES ASSUME RingInv, [Next]_vars PROVE RingInv'
    OBVIOUS
  <2>1. ASSUME NEW t \in Threads, Access(t) PROVE RingInv'
    <3>1. /\ UNCHANGED <<hvars, dvars>>
          /\ accesses' = accesses + 1 /\ held' = [held EXCEPT ![t] = accesses + 1]
      BY <2>1 DEF Access
    <3>2. TypeOK'
      BY <3>1 DEF RingInv, TypeOK
    <3>3. Ring' /\ Progress' /\ DumpRecent'
      BY <3>1 DEF RingInv, Ring, Progress, DumpRecent, Kept
    <3> QED BY <3>2, <3>3 DEF RingInv
  <2>2. CASE DumpEnd
    <3>1. /\ dump = "index" /\ k = iters /\ dump' = "closed"
          /\ final' = Len(log)
          /\ UNCHANGED <<accesses, held, hvars, iters, k, slot, out, base>>
      BY <2>2 DEF DumpEnd
    <3>2. TypeOK' /\ Ring' /\ Progress'
      BY <3>1 DEF RingInv, TypeOK, Ring, Progress, Kept
    <3>3. DumpRecent'
      BY <3>1 DEF RingInv, Progress, DumpRecent, Kept
    <3> QED BY <3>2, <3>3 DEF RingInv
  <2>3. CASE Finished \/ UNCHANGED vars
    <3>1. UNCHANGED vars BY <2>3 DEF Finished
    <3> QED BY <3>1 DEF RingInv, TypeOK, Ring, Progress, DumpRecent, Kept, vars
  <2> QED BY <2>1, <2>2, <2>3, AddStep, StartStep, IndexStep, ReadStep DEF Next
<1> QED BY <1>1, <1>2, PTL DEF Spec

(* A dump (gr_io_history_dump) during which nothing is added writes the    *)
(* last accesses of the history, oldest first, for every ring size that    *)
(* divides the range of the counter.                                       *)
THEOREM HistoryDumped == Spec => []DumpRecent
<1>1. RingInv => DumpRecent BY DEF RingInv
<1> QED BY <1>1, RingInvariant, PTL

-----------------------------------------------------------------------------
(* The order of the entries in a file whose dump is disturbed.             *)

(* Before the ring overflows the counter is the number of accesses.        *)
LEMMA NotFull ==
    ASSUME RingInv, Len(log) <= Size
    PROVE  /\ count = Len(log) /\ count \in Nat
           /\ \A c \in 1..Len(log) : buf[c - 1] = log[c]
<1>1. /\ Size \in Nat \ {0} /\ Len(log) \in Nat /\ count \in Nat
      /\ Kept(Len(log)) <= count /\ count <= Len(log)
  BY SizeAssumption DEF RingInv, TypeOK, Ring
<1>2. count = Len(log)
  BY <1>1 DEF Kept
<1>3. ASSUME NEW c \in 1..Len(log) PROVE buf[c - 1] = log[c]
  <2>1. c - 1 \in 0..(Size - 1) /\ c > Len(log) - Size
    BY <1>1
  <2>2. (c - 1) % Size = c - 1
    BY <1>1, <2>1, ModSmall
  <2> QED BY <2>1, <2>2 DEF RingInv, Ring
<1> QED BY <1>1, <1>2, <1>3

(* An access added during the dump moves the window up.                    *)
LEMMA OrderAdd ==
    ASSUME RingInv, OrderInv, NEW t \in Threads, Add(t)
    PROVE  OrderInv'
<1> DEFINE n == Len(log)
<1>1. /\ held[t] \in Nat /\ log' = Append(log, held[t]) /\ log \in Seq(Nat)
      /\ UNCHANGED dvars
  BY DEF Add, Store, RingInv, TypeOK
<1>2. Len(log') = n + 1 /\ n \in Nat /\ \A j \in 1..n : log'[j] = log[j]
  BY <1>1
<1> SUFFICES ASSUME dump # "off"
             PROVE  /\ iters = Kept(base) /\ Len(out) = k /\ k <= iters
                    /\ Len(log') <= Size => \E f \in [1..k -> 1..Len(log')] : WrittenInOrder(f)'
  BY <1>1 DEF OrderInv, Kept
<1> SUFFICES ASSUME Len(log') <= Size
             PROVE  \E f \in [1..k -> 1..Len(log')] : WrittenInOrder(f)'
  BY DEF OrderInv
<1>3. Size \in Nat /\ n <= Size /\ count = n
  BY <1>2, SizeAssumption, NotFull
<1>4. RingInv' /\ count' = n + 1
  <2>1. RingInv' BY AddStep
  <2>2. Kept(n + 1) <= count' /\ count' <= n + 1 /\ count' \in Nat
    BY <1>2, <2>1 DEF RingInv, Ring, TypeOK, Kept
  <2> QED BY <1>2, <1>3, <2>1, <2>2 DEF Kept
<1>5. PICK f \in [1..k -> 1..n] : WrittenInOrder(f)
  BY <1>3 DEF OrderInv
<1>6. f \in [1..k -> 1..(n + 1)]
  BY <1>2, <1>5
<1>7. k \in Nat /\ iters \in Nat /\ slot \in Nat
  BY DEF RingInv, TypeOK
<1>8. Window' = Window + 1 /\ Window \in Int
  BY <1>1, <1>2, <1>3, <1>4, <1>7 DEF Window
<1>9. \A j \in 1..k : f[j] \in 1..n
  BY <1>5
<1>10. WrittenInOrder(f)'
  <2>1. \A j \in 1..k' : out'[j] = log'[f[j]]
    BY <1>1, <1>2, <1>5, <1>9 DEF WrittenInOrder
  <2>2. \A j \in 2..k' : f[j - 1] < f[j]
    BY <1>1, <1>5 DEF WrittenInOrder
  <2>3. k' > 0 => f[k'] <= Window'
    <3>1. k > 0 => f[k] \in Nat /\ f[k] <= Window
      BY <1>5, <1>7, <1>9 DEF WrittenInOrder
    <3> QED BY <1>1, <1>8, <3>1
  <2>4. dump' = "read" => slot' <= Window' /\ slot' < Len(log') /\ (k' > 0 => f[k'] <= slot')
    BY <1>1, <1>2, <1>5, <1>7, <1>8 DEF WrittenInOrder
  <2> QED BY <2>1, <2>2, <2>3, <2>4 DEF WrittenInOrder
<1> QED BY <1>2, <1>6, <1>10

(* The entry chosen next lies after all that were written.                 *)
LEMMA OrderIndex ==
    ASSUME RingInv, OrderInv, DumpIndex
    PROVE  OrderInv'
<1>1. /\ dump = "index" /\ k < iters /\ slot' = Window % Size
      /\ dump' = "read" /\ UNCHANGED <<accesses, held, hvars, iters, k, out, base, final>>
  BY DEF DumpIndex, Window
<1>2. iters = Kept(base) /\ Len(out) = k /\ base <= Len(log) /\ base \in Nat
      /\ k \in Nat /\ iters \in Nat /\ Size \in Nat \ {0} /\ Len(log) \in Nat
  BY <1>1, SizeAssumption DEF OrderInv, RingInv, Progress, TypeOK
<1> SUFFICES ASSUME Len(log) <= Size
             PROVE  \E f \in [1..k -> 1..Len(log)] : WrittenInOrder(f)'
  BY <1>1, <1>2 DEF OrderInv, Kept
<1>3. count = Len(log)
  BY NotFull
<1>4. Window \in 0..(Size - 1) /\ Window < Len(log)
  BY <1>1, <1>2, <1>3 DEF Window, Kept
<1>5. slot' = Window
  BY <1>1, <1>2, <1>4, ModSmall
<1>6. Window' = Window
  BY <1>1 DEF Window
<1>7. PICK f \in [1..k -> 1..Len(log)] : WrittenInOrder(f)
  BY <1>1 DEF OrderInv
<1>8. WrittenInOrder(f)'
  BY <1>1, <1>4, <1>5, <1>6, <1>7 DEF WrittenInOrder
<1> QED BY <1>8

(* It is written, and is the entry of the access after its index.          *)
LEMMA OrderRead ==
    ASSUME RingInv, OrderInv, DumpRead
    PROVE  OrderInv'
<1> DEFINE e == buf[slot]
<1>1. /\ dump = "read" /\ out' = Append(out, e) /\ k' = k + 1 /\ dump' = "index"
      /\ UNCHANGED <<accesses, held, hvars, iters, slot, base, final>>
  BY DEF DumpRead
<1>2. /\ iters = Kept(base) /\ Len(out) = k /\ k < iters /\ out \in Seq(Nat) /\ e \in Nat
      /\ k \in Nat /\ iters \in Nat /\ slot \in Nat /\ Len(log) \in Nat
  BY <1>1, SizeAssumption DEF OrderInv, RingInv, Progress, TypeOK
<1>3. Len(out') = k + 1 /\ out'[k + 1] = e /\ \A m \in 1..k : out'[m] = out[m]
  <2> HIDE DEF e
  <2>1. out \in Seq(Nat) /\ e \in Nat /\ out' = Append(out, e) /\ Len(out) = k
    BY <1>1, <1>2
  <2> QED BY ONLY <2>1, AppendFacts
<1> SUFFICES ASSUME Len(log) <= Size
             PROVE  \E f \in [1..(k + 1) -> 1..Len(log)] : WrittenInOrder(f)'
  <2> HIDE DEF e
  <2>1. k' = k + 1 /\ k' <= iters' /\ log' = log /\ dump' # "off" /\ Len(out') = k'
    BY <1>1, <1>2, <1>3
  <2>2. iters' = Kept(base)'
    BY <1>1, <1>2 DEF Kept
  <2> QED BY <2>1, <2>2 DEF OrderInv
<1>4. PICK f \in [1..k -> 1..Len(log)] : WrittenInOrder(f)
  BY <1>1 DEF OrderInv
<1>5. /\ slot <= Window /\ slot + 1 \in 1..Len(log) /\ (k > 0 => f[k] <= slot)
  BY <1>1, <1>2, <1>4 DEF WrittenInOrder
<1>6. e = log[slot + 1]
  <2>1. buf[(slot + 1) - 1] = log[slot + 1] BY <1>5, NotFull
  <2>2. (slot + 1) - 1 = slot BY <1>2
  <2> QED BY <2>1, <2>2
<1>7. Window' = Window + 1 /\ Window \in Int
  <2>1. count \in Nat BY NotFull
  <2> QED BY <1>1, <1>2, <2>1 DEF Window
<1>8. ASSUME NEW j \in 1..k PROVE j \in 1..(k + 1) /\ j # k + 1 /\ f[j] \in 1..Len(log)
  BY <1>2, <1>4
<1>9. PICK g \in [1..(k + 1) -> 1..Len(log)] :
         g[k + 1] = slot + 1 /\ \A j \in 1..k : g[j] = f[j]
  <2> DEFINE h == [j \in 1..(k + 1) |-> IF j = k + 1 THEN slot + 1 ELSE f[j]]
  <2>1. /\ h \in [1..(k + 1) -> 1..Len(log)]
        /\ h[k + 1] = slot + 1 /\ \A j \in 1..k : h[j] = f[j]
    BY <1>2, <1>5, <1>8
  <2> HIDE DEF h
  <2> QED BY <2>1
<1>10. WrittenInOrder(g)'
  <2> HIDE DEF e
  <2>1. \A j \in 1..(k + 1) : j \in 1..k \/ j = k + 1
    BY <1>2
  <2>2. \A j \in 1..(k + 1) : out'[j] = log[g[j]]
    BY <1>3, <1>4, <1>6, <1>9, <2>1 DEF WrittenInOrder
  <2>3. ASSUME NEW j \in 2..(k + 1) PROVE g[j - 1] < g[j]
    <3>1. CASE j \in 2..k
      <4>1. j - 1 \in 1..k /\ j \in 1..k BY <1>2, <3>1
      <4> QED BY <1>4, <1>9, <3>1, <4>1 DEF WrittenInOrder
    <3>2. CASE j = k + 1 /\ k > 0
      <4>1. j - 1 = k /\ k \in 1..k BY <1>2, <3>2
      <4>2. f[k] \in Nat /\ f[k] <= slot BY <1>5, <1>8, <3>2, <4>1
      <4> QED BY <1>2, <1>9, <3>2, <4>1, <4>2
    <3> QED BY <1>2, <3>1, <3>2
  <2>4. g[k + 1] <= Window + 1
    BY <1>2, <1>5, <1>7, <1>9
  <2>5. k' = k + 1 /\ log' = log /\ dump' = "index"
    BY <1>1
  <2> QED BY <1>7, <2>2, <2>3, <2>4, <2>5 DEF WrittenInOrder
<1> QED BY <1>10

LEMMA OrderStep ==
    ASSUME RingInv, OrderInv, [Next]_vars
    PROVE  OrderInv'
<1>1. ASSUME NEW t \in Threads, Access(t) PROVE OrderInv'
  BY <1>1 DEF Access, OrderInv, WrittenInOrder, Window, Kept
<1>2. CASE DumpStart
  <2>1. /\ k' = 0 /\ base' = Len(log) /\ dump' = "index" /\ out' = <<>> /\ log' = log
        /\ iters' = Kept(Len(log)) /\ iters' \in Nat
    <3>1. /\ Size \in Nat /\ Len(log) \in Nat /\ count \in Nat
          /\ Kept(Len(log)) <= count /\ count <= Len(log)
      BY SizeAssumption DEF RingInv, TypeOK, Ring
    <3> QED BY <1>2, <3>1 DEF DumpStart, RingInv, Progress, Kept
  <2>2. iters' = Kept(base)' /\ Len(out') = k' /\ k' <= iters'
    BY <2>1 DEF Kept
  <2>3. <<>> \in [1..k' -> 1..Len(log')] /\ WrittenInOrder(<<>>)'
    BY <2>1 DEF WrittenInOrder
  <2> QED BY <2>2, <2>3 DEF OrderInv
<1>3. CASE DumpEnd
  <2>1. /\ dump = "index" /\ dump' = "closed"
        /\ UNCHANGED <<accesses, held, hvars, iters, k, slot, out, base>>
    BY <1>3 DEF DumpEnd
  <2> QED BY <2>1 DEF OrderInv, WrittenInOrder, Window, Kept
<1>4. CASE Finished \/ UNCHANGED vars
  <2>1. UNCHANGED vars BY <1>4 DEF Finished
  <2> QED BY <2>1 DEF OrderInv, WrittenInOrder, Window, Kept, vars
<1> QED BY <1>1, <1>2, <1>3, <1>4, OrderAdd, OrderIndex, OrderRead DEF Next

(* As long as the ring does not overflow, gr_io_history_dump, which takes  *)
(* no lock, writes the accesses in the order of the history and none of    *)
(* them twice, however many are added between its steps.                   *)
THEOREM HistoryOrdered == Spec => []DumpOrdered
<1>1. Init => OrderInv
  BY DEF Init, OrderInv
<1>2. RingInv /\ OrderInv /\ [Next]_vars => OrderInv'
  BY OrderStep
<1>3. RingInv /\ OrderInv => DumpOrdered
  <2> SUFFICES ASSUME RingInv, OrderInv, Len(log) <= Size
               PROVE  \E f \in [1..Len(out) -> 1..Len(log)] :
                         /\ \A j \in 1..Len(out) : out[j] = log[f[j]]
                         /\ \A j \in 2..Len(out) : f[j - 1] < f[j]
    BY DEF DumpOrdered
  <2>1. CASE dump = "off"
    <3>1. Len(out) = 0 BY <2>1 DEF RingInv, Progress
    <3>2. <<>> \in [1..Len(out) -> 1..Len(log)] BY <3>1
    <3>3. /\ \A j \in 1..Len(out) : out[j] = log[<<>>[j]]
          /\ \A j \in 2..Len(out) : <<>>[j - 1] < <<>>[j]
      BY <3>1
    <3> WITNESS <<>> \in [1..Len(out) -> 1..Len(log)]
    <3> QED BY <3>3
  <2>2. CASE dump # "off"
    BY <2>2 DEF OrderInv, WrittenInOrder
  <2> QED BY <2>1, <2>2
<1> QED BY <1>1, <1>2, <1>3, RingInvariant, PTL DEF Spec
=============================================================================

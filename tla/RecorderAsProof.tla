--------------------------- MODULE RecorderAsProof ---------------------------
(***************************************************************************)
(* Proofs about RecorderAs for any addresses, mappings, synced ranges and  *)
(* numbers of mappings, writes and submits: what the recorder writes can   *)
(* be loaded, has the pages that were touched, is written at the right     *)
(* time, and leaves out nothing but the latest.                            *)
(***************************************************************************)
EXTENDS RecorderAs, SequenceTheorems, TLAPS

EntryRec == [addr : Addrs, type : Types, valid : BOOLEAN, dumped : BOOLEAN, nents : Nat]

RegionRec == [live : BOOLEAN, growable : BOOLEAN, nrPages : Nat, nents : Nat, mapped : Nat,
              touched : Nat, writes : Nat, gpu : BOOLEAN, since : Nat]

FileRec == [entry : Nat, valid : BOOLEAN, nents : Nat, pages : Nat, touched : Nat,
            writes : Nat, gpu : BOOLEAN]

(* TypeOK with the fields of every record.                                 *)
RecTypeOK ==
    /\ use \in Uses
    /\ asList \in Seq(EntryRec) /\ reg \in Seq(RegionRec)
    /\ Len(reg) = Len(asList) /\ Len(asList) <= MaxAs
    /\ \A e \in Entries :
          /\ reg[e].nents <= reg[e].nrPages
          /\ reg[e].mapped <= reg[e].nents /\ reg[e].touched <= reg[e].mapped
    /\ syncs \in Seq(Syncs)
    /\ submits \in 0..MaxSubmits
    /\ walk \in [in : Walks, next : Nat, header : BOOLEAN] /\ walk.next <= Len(asList) + 1
    /\ file \in Seq(FileRec)
    /\ syncFile \in [count : Nat, ranges : Seq(Syncs)]

(* The header of entry walk.next is written, its pages are not.            *)
Writing == Walking /\ walk.header

Complete(k) == k < Len(file) \/ ~Writing

Once == use # "reuse"

(* Entries and what is in the file correspond.                             *)
Written ==
    /\ Writing => /\ walk.next \in Entries /\ ~asList[walk.next].dumped
                  /\ Len(file) >= 1 /\ file[Len(file)].entry = walk.next
    /\ \A k \in 1..Len(file) :
          file[k].entry \in Entries /\ (Complete(k) => asList[file[k].entry].dumped)
    /\ \A j, k \in 1..Len(file) : file[j].entry = file[k].entry => j = k
    /\ \A e \in Entries : asList[e].dumped => \E k \in 1..Len(file) : file[k].entry = e

(* With one thread an entry is the same at its header and at its pages.    *)
HeaderMatches ==
    use # "threads" =>
        /\ \A k \in 1..Len(file) :
              Complete(k) => file[k].pages = IF file[k].valid THEN file[k].nents ELSE 0
        /\ Writing => /\ file[Len(file)].valid = asList[walk.next].valid
                      /\ file[Len(file)].nents = asList[walk.next].nents

SyncsMatch ==
    /\ \A j, k \in 1..Len(syncs) : syncs[j] = syncs[k] => j = k
    /\ walk.in = "post_sync" /\ walk.header /\ use # "threads" =>
          syncFile.count = Len(syncs)
    /\ Closed => /\ syncFile.ranges = syncs
                 /\ use # "threads" => syncFile.count = Len(syncs)

(* Where an address is mapped once, a fault marks the region it is in: an  *)
(* entry that is not valid was never written to and has no page mapped.    *)
FaultsMark ==
    Once =>
        /\ \A e, f \in Entries : asList[e].addr = asList[f].addr => e = f
        /\ \A e \in Entries :
              /\ reg[e].mapped <= IF asList[e].valid THEN asList[e].nents ELSE 0
              /\ reg[e].writes = 0 <=> ~asList[e].valid
        /\ \A k \in 1..Len(file) : Complete(k) => file[k].touched <= file[k].pages

(* With one thread, what JOB_SUBMIT leaves undumped is a job chain or was  *)
(* never written to, and job chains are left to POST_TERM.                 *)
InTime ==
    use = "serial" =>
        /\ \A e \in Entries : ~IsJob(e) /\ ~asList[e].dumped => ~reg[e].gpu
        /\ walk.in = "submit" =>
              \A e \in Entries :
                 e < walk.next /\ asList[e].valid /\ ~IsJob(e) => asList[e].dumped
        /\ Writing /\ walk.in = "submit" => ~IsJob(walk.next)
        /\ \A k \in 1..Len(file) :
              IF IsJob(file[k].entry)
              THEN /\ walk.in \notin {"none", "submit"}
                   /\ Complete(k) => file[k].writes = reg[file[k].entry].writes
              ELSE Complete(k) => ~file[k].gpu

(* What may be missing from the file so far, for an entry e.               *)
MayMiss(e) ==
    /\ walk.in = "none" \/ (walk.in = "submit" /\ e < walk.next) =>
          (asList[e].valid /\ ~IsJob(e) => reg[e].since = submits)
    /\ walk.in \in {"post_jobs", "post_invalid"} =>
          (asList[e].valid /\ ~IsJob(e) => reg[e].since \in {submits, submits + 1})
    /\ (walk.in = "post_jobs" /\ e < walk.next) \/ walk.in = "post_invalid" =>
          (asList[e].valid /\ IsJob(e) => reg[e].since = submits + 1)
    /\ walk.in = "post_invalid" /\ e < walk.next => asList[e].valid
    /\ walk.in \in {"post_sync", "closed"} =>
          \/ reg[e].since = submits + 1
          \/ asList[e].valid /\ ~IsJob(e) /\ reg[e].since = submits

OnlyLateMissing == Once => \A e \in Entries : asList[e].dumped \/ MayMiss(e)

IInv == RecTypeOK /\ Written /\ HeaderMatches /\ SyncsMatch /\ FaultsMark /\ InTime
        /\ OnlyLateMissing

-----------------------------------------------------------------------------
(* What a step of the application may do.  Only the region's size changes, *)
(* or the CPU writes to it, or the region is new.                          *)
SizeOnly(e) ==
    /\ asList'[e].valid = asList[e].valid /\ asList'[e].nents = asList[e].nents
    /\ reg'[e].mapped <= reg[e].mapped
    /\ reg'[e].writes = reg[e].writes /\ reg'[e].since = reg[e].since

WrittenTo(e) ==
    /\ asList'[e].valid /\ reg'[e].mapped <= asList'[e].nents
    /\ reg'[e].writes = reg[e].writes + 1
    /\ reg'[e].since = IF reg[e].writes = 0 THEN Ioctls ELSE reg[e].since

New(e) ==
    /\ ~asList'[e].valid /\ ~asList'[e].dumped
    /\ reg'[e].mapped = 0 /\ reg'[e].writes = 0 /\ ~reg'[e].gpu /\ reg'[e].since = Ioctls

EntriesKept ==
    /\ Len(asList) <= Len(asList')
    /\ \A e \in Entries :
          /\ asList'[e].type = asList[e].type /\ asList'[e].dumped = asList[e].dumped
          /\ reg'[e].gpu = reg[e].gpu
    /\ Once => /\ \A e \in Entries : SizeOnly(e) \/ WrittenTo(e)
               /\ \A e, f \in 1..Len(asList') : asList'[e].addr = asList'[f].addr => e = f
    /\ \A e \in 1..Len(asList') : e \notin Entries => New(e)

AppStep ==
    /\ AppMayRun /\ EntriesKept
    /\ \A j, k \in 1..Len(syncs') : syncs'[j] = syncs'[k] => j = k
    /\ UNCHANGED <<use, submits, walk, file, syncFile>>

LEMMA Ranges ==
    ASSUME RecTypeOK
    PROVE  /\ Len(asList) \in Nat /\ Len(reg) = Len(asList) /\ Len(file) \in Nat
           /\ MaxAs \in Nat /\ submits \in Nat /\ Ioctls \in Nat
           /\ walk.in \in Walks /\ walk.next \in Nat /\ walk.header \in BOOLEAN
           /\ \A e \in Entries : asList[e] \in EntryRec /\ reg[e] \in RegionRec
           /\ \A e \in Entries :
                 /\ reg[e].nrPages \in Nat /\ reg[e].nents \in Nat /\ reg[e].mapped \in Nat
                 /\ reg[e].touched \in Nat /\ reg[e].writes \in Nat /\ reg[e].since \in Nat
                 /\ asList[e].nents \in Nat /\ asList[e].valid \in BOOLEAN
           /\ \A k \in 1..Len(file) : file[k] \in FileRec
<1>1. submits \in Nat
  BY BoundsAssumption DEF RecTypeOK
<1>2. walk.in \in Walks /\ walk.next \in Nat /\ walk.header \in BOOLEAN
  BY DEF RecTypeOK
<1>3. Len(asList) \in Nat /\ Len(file) \in Nat /\ Len(reg) = Len(asList)
  BY DEF RecTypeOK
<1>4. /\ \A e \in Entries : asList[e] \in EntryRec /\ reg[e] \in RegionRec
      /\ \A k \in 1..Len(file) : file[k] \in FileRec
  BY ElementOfSeq DEF RecTypeOK, Entries
<1>5. \A e \in Entries :
         /\ reg[e].nrPages \in Nat /\ reg[e].nents \in Nat /\ reg[e].mapped \in Nat
         /\ reg[e].touched \in Nat /\ reg[e].writes \in Nat /\ reg[e].since \in Nat
         /\ asList[e].nents \in Nat /\ asList[e].valid \in BOOLEAN
  BY <1>4 DEF EntryRec, RegionRec
<1> QED BY <1>1, <1>2, <1>3, <1>4, <1>5, BoundsAssumption DEF Ioctls

(* kbase_context_mmap adds an entry.                                       *)
LEMMA MmapStep ==
    ASSUME RecTypeOK, FaultsMark, SyncsMatch,
           NEW a \in Addrs, NEW m \in Mappings, NEW ok \in BOOLEAN, Mmap(a, m, ok)
    PROVE  RecTypeOK' /\ AppStep
<1>1. m \in Mapping /\ m.nents <= m.nrPages
  BY MappingsAssumption
<1>2. AsType(m, Len(asList)) \in Types
  BY DEF AsType, Types
<1> DEFINE n == Len(asList) + 1
           x == [addr |-> a, type |-> AsType(m, Len(asList)),
                 valid |-> FALSE, dumped |-> FALSE, nents |-> m.nents]
           y == [live |-> ok, growable |-> m.growable,
                 nrPages |-> m.nrPages, nents |-> m.nents, mapped |-> 0,
                 touched |-> 0, writes |-> 0, gpu |-> FALSE, since |-> Ioctls]
<1>3. x \in EntryRec
  BY <1>1, <1>2 DEF EntryRec, Mapping
<1>4. y \in RegionRec
  BY <1>1, Ranges DEF RegionRec, Mapping
<1>5. /\ asList' = Append(asList, x) /\ reg' = Append(reg, y) /\ Len(asList) < MaxAs
      /\ AppMayRun /\ UNCHANGED <<use, syncs, submits, walk, file, syncFile>>
      /\ Once => \A e \in Entries : asList[e].addr # a
  BY DEF Mmap, Once
<1>6. /\ asList \in Seq(EntryRec) /\ reg \in Seq(RegionRec) /\ Len(reg) = Len(asList)
      /\ Len(asList) \in Nat /\ Len(asList) + 1 <= MaxAs
  BY <1>5, Ranges, BoundsAssumption DEF RecTypeOK
<1> HIDE DEF x, y
<1>7. /\ asList' \in Seq(EntryRec) /\ Len(asList') = n /\ asList'[n] = x
      /\ \A e \in Entries : asList'[e] = asList[e]
  BY <1>3, <1>5, <1>6, AppendProperties DEF Entries
<1>8. /\ reg' \in Seq(RegionRec) /\ Len(reg') = n /\ reg'[n] = y
      /\ \A e \in Entries : reg'[e] = reg[e]
  BY <1>4, <1>5, <1>6, AppendProperties DEF Entries
<1>9. \A e \in 1..Len(asList') : e \in Entries \/ e = n
  BY <1>6, <1>7 DEF Entries
<1>10. RecTypeOK'
  <2>1. \A e \in 1..Len(asList') :
           /\ reg'[e].nents <= reg'[e].nrPages
           /\ reg'[e].mapped <= reg'[e].nents /\ reg'[e].touched <= reg'[e].mapped
    <3>1. ASSUME NEW e \in Entries
          PROVE  /\ reg'[e].nents <= reg'[e].nrPages
                 /\ reg'[e].mapped <= reg'[e].nents /\ reg'[e].touched <= reg'[e].mapped
      BY <1>8 DEF RecTypeOK
    <3>2. /\ reg'[n].nents <= reg'[n].nrPages
          /\ reg'[n].mapped <= reg'[n].nents /\ reg'[n].touched <= reg'[n].mapped
      BY <1>1, <1>8 DEF y, Mapping
    <3> QED BY <1>9, <3>1, <3>2
  <2>2. walk'.next <= Len(asList') + 1
    BY <1>5, <1>6, <1>7, Ranges DEF RecTypeOK
  <2> QED BY <1>5, <1>6, <1>7, <1>8, <2>1, <2>2 DEF RecTypeOK, Entries
<1>11. EntriesKept
  <2>1. \A e \in Entries : SizeOnly(e)
    BY <1>7, <1>8, Ranges, SMTT(30) DEF SizeOnly
  <2>2. Once => \A e, f \in 1..Len(asList') : asList'[e].addr = asList'[f].addr => e = f
    BY <1>5, <1>7, <1>9 DEF FaultsMark, x
  <2>3. \A e \in 1..Len(asList') : e \notin Entries => New(e)
    BY <1>7, <1>8, <1>9, SMTT(30) DEF New, x, y
  <2> QED BY <1>6, <1>7, <1>8, <2>1, <2>2, <2>3 DEF EntriesKept
<1> QED BY <1>5, <1>10, <1>11 DEF AppStep, SyncsMatch

LEMMA RegionChange ==
    ASSUME RecTypeOK, NEW e \in Entries, NEW r \in RegionRec, reg' = [reg EXCEPT ![e] = r]
    PROVE  /\ reg' \in Seq(RegionRec) /\ Len(reg') = Len(asList)
           /\ \A f \in Entries : reg'[f] = IF f = e THEN r ELSE reg[f]
<1>1. reg \in Seq(RegionRec) /\ Len(reg) = Len(asList) /\ e \in 1..Len(reg)
  BY DEF RecTypeOK, Entries
<1> QED BY <1>1, ExceptSeq DEF Entries

LEMMA EntryChange ==
    ASSUME RecTypeOK, NEW e \in Entries, NEW r \in EntryRec, asList' = [asList EXCEPT ![e] = r]
    PROVE  /\ asList' \in Seq(EntryRec) /\ Len(asList') = Len(asList)
           /\ \A f \in Entries : asList'[f] = IF f = e THEN r ELSE asList[f]
<1>1. asList \in Seq(EntryRec) /\ e \in 1..Len(asList)
  BY DEF RecTypeOK, Entries
<1> QED BY <1>1, ExceptSeq DEF Entries

(* munmap keeps the entry.                                                 *)
LEMMA MunmapStep ==
    ASSUME RecTypeOK, FaultsMark, SyncsMatch, NEW e \in Entries, Munmap(e)
    PROVE  RecTypeOK' /\ AppStep
<1> DEFINE r == [reg[e] EXCEPT !.live = FALSE]
<1>1. /\ reg' = [reg EXCEPT ![e] = r]
      /\ AppMayRun /\ UNCHANGED <<use, asList, syncs, submits, walk, file, syncFile>>
  BY DEF Munmap
<1>2. r \in RegionRec
  BY Ranges DEF RegionRec
<1>3. /\ reg' \in Seq(RegionRec) /\ Len(reg') = Len(asList)
      /\ \A f \in Entries : reg'[f] = IF f = e THEN r ELSE reg[f]
  <2> HIDE DEF r
  <2> QED BY <1>1, <1>2, RegionChange
<1>4. /\ r.nrPages = reg[e].nrPages /\ r.nents = reg[e].nents
       /\ r.mapped = reg[e].mapped /\ r.touched = reg[e].touched
       /\ r.writes = reg[e].writes /\ r.since = reg[e].since /\ r.gpu = reg[e].gpu
  BY Ranges DEF RegionRec
<1> HIDE DEF r
<1>5. \A f \in Entries :
         /\ reg'[f].nrPages = reg[f].nrPages /\ reg'[f].nents = reg[f].nents
         /\ reg'[f].mapped = reg[f].mapped /\ reg'[f].touched = reg[f].touched
         /\ reg'[f].writes = reg[f].writes /\ reg'[f].since = reg[f].since
         /\ reg'[f].gpu = reg[f].gpu
  BY <1>3, <1>4
<1>6. RecTypeOK'
  BY <1>1, <1>3, <1>5 DEF RecTypeOK, Entries
<1>7. EntriesKept
  <2>1. \A f \in Entries : SizeOnly(f)
    BY <1>1, <1>5, Ranges DEF SizeOnly
  <2> QED BY <1>1, <1>5, <2>1, Ranges DEF EntriesKept, Entries, FaultsMark
<1> QED BY <1>1, <1>6, <1>7 DEF AppStep, SyncsMatch

(* Resizing a region keeps its entry, and with the pages that it takes     *)
(* goes their mapping.                                                     *)
LEMMA CommitStep ==
    ASSUME RecTypeOK, FaultsMark, SyncsMatch,
           NEW e \in Entries, NEW n \in 1..reg[e].nrPages, Commit(e, n)
    PROVE  RecTypeOK' /\ AppStep
<1> DEFINE r == [reg[e] EXCEPT !.nents = n,
                               !.mapped = IF n < @ THEN n ELSE @,
                               !.touched = IF n < @ THEN n ELSE @]
<1>1. /\ reg' = [reg EXCEPT ![e] = r] /\ n <= reg[e].nrPages
      /\ AppMayRun /\ UNCHANGED <<use, asList, syncs, submits, walk, file, syncFile>>
  BY DEF Commit
<1>2. n \in Nat
  BY Ranges
<1>3. /\ r \in RegionRec /\ r.nrPages = reg[e].nrPages /\ r.nents = n
      /\ r.mapped = (IF n < reg[e].mapped THEN n ELSE reg[e].mapped)
      /\ r.touched = (IF n < reg[e].touched THEN n ELSE reg[e].touched)
      /\ r.writes = reg[e].writes /\ r.since = reg[e].since /\ r.gpu = reg[e].gpu
  BY <1>2, Ranges DEF RegionRec
<1> HIDE DEF r
<1>4. /\ reg' \in Seq(RegionRec) /\ Len(reg') = Len(asList)
      /\ \A f \in Entries : reg'[f] = IF f = e THEN r ELSE reg[f]
  BY <1>1, <1>3, RegionChange
<1>5. RecTypeOK'
  <2>1. \A f \in Entries :
           /\ reg'[f].nents <= reg'[f].nrPages
           /\ reg'[f].mapped <= reg'[f].nents /\ reg'[f].touched <= reg'[f].mapped
    <3>1. /\ r.nents <= r.nrPages /\ r.mapped <= r.nents /\ r.touched <= r.mapped
      <4>1. reg[e].mapped <= reg[e].nents /\ reg[e].touched <= reg[e].mapped
        BY DEF RecTypeOK
      <4>2. reg[e].mapped \in Nat /\ reg[e].touched \in Nat
        BY Ranges
      <4> QED BY <1>1, <1>2, <1>3, <4>1, <4>2
    <3> QED BY <1>4, <3>1 DEF RecTypeOK
  <2> QED BY <1>1, <1>4, <2>1 DEF RecTypeOK, Entries
<1>6. EntriesKept
  <2>1. \A f \in Entries : SizeOnly(f)
    <3>1. r.mapped <= reg[e].mapped
      BY <1>2, <1>3, Ranges
    <3> QED BY <1>1, <1>3, <1>4, <3>1, Ranges, SMTT(30) DEF SizeOnly
  <2>2. \A f \in Entries : reg'[f].gpu = reg[f].gpu
    BY <1>3, <1>4
  <2> QED BY <1>1, <2>1, <2>2, Ranges DEF EntriesKept, Entries, FaultsMark
<1> QED BY <1>1, <1>5, <1>6 DEF AppStep, SyncsMatch

(* A fault marks at most one entry, that of the region where an address is *)
(* mapped once.                                                            *)
LEMMA AddValidEffect ==
    ASSUME RecTypeOK, FaultsMark, NEW e \in Entries, AddValid(e)
    PROVE  /\ asList' \in Seq(EntryRec) /\ Len(asList') = Len(asList)
           /\ \A f \in Entries :
                 /\ asList'[f].type = asList[f].type /\ asList'[f].dumped = asList[f].dumped
                 /\ asList'[f].addr = asList[f].addr
           /\ Once => /\ asList'[e].valid /\ asList'[e].nents = reg[e].nents
                      /\ \A f \in Entries : f # e => asList'[f] = asList[f]
<1> DEFINE m == Marked(e)
           r == [asList[m] EXCEPT !.valid = TRUE, !.nents = reg[e].nents]
<1>1. asList' = [asList EXCEPT ![m] = r]
  BY DEF AddValid
<1>2. Once => m = e
  BY DEF Marked, FaultsMark, Entries
<1>3. CASE m \notin Entries
  <2>1. asList \in [Entries -> EntryRec]
    BY LenProperties DEF RecTypeOK, Entries
  <2>2. asList' = asList
    <3> HIDE DEF m, r
    <3> QED BY <1>1, <1>3, <2>1
  <2> QED BY <1>2, <1>3, <2>2 DEF RecTypeOK
<1>4. CASE m \in Entries
  <2>1. /\ r \in EntryRec /\ r.addr = asList[m].addr /\ r.type = asList[m].type
        /\ r.dumped = asList[m].dumped /\ r.valid /\ r.nents = reg[e].nents
    <3> HIDE DEF m
    <3> QED BY <1>4, Ranges DEF EntryRec
  <2> HIDE DEF m, r
  <2>2. /\ asList' \in Seq(EntryRec) /\ Len(asList') = Len(asList)
        /\ \A f \in Entries : asList'[f] = IF f = m THEN r ELSE asList[f]
    BY <1>1, <1>4, <2>1, EntryChange
  <2> QED BY <1>2, <2>1, <2>2
<1> QED BY <1>3, <1>4

(* A write changes its region, and what it marks if it faults.             *)
LEMMA WriteStep ==
    ASSUME RecTypeOK, FaultsMark, SyncsMatch,
           NEW e \in Entries, NEW p \in 1..reg[e].nents, Write(e, p)
    PROVE  RecTypeOK' /\ AppStep
<1> DEFINE mapped == IF p > reg[e].mapped THEN reg[e].nents ELSE reg[e].mapped
           touched == IF p > reg[e].touched THEN p ELSE reg[e].touched
           since == IF reg[e].writes = 0 THEN Ioctls ELSE reg[e].since
           r == [reg[e] EXCEPT !.mapped = mapped, !.touched = touched,
                               !.writes = reg[e].writes + 1, !.since = since]
<1>1. /\ reg' = [reg EXCEPT ![e] = r]
      /\ AppMayRun /\ UNCHANGED <<use, syncs, submits, walk, file, syncFile>>
      /\ IF p > reg[e].mapped THEN AddValid(e) ELSE asList' = asList
  BY DEF Write
<1>2. p \in Nat /\ 1 <= p /\ p <= reg[e].nents
  BY Ranges
<1>3. /\ r \in RegionRec /\ r.nrPages = reg[e].nrPages /\ r.nents = reg[e].nents
      /\ r.mapped = mapped /\ r.touched = touched /\ r.since = since
      /\ r.writes = reg[e].writes + 1 /\ r.gpu = reg[e].gpu
  <2>1. reg[e] \in RegionRec /\ Ioctls \in Nat
    BY Ranges
  <2>2. mapped \in Nat /\ touched \in Nat /\ since \in Nat /\ reg[e].writes + 1 \in Nat
    BY <1>2, Ranges, SMTT(30)
  <2> HIDE DEF mapped, touched, since
  <2> QED BY <2>1, <2>2 DEF RegionRec
<1> HIDE DEF r
<1>4. /\ reg' \in Seq(RegionRec) /\ Len(reg') = Len(asList)
      /\ \A f \in Entries : reg'[f] = IF f = e THEN r ELSE reg[f]
  BY <1>1, <1>3, RegionChange
<1>5. /\ asList' \in Seq(EntryRec) /\ Len(asList') = Len(asList)
      /\ \A f \in Entries :
            /\ asList'[f].type = asList[f].type /\ asList'[f].dumped = asList[f].dumped
            /\ asList'[f].addr = asList[f].addr
      /\ Once => \A f \in Entries : f # e => asList'[f] = asList[f]
  BY <1>1, AddValidEffect DEF RecTypeOK
<1>6. RecTypeOK'
  <2>1. r.nents <= r.nrPages /\ r.mapped <= r.nents /\ r.touched <= r.mapped
    <3>1. /\ reg[e].nents <= reg[e].nrPages /\ reg[e].mapped <= reg[e].nents
          /\ reg[e].touched <= reg[e].mapped
      BY DEF RecTypeOK
    <3>2. /\ p \in Nat /\ reg[e].nents \in Nat /\ reg[e].mapped \in Nat
          /\ reg[e].touched \in Nat
      BY <1>2, Ranges
    <3> QED BY <1>2, <1>3, <3>1, <3>2
  <2>2. \A f \in Entries :
           /\ reg'[f].nents <= reg'[f].nrPages
           /\ reg'[f].mapped <= reg'[f].nents /\ reg'[f].touched <= reg'[f].mapped
    BY <1>4, <2>1 DEF RecTypeOK
  <2> QED BY <1>1, <1>4, <1>5, <2>2 DEF RecTypeOK, Entries
<1>7. EntriesKept
  <2>1. \A f \in Entries : reg'[f].gpu = reg[f].gpu
    BY <1>3, <1>4
  <2>2. Once => \A f \in Entries : SizeOnly(f) \/ WrittenTo(f)
    <3>1. SUFFICES ASSUME Once PROVE \A f \in Entries : SizeOnly(f) \/ WrittenTo(f)
      OBVIOUS
    <3>2. \A f \in Entries : f # e => SizeOnly(f)
      BY <1>4, <1>5, <3>1, Ranges, SMTT(30) DEF SizeOnly
    <3>3. CASE p > reg[e].mapped
      <4>1. asList'[e].valid /\ asList'[e].nents = reg[e].nents
        BY <1>1, <3>1, <3>3, AddValidEffect
      <4>2. WrittenTo(e)
        BY <1>3, <1>4, <3>3, <4>1, Ranges, SMTT(30) DEF WrittenTo
      <4> QED BY <3>2, <4>2
    <3>4. CASE ~(p > reg[e].mapped)
      <4>1. asList' = asList
        BY <1>1, <3>4
      <4>2. asList[e].valid /\ reg[e].mapped <= asList[e].nents
        BY <1>2, <3>1, <3>4, Ranges DEF FaultsMark
      <4>3. WrittenTo(e)
        BY <1>3, <1>4, <3>4, <4>1, <4>2 DEF WrittenTo
      <4> QED BY <3>2, <4>3
    <3> QED BY <3>3, <3>4
  <2> QED BY <1>1, <1>5, <2>1, <2>2, Ranges DEF EntriesKept, Entries, FaultsMark, Once
<1> QED BY <1>1, <1>6, <1>7 DEF AppStep, SyncsMatch

(* SYNC adds to the list of ranges only.                                   *)
LEMMA SyncStep ==
    ASSUME RecTypeOK, FaultsMark, SyncsMatch, NEW s \in Syncs, Sync(s)
    PROVE  RecTypeOK' /\ AppStep
<1>1. /\ AppMayRun /\ syncs' = Append(syncs, s)
      /\ \A k \in 1..Len(syncs) : syncs[k] # s
      /\ UNCHANGED <<use, asList, reg, submits, walk, file, syncFile>>
  BY DEF Sync
<1>2. /\ syncs' \in Seq(Syncs) /\ Len(syncs') = Len(syncs) + 1
      /\ syncs'[Len(syncs) + 1] = s /\ Len(syncs) \in Nat
      /\ \A k \in 1..Len(syncs) : syncs'[k] = syncs[k]
  BY <1>1, AppendProperties DEF RecTypeOK
<1>3. RecTypeOK'
  BY <1>1, <1>2 DEF RecTypeOK, Entries
<1>4. EntriesKept
  BY <1>1, Ranges DEF EntriesKept, SizeOnly, Entries, FaultsMark
<1>5. \A j, k \in 1..Len(syncs') : syncs'[j] = syncs'[k] => j = k
  <2>1. \A k \in 1..Len(syncs') : k \in 1..Len(syncs) \/ k = Len(syncs) + 1
    BY <1>2
  <2> QED BY <1>1, <1>2, <2>1 DEF SyncsMatch
<1> QED BY <1>1, <1>3, <1>4, <1>5 DEF AppStep

LEMMA AppSteps ==
    ASSUME RecTypeOK, FaultsMark, SyncsMatch, App
    PROVE  RecTypeOK' /\ AppStep
<1>1. CASE \E a \in Addrs, m \in Mappings :
              \E ok \in IF use = "reuse" THEN BOOLEAN ELSE {TRUE} : Mmap(a, m, ok)
  BY <1>1, MmapStep
<1>2. CASE \E e \in Entries : Munmap(e)
  BY <1>2, MunmapStep
<1>3. CASE \E e \in Entries : \E n \in 1..reg[e].nrPages : Commit(e, n)
  BY <1>3, CommitStep
<1>4. CASE \E e \in Entries : \E p \in 1..reg[e].nents : Write(e, p)
  BY <1>4, WriteStep
<1>5. CASE \E s \in Syncs : Sync(s)
  BY <1>5, SyncStep
<1> QED BY <1>1, <1>2, <1>3, <1>4, <1>5 DEF App

(* The application's steps keep the invariant.                             *)
LEMMA AppKeeps ==
    ASSUME IInv, App
    PROVE  IInv'
<1>1. RecTypeOK /\ Written /\ HeaderMatches /\ SyncsMatch /\ FaultsMark /\ InTime
      /\ OnlyLateMissing
  BY DEF IInv
<1>2. RecTypeOK' /\ AppStep
  BY <1>1, AppSteps
<1>3. /\ UNCHANGED <<use, submits, walk, file, syncFile>> /\ AppMayRun
      /\ Len(asList) \in Nat /\ Len(asList') \in Nat /\ Len(asList) <= Len(asList')
  BY <1>1, <1>2, Ranges DEF AppStep, EntriesKept, RecTypeOK
<1>4. /\ \A e \in Entries :
            /\ e \in Entries' /\ asList'[e].dumped = asList[e].dumped
            /\ reg'[e].gpu = reg[e].gpu /\ IsJob(e)' = IsJob(e)
      /\ \A e \in Entries' : e \notin Entries => New(e)
      /\ Once => /\ \A e \in Entries : SizeOnly(e) \/ WrittenTo(e)
                 /\ \A e, f \in Entries' : asList'[e].addr = asList'[f].addr => e = f
  BY <1>2, <1>3 DEF AppStep, EntriesKept, Entries, IsJob
<1>5. Writing' = Writing /\ Once' = Once /\ Closed' = Closed
      /\ \A k \in 1..Len(file) : Complete(k)' = Complete(k)
  BY <1>3 DEF Writing, Walking, Complete, Once, Closed
<1>6. use # "threads" => walk.in = "none"
  BY <1>3 DEF AppMayRun
<1>7. Written'
  BY <1>1, <1>3, <1>4, <1>5 DEF Written, New
<1>8. HeaderMatches'
  BY <1>1, <1>3, <1>5, <1>6 DEF HeaderMatches, Writing, Walking
<1>9. SyncsMatch'
  BY <1>2, <1>3, <1>6 DEF SyncsMatch, AppStep, AppMayRun, Closed
<1>10. FaultsMark'
  <2>1. SUFFICES ASSUME Once
        PROVE  /\ \A e \in Entries' :
                     /\ reg'[e].mapped <= IF asList'[e].valid THEN asList'[e].nents ELSE 0
                     /\ reg'[e].writes = 0 <=> ~asList'[e].valid
               /\ \A k \in 1..Len(file) : Complete(k) => file[k].touched <= file[k].pages
    BY <1>3, <1>4, <1>5 DEF FaultsMark
  <2>2. ASSUME NEW e \in Entries
        PROVE  /\ reg'[e].mapped <= IF asList'[e].valid THEN asList'[e].nents ELSE 0
               /\ reg'[e].writes = 0 <=> ~asList'[e].valid
    <3>1. /\ reg[e].mapped <= IF asList[e].valid THEN asList[e].nents ELSE 0
          /\ reg[e].writes = 0 <=> ~asList[e].valid
      BY <1>1, <2>1 DEF FaultsMark
    <3>2. /\ reg[e].mapped \in Nat /\ reg[e].writes \in Nat /\ asList[e].nents \in Nat
          /\ reg'[e].mapped \in Nat
      <4>1. reg' \in Seq(RegionRec) /\ e \in 1..Len(reg')
        BY <1>2, <1>4 DEF RecTypeOK, Entries
      <4>2. reg'[e] \in RegionRec
        BY <4>1, ElementOfSeq
      <4> QED BY <1>1, <4>2, Ranges DEF RegionRec
    <3>3. CASE SizeOnly(e)
      BY <3>1, <3>2, <3>3 DEF SizeOnly
    <3>4. CASE WrittenTo(e)
      BY <3>2, <3>4 DEF WrittenTo
    <3> QED BY <1>4, <2>1, <3>3, <3>4
  <2>3. \A e \in Entries' : e \notin Entries =>
           /\ reg'[e].mapped <= IF asList'[e].valid THEN asList'[e].nents ELSE 0
           /\ reg'[e].writes = 0 <=> ~asList'[e].valid
    BY <1>4 DEF New
  <2> QED BY <1>1, <2>1, <2>2, <2>3 DEF FaultsMark
<1>11. InTime'
  <2>1. SUFFICES ASSUME use = "serial" PROVE InTime'
    BY <1>3 DEF InTime
  <2>2. walk.in = "none"
    BY <1>6, <2>1
  <2>3. \A e \in Entries' : ~IsJob(e)' /\ ~asList'[e].dumped => ~reg'[e].gpu
    BY <1>1, <1>4, <2>1 DEF InTime, New
  <2>4. \A k \in 1..Len(file) :
           file[k].entry \in Entries /\ ~IsJob(file[k].entry) /\ (Complete(k) => ~file[k].gpu)
    BY <1>1, <2>1, <2>2 DEF InTime, Written
  <2>5. \A k \in 1..Len(file) : ~IsJob(file[k].entry)' /\ (Complete(k)' => ~file[k].gpu)
    BY <1>3, <1>4, <1>5, <2>4
  <2> QED BY <1>3, <2>2, <2>3, <2>5 DEF InTime
<1>12. OnlyLateMissing'
  <2>1. SUFFICES ASSUME Once, NEW e \in Entries'
                 PROVE  asList'[e].dumped \/ MayMiss(e)'
    BY <1>5 DEF OnlyLateMissing
  <2>2. ~Closed
    BY <1>3 DEF AppMayRun, Closed
  <2>3. submits \in Nat /\ walk.next \in Nat /\ walk.in \in Walks
    BY <1>1, Ranges
  <2>4. walk.next <= Len(asList) + 1
    BY <1>1 DEF RecTypeOK
  <2>5. CASE e \notin Entries
    <3>1. ~asList'[e].valid /\ reg'[e].since = Ioctls /\ walk.next <= e
      BY <1>3, <1>4, <2>3, <2>4, <2>5 DEF New, Entries
    <3> QED BY <1>3, <2>2, <2>3, <3>1 DEF MayMiss, Ioctls, Walks, Closed, Entries
  <2>6. CASE e \in Entries
    <3>1. asList[e].dumped \/ MayMiss(e)
      BY <1>1, <2>1, <2>6 DEF OnlyLateMissing
    <3>2. asList'[e].dumped = asList[e].dumped /\ IsJob(e)' = IsJob(e)
      BY <1>4, <2>6
    <3>3. CASE SizeOnly(e)
      BY <1>3, <3>1, <3>2, <3>3 DEF MayMiss, SizeOnly
    <3>4. CASE WrittenTo(e)
      <4>1. /\ asList'[e].valid
            /\ IF asList[e].valid THEN reg'[e].since = reg[e].since ELSE reg'[e].since = Ioctls
        BY <1>1, <2>1, <2>6, <3>4 DEF WrittenTo, FaultsMark
      <4> QED BY <1>3, <2>2, <2>3, <3>1, <3>2, <4>1 DEF MayMiss, Ioctls, Walks, Closed
    <3> QED BY <1>4, <2>1, <2>6, <3>3, <3>4
  <2> QED BY <2>5, <2>6
<1> QED BY <1>2, <1>7, <1>8, <1>9, <1>10, <1>11, <1>12 DEF IInv

-----------------------------------------------------------------------------
(* The recorder's steps.                                                   *)

(* Nothing but the walk and the count of submits changes, and no entry is  *)
(* being written before or after.                                          *)
LEMMA PhaseKeeps ==
    ASSUME IInv, UNCHANGED <<use, asList, reg, syncs, file>>, ~Writing, ~Writing'
    PROVE  Written' /\ HeaderMatches' /\ FaultsMark'
<1>1. Entries' = Entries /\ Once' = Once
  BY DEF Entries, Once
<1>2. \A k \in 1..Len(file) : Complete(k) /\ Complete(k)'
  BY DEF Complete
<1>3. Written'
  BY <1>1, <1>2 DEF IInv, Written
<1>4. HeaderMatches'
  BY <1>2 DEF IInv, HeaderMatches
<1>5. FaultsMark'
  BY <1>1, <1>2 DEF IInv, FaultsMark
<1> QED BY <1>3, <1>4, <1>5

(* Nothing was mapped or written to after JOB_SUBMIT began, so what was    *)
(* left out then is what its walk may leave out.                           *)
LEMMA SubmitBeginKeeps ==
    ASSUME IInv, SubmitBegin
    PROVE  IInv'
<1>1. /\ walk.in = "none" /\ submits < MaxSubmits /\ submits' = submits + 1
      /\ walk' = [in |-> "submit", next |-> 1, header |-> FALSE]
      /\ UNCHANGED <<use, asList, reg, syncs, file, syncFile>>
  BY DEF SubmitBegin, Begin
<1>2. RecTypeOK'
  <2>1. submits' \in 0..MaxSubmits /\ 1 <= Len(asList') + 1
    BY <1>1, Ranges, BoundsAssumption DEF IInv
  <2>2. walk' \in [in : Walks, next : Nat, header : BOOLEAN]
    BY <1>1 DEF Walks
  <2> QED BY <1>1, <2>1, <2>2 DEF IInv, RecTypeOK, Entries
<1>3. Written' /\ HeaderMatches' /\ FaultsMark'
  BY <1>1, PhaseKeeps DEF Writing, Walking
<1>4. SyncsMatch'
  BY <1>1 DEF IInv, SyncsMatch, Closed
<1>5. InTime'
  <2>1. \A e \in Entries : ~(e < 1)
    BY Ranges DEF IInv, Entries
  <2> QED BY <1>1, <2>1 DEF IInv, InTime, Writing, Walking, Complete, IsJob, Entries
<1>6. OnlyLateMissing'
  <2>1. \A e \in Entries : ~(e < 1)
    BY Ranges DEF IInv, Entries
  <2> QED BY <1>1, <2>1 DEF OnlyLateMissing, MayMiss, Once, Entries
<1> QED BY <1>2, <1>3, <1>4, <1>5, <1>6 DEF IInv

LEMMA PostBeginKeeps ==
    ASSUME IInv, PostBegin
    PROVE  IInv'
<1>1. /\ walk.in = "none"
      /\ walk' = [in |-> "post_jobs", next |-> 1, header |-> FALSE]
      /\ UNCHANGED <<use, asList, reg, syncs, submits, file, syncFile>>
  BY DEF PostBegin, Begin
<1>2. RecTypeOK'
  <2>1. 1 <= Len(asList') + 1
    BY <1>1, Ranges DEF IInv
  <2>2. walk' \in [in : Walks, next : Nat, header : BOOLEAN]
    BY <1>1 DEF Walks
  <2> QED BY <1>1, <2>1, <2>2 DEF IInv, RecTypeOK, Entries
<1>3. Written' /\ HeaderMatches' /\ FaultsMark'
  BY <1>1, PhaseKeeps DEF Writing, Walking
<1>4. SyncsMatch'
  BY <1>1 DEF IInv, SyncsMatch, Closed
<1>5. InTime'
  BY <1>1 DEF IInv, InTime, Writing, Walking, Complete, IsJob, Entries
<1>6. OnlyLateMissing'
  <2>1. \A e \in Entries : ~(e < 1)
    BY Ranges DEF IInv, Entries
  <2> QED BY <1>1, <2>1 DEF IInv, OnlyLateMissing, MayMiss, Once, Entries, IsJob
<1> QED BY <1>2, <1>3, <1>4, <1>5, <1>6 DEF IInv

LEMMA WalkSkipKeeps ==
    ASSUME IInv, WalkSkip
    PROVE  IInv'
<1>1. /\ Walking /\ walk.next \in Entries /\ ~walk.header
      /\ asList[walk.next].dumped \/ ~Selected(walk.next)
      /\ walk' = [walk EXCEPT !.next = @ + 1]
      /\ UNCHANGED <<use, asList, reg, syncs, submits, file, syncFile>>
  BY DEF WalkSkip
<1>2. /\ walk \in [in : Walks, next : Nat, header : BOOLEAN]
      /\ walk'.in = walk.in /\ walk'.next = walk.next + 1 /\ ~walk'.header
      /\ walk' \in [in : Walks, next : Nat, header : BOOLEAN]
  <2>1. walk \in [in : Walks, next : Nat, header : BOOLEAN]
    BY DEF IInv, RecTypeOK
  <2> QED BY <1>1, <2>1
<1>3. RecTypeOK'
  <2>1. walk'.next <= Len(asList') + 1
    BY <1>1, <1>2, Ranges DEF IInv, Entries
  <2> QED BY <1>1, <1>2, <2>1 DEF IInv, RecTypeOK, Entries
<1>4. ~Writing /\ ~Writing'
  BY <1>1, <1>2 DEF Writing
<1>5. Written' /\ HeaderMatches' /\ FaultsMark'
  BY <1>1, <1>4, PhaseKeeps
<1>6. SyncsMatch'
  BY <1>1, <1>2 DEF IInv, SyncsMatch, Closed
<1>7. \A e \in Entries : e < walk'.next => e < walk.next \/ e = walk.next
  BY <1>2, Ranges DEF IInv, Entries
<1>8. InTime'
  <2>1. SUFFICES ASSUME use = "serial" PROVE InTime'
    BY <1>1 DEF InTime
  <2>2. walk.in = "submit" =>
           \A e \in Entries :
              e < walk'.next /\ asList[e].valid /\ ~IsJob(e) => asList[e].dumped
    BY <1>1, <1>7, <2>1 DEF IInv, InTime, Selected
  <2>3. \A k \in 1..Len(file) : Complete(k)' = Complete(k)
    BY <1>1, <1>4 DEF Complete
  <2>4. \A e : IsJob(e)' = IsJob(e)
    BY <1>1 DEF IsJob
  <2> QED BY <1>1, <1>2, <1>4, <2>1, <2>2, <2>3, <2>4 DEF IInv, InTime, Entries
<1>9. OnlyLateMissing'
  <2>1. SUFFICES ASSUME Once, NEW e \in Entries, ~asList[e].dumped, MayMiss(e)
                 PROVE  MayMiss(e)'
    BY <1>1 DEF IInv, OnlyLateMissing, Once, Entries
  <2>2. e = walk.next => ~Selected(e)
    BY <1>1, <2>1
  <2> QED BY <1>1, <1>2, <1>7, <2>1, <2>2 DEF MayMiss, Selected, Walking, IsJob
<1> QED BY <1>3, <1>5, <1>6, <1>8, <1>9 DEF IInv

(* The header of the entry goes to the end of the file.                    *)
LEMMA WalkHeaderKeeps ==
    ASSUME IInv, WalkHeader
    PROVE  IInv'
<1> DEFINE e == walk.next
           n == Len(file) + 1
           h == [entry |-> e, valid |-> asList[e].valid, nents |-> asList[e].nents,
                 pages |-> 0, touched |-> 0, writes |-> 0, gpu |-> FALSE]
<1>1. /\ Walking /\ e \in Entries /\ ~walk.header /\ ~asList[e].dumped /\ Selected(e)
      /\ file' = Append(file, h) /\ walk' = [walk EXCEPT !.header = TRUE]
      /\ UNCHANGED <<use, asList, reg, syncs, submits, syncFile>>
  BY DEF WalkHeader
<1>2. /\ walk'.in = walk.in /\ walk'.next = walk.next /\ walk'.header
      /\ walk' \in [in : Walks, next : Nat, header : BOOLEAN]
  <2>1. walk \in [in : Walks, next : Nat, header : BOOLEAN]
    BY DEF IInv, RecTypeOK
  <2> QED BY <1>1, <2>1
<1>3. h \in FileRec
  BY <1>1, Ranges DEF IInv, FileRec, Entries
<1>4. /\ file' \in Seq(FileRec) /\ Len(file') = n /\ file'[n] = h /\ Len(file) \in Nat
      /\ \A k \in 1..Len(file) : file'[k] = file[k]
  <2> HIDE DEF h
  <2> QED BY <1>1, <1>3, AppendProperties DEF IInv, RecTypeOK
<1>5. \A k \in 1..Len(file') : k \in 1..Len(file) \/ k = n
  BY <1>4
<1>6. /\ Writing' /\ ~Writing
      /\ \A k \in 1..Len(file') : Complete(k)' => k \in 1..Len(file)
      /\ \A k \in 1..Len(file) : Complete(k)
      /\ Entries' = Entries /\ Once' = Once
  BY <1>1, <1>2, <1>4 DEF Writing, Walking, Complete, Entries, Once
<1>7. RecTypeOK'
  BY <1>1, <1>2, <1>4 DEF IInv, RecTypeOK, Entries
<1>8. Written'
  <2>1. \A k \in 1..Len(file) :
           file[k].entry \in Entries /\ asList[file[k].entry].dumped /\ file[k].entry # e
    BY <1>1, <1>6 DEF IInv, Written
  <2>2. \A k \in 1..Len(file') :
           /\ file'[k].entry \in Entries
           /\ Complete(k)' => asList[file'[k].entry].dumped
    BY <1>1, <1>4, <1>5, <1>6, <2>1
  <2>3. \A j, k \in 1..Len(file') : file'[j].entry = file'[k].entry => j = k
    <3>1. \A k \in 1..Len(file) : file'[k].entry # file'[n].entry
      BY <1>4, <2>1
    <3>2. \A j, k \in 1..Len(file) : file'[j].entry = file'[k].entry => j = k
      BY <1>4 DEF IInv, Written
    <3> QED BY <1>5, <3>1, <3>2
  <2>4. \A f \in Entries : asList[f].dumped => \E k \in 1..Len(file') : file'[k].entry = f
    <3>1. 1..Len(file) \subseteq 1..Len(file')
      BY <1>4
    <3> QED BY <1>4, <3>1 DEF IInv, Written
  <2>5. file'[Len(file')].entry = e /\ Len(file') >= 1
    BY <1>4
  <2> QED BY <1>1, <1>2, <1>6, <2>2, <2>3, <2>4, <2>5 DEF Written
<1>9. HeaderMatches'
  <2>1. \A k \in 1..Len(file') :
           Complete(k)' => k \in 1..Len(file) /\ Complete(k) /\ file'[k] = file[k]
    BY <1>4, <1>6
  <2> QED BY <1>1, <1>2, <1>4, <2>1 DEF IInv, HeaderMatches
<1>10. SyncsMatch'
  BY <1>1, <1>2 DEF IInv, SyncsMatch, Closed, Walking
<1>11. FaultsMark'
  BY <1>1, <1>4, <1>5, <1>6 DEF IInv, FaultsMark
<1>12. InTime'
  <2>1. SUFFICES ASSUME use = "serial" PROVE InTime'
    BY <1>1 DEF InTime
  <2>2. \A f : IsJob(f)' = IsJob(f)
    BY <1>1 DEF IsJob
  <2>3. walk.in = "submit" => ~IsJob(e)
    BY <1>1 DEF Selected
  <2>4. \A k \in 1..Len(file') :
           IF IsJob(file'[k].entry)
           THEN /\ walk.in \notin {"none", "submit"}
                /\ Complete(k)' => file'[k].writes = reg[file'[k].entry].writes
           ELSE Complete(k)' => ~file'[k].gpu
    <3>1. ASSUME NEW k \in 1..Len(file)
          PROVE  IF IsJob(file'[k].entry)
                 THEN /\ walk.in \notin {"none", "submit"}
                      /\ Complete(k)' => file'[k].writes = reg[file'[k].entry].writes
                 ELSE Complete(k)' => ~file'[k].gpu
      BY <1>4, <1>6, <2>1 DEF IInv, InTime
    <3>2. IsJob(file'[n].entry) => walk.in \notin {"none", "submit"}
      BY <1>1, <1>4, <2>3 DEF Walking
    <3>3. ~(n \in 1..Len(file))
      BY <1>4
    <3> QED BY <1>5, <1>6, <3>1, <3>2, <3>3
  <2> QED BY <1>1, <1>2, <1>6, <2>1, <2>2, <2>3, <2>4 DEF IInv, InTime
<1>13. OnlyLateMissing'
  BY <1>1, <1>2, <1>6 DEF IInv, OnlyLateMissing, MayMiss, IsJob
<1> QED BY <1>7, <1>8, <1>9, <1>10, <1>11, <1>12, <1>13 DEF IInv

(* The pages complete the last entry of the file, and the list says so.    *)
LEMMA WalkPagesKeeps ==
    ASSUME IInv, WalkPages
    PROVE  IInv'
<1> DEFINE e == walk.next
           n == Len(file)
           pages == IF asList[e].valid THEN asList[e].nents ELSE 0
           h == [file[n] EXCEPT !.pages = pages, !.touched = reg[e].touched,
                                !.writes = reg[e].writes, !.gpu = reg[e].gpu]
           x == [asList[e] EXCEPT !.dumped = TRUE]
<1>1. /\ Walking /\ walk.header /\ file' = [file EXCEPT ![n] = h]
      /\ asList' = [asList EXCEPT ![e] = x]
      /\ walk' = [walk EXCEPT !.header = FALSE, !.next = @ + 1]
      /\ UNCHANGED <<use, reg, syncs, submits, syncFile>>
  BY DEF WalkPages, PagesWritten
<1>2. /\ Writing /\ e \in Entries /\ ~asList[e].dumped
      /\ n \in 1..Len(file) /\ file[n].entry = e
  BY <1>1, Ranges DEF IInv, Written, Writing
<1>3. /\ walk'.in = walk.in /\ walk'.next = e + 1 /\ ~walk'.header
      /\ walk' \in [in : Walks, next : Nat, header : BOOLEAN]
  <2>1. walk \in [in : Walks, next : Nat, header : BOOLEAN]
    BY DEF IInv, RecTypeOK
  <2>2. walk' = [in |-> walk.in, next |-> walk.next + 1, header |-> FALSE]
    BY <1>1, <2>1
  <2> QED BY <2>1, <2>2
<1>4. /\ h \in FileRec /\ h.entry = e /\ h.valid = file[n].valid /\ h.nents = file[n].nents
      /\ h.pages = pages /\ h.touched = reg[e].touched /\ h.writes = reg[e].writes
      /\ h.gpu = reg[e].gpu
  <2>1. /\ file[n] \in FileRec /\ reg[e] \in RegionRec /\ pages \in Nat
    BY <1>2, Ranges DEF IInv
  <2>2. reg[e].touched \in Nat /\ reg[e].writes \in Nat /\ reg[e].gpu \in BOOLEAN
    BY <2>1 DEF RegionRec
  <2> HIDE DEF pages
  <2> QED BY <1>2, <2>1, <2>2 DEF FileRec
<1>5. /\ x \in EntryRec /\ x.dumped /\ x.addr = asList[e].addr /\ x.type = asList[e].type
      /\ x.valid = asList[e].valid /\ x.nents = asList[e].nents
  BY <1>2, Ranges DEF IInv, EntryRec
<1>6. /\ file' \in Seq(FileRec) /\ Len(file') = n /\ file'[n] = h
      /\ \A k \in 1..Len(file) : k # n => file'[k] = file[k]
  <2> HIDE DEF h
  <2> QED BY <1>1, <1>2, <1>4, ExceptSeq DEF IInv, RecTypeOK
<1>7. /\ asList' \in Seq(EntryRec) /\ Len(asList') = Len(asList)
      /\ \A f \in Entries : asList'[f] = IF f = e THEN x ELSE asList[f]
  <2> HIDE DEF x
  <2> QED BY <1>1, <1>2, <1>5, EntryChange DEF IInv
<1> HIDE DEF h, x
<1>8. /\ asList'[e].dumped
      /\ \A f \in Entries :
            /\ f # e => asList'[f].dumped = asList[f].dumped
            /\ asList'[f].addr = asList[f].addr /\ asList'[f].valid = asList[f].valid
            /\ asList'[f].nents = asList[f].nents /\ asList'[f].type = asList[f].type
            /\ IsJob(f)' = IsJob(f)
  BY <1>2, <1>5, <1>7 DEF IsJob
<1>9. /\ Entries' = Entries /\ Once' = Once /\ ~Writing'
      /\ \A k \in 1..Len(file) : k # n => Complete(k)
  <2>1. Len(file) \in Nat
    BY Ranges DEF IInv
  <2> QED BY <1>1, <1>3, <1>7, <2>1 DEF Writing, Complete, Entries, Once
<1>10. RecTypeOK'
  <2>1. walk'.next <= Len(asList') + 1
    BY <1>2, <1>3, <1>7, Ranges DEF IInv, Entries
  <2> QED BY <1>1, <1>3, <1>6, <1>7, <2>1 DEF IInv, RecTypeOK, Entries
<1>11. \A k \in 1..Len(file) : file'[k].entry = file[k].entry /\ file[k].entry \in Entries
  BY <1>2, <1>4, <1>6 DEF IInv, Written
<1>12. Written'
  <2>1. \A k \in 1..Len(file) : asList'[file'[k].entry].dumped
    BY <1>2, <1>4, <1>6, <1>8, <1>9, <1>11 DEF IInv, Written
  <2>2. \A f \in Entries : asList'[f].dumped => \E k \in 1..Len(file') : file'[k].entry = f
    <3>1. \A f \in Entries : f # e /\ asList'[f].dumped =>
             \E k \in 1..Len(file) : file[k].entry = f
      BY <1>8 DEF IInv, Written
    <3> QED BY <1>2, <1>4, <1>6, <1>11, <3>1
  <2> QED BY <1>6, <1>9, <1>11, <2>1, <2>2 DEF IInv, Written
<1>13. HeaderMatches'
  <2>1. SUFFICES ASSUME use # "threads", NEW k \in 1..Len(file)
                 PROVE  file'[k].pages = IF file'[k].valid THEN file'[k].nents ELSE 0
    BY <1>1, <1>6, <1>9 DEF HeaderMatches
  <2>2. CASE k = n
    BY <1>2, <1>4, <1>6, <2>1, <2>2 DEF IInv, HeaderMatches
  <2>3. CASE k # n
    BY <1>6, <1>9, <2>1, <2>3 DEF IInv, HeaderMatches
  <2> QED BY <2>2, <2>3
<1>14. SyncsMatch'
  BY <1>1, <1>3 DEF IInv, SyncsMatch, Closed, Walking
<1>15. FaultsMark'
  <2>1. SUFFICES ASSUME Once PROVE FaultsMark'
    BY <1>9 DEF FaultsMark
  <2>2. h.touched <= h.pages
    <3>1. reg[e].touched <= reg[e].mapped /\ reg[e].mapped <= pages
      BY <1>2, <2>1 DEF IInv, FaultsMark, RecTypeOK
    <3>2. reg[e].touched \in Nat /\ reg[e].mapped \in Nat /\ pages \in Nat
      BY <1>2, Ranges DEF IInv
    <3> HIDE DEF pages
    <3> QED BY <1>4, <3>1, <3>2
  <2>3. \A k \in 1..Len(file) : file'[k].touched <= file'[k].pages
    BY <1>6, <1>9, <2>1, <2>2 DEF IInv, FaultsMark
  <2> QED BY <1>1, <1>6, <1>8, <1>9, <2>1, <2>3 DEF IInv, FaultsMark
<1>16. InTime'
  <2>1. SUFFICES ASSUME use = "serial" PROVE InTime'
    BY <1>1 DEF InTime
  <2>2. \A f \in Entries : ~IsJob(f)' /\ ~asList'[f].dumped => ~reg'[f].gpu
    BY <1>1, <1>8, <2>1 DEF IInv, InTime
  <2>3. \A f \in Entries : f < walk'.next => f < e \/ f = e
    BY <1>2, <1>3, Ranges DEF IInv, Entries
  <2>4. walk.in = "submit" =>
           \A f \in Entries :
              f < walk'.next /\ asList'[f].valid /\ ~IsJob(f)' => asList'[f].dumped
    BY <1>8, <2>1, <2>3 DEF IInv, InTime
  <2>5. \A k \in 1..Len(file) :
           IF asList'[file'[k].entry].type \in {"COMPUTE_JOB", "GPU_BINARY"}
           THEN walk.in \notin {"none", "submit"} /\ file'[k].writes = reg[file'[k].entry].writes
           ELSE ~file'[k].gpu
    <3>1. ASSUME NEW k \in 1..Len(file), k # n
          PROVE  IF IsJob(file[k].entry)
                 THEN /\ walk.in \notin {"none", "submit"}
                      /\ file[k].writes = reg[file[k].entry].writes
                 ELSE ~file[k].gpu
      BY <1>9, <2>1, <3>1 DEF IInv, InTime
    <3>2. IF IsJob(e)
          THEN walk.in \notin {"none", "submit"} /\ h.writes = reg[e].writes
          ELSE ~h.gpu
      BY <1>1, <1>2, <1>4, <2>1 DEF IInv, InTime, Walking
    <3>3. \A k \in 1..Len(file) :
             IsJob(file[k].entry) <=>
                asList'[file'[k].entry].type \in {"COMPUTE_JOB", "GPU_BINARY"}
      BY <1>8, <1>11 DEF IsJob
    <3>4. \A k \in 1..Len(file) :
             /\ k = n => file'[k] = h /\ file[k].entry = e
             /\ k # n => file'[k] = file[k]
      BY <1>2, <1>6
    <3> QED BY <1>11, <3>1, <3>2, <3>3, <3>4
  <2> QED BY <1>1, <1>3, <1>6, <1>9, <2>1, <2>2, <2>4, <2>5 DEF InTime, IsJob
<1>17. OnlyLateMissing'
  <2>1. SUFFICES ASSUME Once, NEW f \in Entries, ~asList'[f].dumped PROVE MayMiss(f)'
    BY <1>9 DEF OnlyLateMissing
  <2>2. f # e /\ MayMiss(f)
    BY <1>8, <2>1 DEF IInv, OnlyLateMissing
  <2>3. f < walk'.next => f < e
    BY <1>2, <1>3, <2>2, Ranges DEF IInv, Entries
  <2> QED BY <1>1, <1>3, <1>8, <2>2, <2>3 DEF MayMiss
<1> QED BY <1>10, <1>12, <1>13, <1>14, <1>15, <1>16, <1>17 DEF IInv

(* When the walk of JOB_SUBMIT is over, what it left undumped cannot be    *)
(* changed by the job: it is a job chain or was never written to.          *)
LEMMA SubmitEndKeeps ==
    ASSUME IInv, SubmitEnd
    PROVE  IInv'
<1> DEFINE r(e) == [reg[e] EXCEPT !.gpu = reg[e].writes > 0]
<1>1. /\ walk.in = "submit" /\ walk.next = Len(asList) + 1
      /\ walk' = [in |-> "none", next |-> 0, header |-> FALSE]
      /\ reg' = [e \in Entries |-> r(e)]
      /\ UNCHANGED <<use, asList, syncs, submits, file, syncFile>>
  BY DEF SubmitEnd, WalkDone, NoWalk
<1>2. ~Writing /\ ~Writing' /\ Entries' = Entries /\ Once' = Once
  <2>1. walk.next \notin Entries
    BY <1>1, Ranges DEF IInv, Entries
  <2> QED BY <1>1, <2>1 DEF IInv, Written, Writing, Walking, Entries, Once
<1>3. ASSUME NEW e \in Entries
      PROVE  /\ r(e) \in RegionRec
             /\ r(e).nrPages = reg[e].nrPages /\ r(e).nents = reg[e].nents
             /\ r(e).mapped = reg[e].mapped /\ r(e).touched = reg[e].touched
             /\ r(e).writes = reg[e].writes /\ r(e).since = reg[e].since
             /\ r(e).gpu <=> reg[e].writes > 0
  <2>1. reg[e] \in RegionRec
    BY Ranges DEF IInv
  <2>2. CASE reg[e].writes > 0
    <3>1. r(e) = [reg[e] EXCEPT !.gpu = TRUE]
      BY <2>2, Zenon
    <3> HIDE DEF r
    <3> QED BY <2>1, <2>2, <3>1 DEF RegionRec
  <2>3. CASE ~(reg[e].writes > 0)
    <3>1. (reg[e].writes > 0) = FALSE
      BY <2>3
    <3>2. r(e) = [reg[e] EXCEPT !.gpu = FALSE]
      BY <3>1, Zenon
    <3> HIDE DEF r
    <3> QED BY <2>1, <2>3, <3>2 DEF RegionRec
  <2> QED BY <2>2, <2>3
<1> HIDE DEF r
<1>4. \A e \in Entries : reg'[e] = r(e)
  BY <1>1
<1>5. reg' \in Seq(RegionRec) /\ Len(reg') = Len(asList)
  BY <1>1, <1>3, Ranges DEF IInv, Entries
<1>6. RecTypeOK'
  <2>1. walk' \in [in : Walks, next : Nat, header : BOOLEAN] /\ walk'.next <= Len(asList) + 1
    BY <1>1, Ranges DEF IInv, Walks
  <2> QED BY <1>1, <1>2, <1>3, <1>4, <1>5, <2>1 DEF IInv, RecTypeOK
<1>7. \A k \in 1..Len(file) : Complete(k) /\ Complete(k)'
  BY <1>2 DEF Complete
<1>8. Written' /\ HeaderMatches'
  BY <1>1, <1>2, <1>7 DEF IInv, Written, HeaderMatches
<1>9. SyncsMatch'
  BY <1>1 DEF IInv, SyncsMatch, Closed
<1>10. FaultsMark'
  BY <1>1, <1>2, <1>3, <1>4, <1>7 DEF IInv, FaultsMark
<1>11. \A e \in Entries : e < walk.next
  BY <1>1, Ranges DEF IInv, Entries
<1>12. \A e : IsJob(e)' = IsJob(e)
  BY <1>1 DEF IsJob
<1>13. InTime'
  <2>1. SUFFICES ASSUME use = "serial" PROVE InTime'
    BY <1>1 DEF InTime
  <2>2. ASSUME NEW e \in Entries, ~IsJob(e), ~asList[e].dumped
        PROVE  ~reg'[e].gpu
    <3>1. ~asList[e].valid
      BY <1>1, <1>11, <2>1, <2>2 DEF IInv, InTime
    <3>2. reg[e].writes = 0
      BY <2>1, <3>1 DEF IInv, FaultsMark, Once
    <3> QED BY <1>3, <1>4, <3>2
  <2>3. \A k \in 1..Len(file) : ~IsJob(file[k].entry) /\ ~file[k].gpu
    BY <1>1, <1>7, <2>1 DEF IInv, InTime
  <2> QED BY <1>1, <1>2, <1>12, <2>2, <2>3 DEF InTime
<1>14. OnlyLateMissing'
  BY <1>1, <1>2, <1>3, <1>4, <1>11, <1>12 DEF IInv, OnlyLateMissing, MayMiss
<1> QED BY <1>6, <1>8, <1>9, <1>10, <1>13, <1>14 DEF IInv

(* The two walks of POST_TERM have seen every entry when they are over.    *)
LEMMA PostWalkEndKeeps ==
    ASSUME IInv, PostJobsEnd \/ PostInvalidEnd
    PROVE  IInv'
<1>1. /\ \/ walk.in = "post_jobs" /\ walk'.in = "post_invalid"
         \/ walk.in = "post_invalid" /\ walk'.in = "post_sync"
      /\ walk.next = Len(asList) + 1 /\ walk'.next = 1 /\ ~walk'.header
      /\ walk' \in [in : Walks, next : Nat, header : BOOLEAN]
      /\ UNCHANGED <<use, asList, reg, syncs, submits, file, syncFile>>
  <2>1. CASE PostJobsEnd
    BY <2>1 DEF PostJobsEnd, WalkDone, Begin, Walks
  <2>2. CASE PostInvalidEnd
    BY <2>2 DEF PostInvalidEnd, WalkDone, Begin, Walks
  <2> QED BY <2>1, <2>2
<1>2. ~Writing /\ ~Writing' /\ Entries' = Entries
  <2>1. walk.next \notin Entries
    BY <1>1, Ranges DEF IInv, Entries
  <2> QED BY <1>1, <2>1 DEF IInv, Written, Writing, Walking, Entries
<1>3. \A e \in Entries : e < walk.next /\ ~(e < walk'.next)
  BY <1>1, Ranges DEF IInv, Entries
<1>4. RecTypeOK'
  <2>1. walk'.next <= Len(asList) + 1
    BY <1>1, Ranges DEF IInv
  <2> QED BY <1>1, <1>2, <2>1 DEF IInv, RecTypeOK
<1>5. Written' /\ HeaderMatches' /\ FaultsMark'
  BY <1>1, <1>2, PhaseKeeps
<1>6. SyncsMatch'
  BY <1>1 DEF IInv, SyncsMatch, Closed
<1>7. InTime'
  BY <1>1, <1>2 DEF IInv, InTime, Complete, IsJob
<1>8. OnlyLateMissing'
  BY <1>1, <1>2, <1>3 DEF IInv, OnlyLateMissing, MayMiss, Once, IsJob
<1> QED BY <1>4, <1>5, <1>6, <1>7, <1>8 DEF IInv

LEMMA SyncFileKeeps ==
    ASSUME IInv, SyncCount \/ SyncRanges
    PROVE  IInv'
<1>1. walk \in [in : Walks, next : Nat, header : BOOLEAN]
      /\ syncFile \in [count : Nat, ranges : Seq(Syncs)] /\ Len(syncs) \in Nat
      /\ syncs \in Seq(Syncs)
  BY DEF IInv, RecTypeOK
<1>2. /\ walk.in = "post_sync" /\ walk'.in \in {"post_sync", "closed"}
      /\ UNCHANGED <<use, asList, reg, syncs, submits, file>>
      /\ walk' \in [in : Walks, next : Nat, header : BOOLEAN]
      /\ walk'.next = walk.next \/ walk'.next = 0
      /\ syncFile' \in [count : Nat, ranges : Seq(Syncs)]
  <2>1. CASE SyncCount
    BY <1>1, <2>1 DEF SyncCount, Walks
  <2>2. CASE SyncRanges
    BY <1>1, <2>2 DEF SyncRanges, NoWalk, Walks
  <2> QED BY <2>1, <2>2
<1>3. ~Writing /\ ~Writing' /\ Entries' = Entries
  BY <1>2 DEF Writing, Walking, Entries
<1>4. RecTypeOK'
  BY <1>2, <1>3, Ranges DEF IInv, RecTypeOK
<1>5. Written' /\ HeaderMatches' /\ FaultsMark'
  BY <1>2, <1>3, PhaseKeeps
<1>6. SyncsMatch'
  BY <1>1, <1>2 DEF IInv, SyncsMatch, Closed, SyncCount, SyncRanges, NoWalk
<1>7. InTime'
  BY <1>2, <1>3 DEF IInv, InTime, Complete, IsJob
<1>8. OnlyLateMissing'
  BY <1>2, <1>3 DEF IInv, OnlyLateMissing, MayMiss, Once, IsJob
<1> QED BY <1>4, <1>5, <1>6, <1>7, <1>8 DEF IInv

-----------------------------------------------------------------------------
LEMMA InitIInv == Init => IInv
<1> SUFFICES ASSUME Init PROVE IInv
  OBVIOUS
<1>1. /\ asList = << >> /\ reg = << >> /\ file = << >> /\ syncs = << >> /\ use \in Uses
      /\ walk = [in |-> "none", next |-> 0, header |-> FALSE]
      /\ submits = 0 /\ syncFile = [count |-> 0, ranges |-> << >>]
  BY DEF Init, NoWalk
<1>2. /\ Len(asList) = 0 /\ Len(file) = 0 /\ Entries = {} /\ 1..Len(file) = {}
      /\ 1..Len(syncs) = {}
  BY <1>1 DEF Entries
<1>3. ~Writing /\ ~Closed
  BY <1>1 DEF Writing, Walking, Closed
<1>4. RecTypeOK
  BY <1>1, <1>2, BoundsAssumption DEF RecTypeOK, Walks
<1>5. Written /\ HeaderMatches /\ SyncsMatch
  BY <1>1, <1>2, <1>3 DEF Written, HeaderMatches, SyncsMatch
<1>6. FaultsMark /\ InTime /\ OnlyLateMissing
  BY <1>1, <1>2, <1>3 DEF FaultsMark, InTime, OnlyLateMissing
<1> QED BY <1>4, <1>5, <1>6 DEF IInv

LEMMA NextIInv == IInv /\ [Next]_vars => IInv'
<1> SUFFICES ASSUME IInv, [Next]_vars PROVE IInv'
  OBVIOUS
<1>1. CASE App
  BY <1>1, AppKeeps
<1>2. CASE SubmitBegin
  BY <1>2, SubmitBeginKeeps
<1>3. CASE PostBegin
  BY <1>3, PostBeginKeeps
<1>4. CASE WalkSkip
  BY <1>4, WalkSkipKeeps
<1>5. CASE WalkHeader
  BY <1>5, WalkHeaderKeeps
<1>6. CASE WalkPages
  BY <1>6, WalkPagesKeeps
<1>7. CASE SubmitEnd
  BY <1>7, SubmitEndKeeps
<1>8. CASE PostJobsEnd \/ PostInvalidEnd
  BY <1>8, PostWalkEndKeeps
<1>9. CASE SyncCount \/ SyncRanges
  BY <1>9, SyncFileKeeps
<1>10. CASE UNCHANGED vars
  <2>1. UNCHANGED <<use, asList, reg, syncs, submits, walk, file, syncFile>>
    BY <1>10 DEF vars
  <2>2. Entries' = Entries /\ Writing' = Writing /\ Once' = Once
    BY <2>1 DEF Entries, Writing, Walking, Once
  <2>3. RecTypeOK' /\ Written' /\ HeaderMatches' /\ SyncsMatch' /\ FaultsMark'
    BY <2>1, <2>2 DEF IInv, RecTypeOK, Written, HeaderMatches, SyncsMatch, FaultsMark,
                      Complete, Closed
  <2>4. InTime' /\ OnlyLateMissing'
    BY <2>1, <2>2 DEF IInv, InTime, OnlyLateMissing, MayMiss, Complete, IsJob
  <2> QED BY <2>3, <2>4 DEF IInv
<1> QED BY <1>1, <1>2, <1>3, <1>4, <1>5, <1>6, <1>7, <1>8, <1>9, <1>10 DEF Next, Recorder

LEMMA Invariance == Spec => []IInv
  BY InitIInv, NextIInv, PTL DEF Spec

(* The walk stays within the list, and a region's pages in use stay within *)
(* those committed.                                                        *)
THEOREM RecorderTyped == Spec => []TypeOK
<1>1. IInv => TypeOK
  <2> SUFFICES ASSUME IInv PROVE TypeOK
    OBVIOUS
  <2>1. \A e \in Entries :
           /\ reg[e].live \in BOOLEAN /\ reg[e].gpu \in BOOLEAN /\ reg[e].since \in Nat
           /\ reg[e].nents \in 0..reg[e].nrPages
           /\ reg[e].mapped <= reg[e].nents /\ reg[e].touched <= reg[e].mapped
    BY Ranges DEF IInv, RecTypeOK, RegionRec
  <2>2. walk.in \in Walks /\ walk.next \in 0..(MaxAs + 1) /\ walk.header \in BOOLEAN
    BY Ranges DEF IInv, RecTypeOK
  <2> QED BY <2>1, <2>2 DEF IInv, RecTypeOK, TypeOK, EntryRec
<1> QED BY <1>1, Invariance, PTL

(* The replayer can load what gr_dump_mc_* and gr_dump_sync_as write: no   *)
(* region twice, as many pages as the header says, as many ranges as the   *)
(* count.                                                                  *)
THEOREM RecordingLoads == Spec => []FilesLoad
<1>1. IInv => FilesLoad
  <2> SUFFICES ASSUME IInv PROVE FilesLoad
    OBVIOUS
  <2>1. \A j, k \in 1..Len(file) : file[j].entry = file[k].entry => j = k
    BY DEF IInv, Written
  <2>2. use # "threads" =>
           \A k \in 1..Len(file) : Walking /\ Finished(k) =>
              file[k].pages = IF file[k].valid THEN file[k].nents ELSE 0
    BY DEF IInv, HeaderMatches, Complete, Finished, Writing
  <2>3. Closed /\ use # "threads" =>
           /\ syncFile.count = Len(syncFile.ranges)
           /\ \A j, k \in 1..syncFile.count :
                 syncFile.ranges[j] = syncFile.ranges[k] => j = k
    BY DEF IInv, SyncsMatch
  <2> QED BY <2>1, <2>2, <2>3 DEF FilesLoad
<1> QED BY <1>1, Invariance, PTL

(* gr_as_add_valid takes the number of pages at every fault, so that       *)
(* gr_dump_phys_pages writes each page that was touched.                   *)
THEOREM TouchedAreDumped == Spec => []TouchedPagesDumped
<1>1. IInv => TouchedPagesDumped
  BY DEF IInv, FaultsMark, TouchedPagesDumped, Complete, Finished, Writing, Once
<1> QED BY <1>1, Invariance, PTL

(* JOB_SUBMIT leaves the job chains to POST_TERM and writes the rest       *)
(* before a job can change it.                                             *)
THEOREM DumpedInTime == Spec => []WrittenAtTheRightTime
<1>1. IInv => WrittenAtTheRightTime
  BY DEF IInv, InTime, WrittenAtTheRightTime, Complete, Finished, Writing, Closed, Walking
<1> QED BY <1>1, Invariance, PTL

(* The walks of JOB_SUBMIT and POST_TERM leave out only what comes while   *)
(* they run.                                                               *)
THEOREM OnlyTheLatestMissing == Spec => []NothingMissing
<1>1. IInv => NothingMissing
  BY DEF IInv, Written, OnlyLateMissing, MayMiss, NothingMissing, Once, Closed
<1> QED BY <1>1, Invariance, PTL
=============================================================================

------------------------------ MODULE PageTable ------------------------------
(***************************************************************************)
(* The GPU's page table on its way from the recorder to the replayer: the  *)
(* driver links tables and entries under mmu_lock (mali_kbase_mmu.c),      *)
(* POST_TERM writes the tables depth first to gr_pgt, without the lock     *)
(* (gr_mmu_dump), and then the regions of gr_as_list, gr_construct_pgt     *)
(* rebuilds the tables from that file in pages of its own, with a second   *)
(* table of pointers for the CPU beside it, and gr_mem_contents_init puts  *)
(* the pages of the recorded regions into the entries of the bottom level. *)
(*                                                                         *)
(* The two recursions are stacks of frames here, one step for each table   *)
(* and entry.  A table page is known by the order of allocation; the       *)
(* driver is built without 2 MB pages (MALI_2MB_ALLOC), so upper levels    *)
(* only have links to tables.                                              *)
(***************************************************************************)
EXTENDS Integers, SequencesExt

CONSTANTS
    Width,      \* KBASE_MMU_PAGE_ENTRIES
    Bottom,     \* MIDGARD_MMU_BOTTOMLEVEL
    Ranges,     \* ranges of pages that the driver maps, each [start, nr]
    MaxInserts  \* bound: ranges that the driver maps

ASSUME WidthAssumption == Width \in Nat \ {0} /\ Bottom \in Nat
ASSUME BoundsAssumption == MaxInserts \in Nat

Idx    == 0..(Width - 1)
Levels == 0..Bottom
Addrs  == 0..(Width ^ (Bottom + 1) - 1)   \* page frame numbers

(* Arithmetic that the provers do not know of ^.                           *)
ASSUME PowersAssumption ==
    Width ^ 0 = 1 /\ \A n \in 0..Bottom : Width ^ (n + 1) = Width * Width ^ n

ASSUME RangesAssumption ==
    \A r \in Ranges : r.start \in Addrs /\ r.nr \in Nat \ {0} /\ r.start + (r.nr - 1) \in Addrs

(* (vpfn >> (3 - level) * 9) & 0x1FF                                       *)
Index(vpfn, level) == (vpfn \div Width ^ (Bottom - level)) % Width

Entry == [type : {"inval", "pte", "ate"}, page : Nat, of : {"recorder", "replayer"}]

Inval == [type |-> "inval", page |-> 0, of |-> "recorder"]

(* A link to table k, and the data page for address a, of either machine.  *)
Pte(k, m) == [type |-> "pte", page |-> k, of |-> m]
Ate(a, m) == [type |-> "ate", page |-> a, of |-> m]

Empty == [i \in Idx |-> Inval]

NoTable == 0

(* The table of the given level on the way to a, or NoTable.               *)
TableAt(tabs, a, level) ==
    LET At[l \in Levels] ==
          IF l = 0 THEN 1
          ELSE LET k == At[l - 1] IN
               IF k = NoTable \/ tabs[k][Index(a, l - 1)].type # "pte" THEN NoTable
               ELSE tabs[k][Index(a, l - 1)].page
    IN At[level]

VARIABLES
    tables,    \* the driver's table pages; 1 is mmut->pgd
    inserts,   \* ranges mapped so far
    ins,       \* the insertion under way, which holds mmu_lock
    recorded,  \* addresses whose region has the page among its nents (gr_as_list)
    dump,      \* gr_mmu_dump: its stack, the tables the buffer has room for and
               \* the tables counted in dump_size; "tables" until the regions
               \* are dumped too
    raced,     \* the driver has changed a table during the dump
    file,      \* the tables in gr_pgt: page and entries of each
    load,      \* gr_construct_pgt: its stack and *offset
    new,       \* the replayer's table pages; 1 is new_pgd
    user       \* user_pgtable: child of each entry that was set

drvVars == <<tables, inserts, ins, recorded, raced>>
vars == <<drvVars, dump, file, load, new, user>>

NoIns == [on |-> FALSE, start |-> 0, addr |-> 0, end |-> 0, level |-> 0, table |-> 1,
          cpu |-> FALSE]

DumpFrame == [table : Nat, level : Levels, i : -1..Width]

LoadFrame == [table : Nat, at : Nat, level : Levels, i : 0..Width, buf : [Idx -> Entry]]

TypeOK ==
    /\ tables \in Seq([Idx -> Entry])
    /\ inserts \in 0..MaxInserts
    /\ ins \in [on : BOOLEAN, start : Addrs, addr : Addrs, end : Nat, level : Levels,
                table : Nat, cpu : BOOLEAN]
    /\ recorded \subseteq Addrs
    /\ dump \in [pc : {"no", "walk", "tables", "done"}, stack : Seq(DumpFrame),
                 cap : Nat, count : Nat]
    /\ Len(dump.stack) <= Bottom + 1
    /\ raced \in BOOLEAN
    /\ file \in Seq([page : Nat, entries : [Idx -> Entry]])
    /\ load \in [pc : {"no", "walk", "beyond", "regions", "done"}, stack : Seq(LoadFrame),
                 offset : Nat]
    /\ Len(load.stack) <= Bottom + 1
    /\ new \in Seq([Idx -> Entry])
    /\ user \in Seq([Idx -> Nat]) /\ Len(user) = Len(new)

(* kbase_mmu_init: the table of the top level.                             *)
Init ==
    /\ tables = <<Empty>> /\ inserts = 0 /\ ins = NoIns /\ recorded = {}
    /\ dump = [pc |-> "no", stack |-> << >>, cap |-> 0, count |-> 0]
    /\ raced = FALSE /\ file = << >>
    /\ load = [pc |-> "no", stack |-> << >>, offset |-> 0]
    /\ new = << >> /\ user = << >>

-----------------------------------------------------------------------------
(* The driver.                                                             *)

(* What it does once the regions are dumped is in neither file.            *)
Driving == dump.pc # "done"

Changed == raced' = (raced \/ dump.pc \in {"walk", "tables"})

MappedPages == {a \in Addrs : LET k == TableAt(tables, a, Bottom) IN
                              k # NoTable /\ tables[k][Index(a, Bottom)].type = "ate"}

(* kbase_mmu_insert_pages_no_flush for a range that the CPU maps too       *)
(* (mmap, growth by the application) or that a GPU page fault adds.        *)
InsertBegin(r, cpu) ==
    /\ Driving /\ ~ins.on /\ inserts < MaxInserts
    /\ r.start..(r.start + r.nr - 1) \subseteq Addrs \ MappedPages
    /\ ins' = [NoIns EXCEPT !.on = TRUE, !.start = r.start, !.addr = r.start,
                            !.end = r.start + r.nr, !.cpu = cpu]
    /\ inserts' = inserts + 1
    /\ UNCHANGED <<tables, recorded, raced, dump, file, load, new, user>>

Here == tables[ins.table][Index(ins.addr, ins.level)]

(* mmu_get_next_pgd: go down to the next table, or link a new one.         *)
InsertDown ==
    /\ Driving /\ ins.on /\ ins.level < Bottom
    /\ IF Here.type = "pte"
       THEN ins' = [ins EXCEPT !.level = @ + 1, !.table = Here.page] /\ UNCHANGED <<tables, raced>>
       ELSE /\ tables' = Append([tables EXCEPT ![ins.table][Index(ins.addr, ins.level)] =
                                                  Pte(Len(tables) + 1, "recorder")], Empty)
            /\ ins' = [ins EXCEPT !.level = @ + 1, !.table = Len(tables) + 1]
            /\ Changed
    /\ UNCHANGED <<inserts, recorded, dump, file, load, new, user>>

(* No page for a table: the tables linked so far stay, the entries are     *)
(* taken back (mmu_insert_pages_failure_recovery).                         *)
InsertFails ==
    /\ Driving /\ ins.on /\ ins.level < Bottom /\ Here.type # "pte"
    /\ tables' = [k \in DOMAIN tables |-> [i \in Idx |->
                    IF tables[k][i].type = "ate" /\ tables[k][i].page \in ins.start..(ins.addr - 1)
                    THEN Inval ELSE tables[k][i]]]
    /\ IF ins.addr > ins.start THEN Changed ELSE UNCHANGED raced
    /\ ins' = NoIns
    /\ UNCHANGED <<inserts, recorded, dump, file, load, new, user>>

(* As many entries as the table of the bottom level has room for; for the  *)
(* rest the walk begins again.                                             *)
InsertEntries ==
    /\ Driving /\ ins.on /\ ins.level = Bottom
    /\ LET n == Min({Width - Index(ins.addr, Bottom), ins.end - ins.addr}) IN
       /\ tables' = [tables EXCEPT ![ins.table] = [i \in Idx |->
                       LET a == ins.addr + i - Index(ins.addr, Bottom) IN
                       IF a \in ins.addr..(ins.addr + n - 1) THEN Ate(a, "recorder") ELSE @[i]]]
       /\ IF ins.addr + n < ins.end
          THEN /\ ins' = [ins EXCEPT !.addr = @ + n, !.level = 0, !.table = 1]
               /\ UNCHANGED recorded
          ELSE /\ ins' = NoIns
               /\ recorded' = IF ins.cpu THEN recorded \cup (ins.start..(ins.end - 1)) ELSE recorded
    /\ Changed
    /\ UNCHANGED <<inserts, dump, file, load, new, user>>

(* The CPU touches a page that a GPU page fault has added                  *)
(* (gr_as_add_valid).                                                      *)
CpuFault(a) ==
    /\ Driving /\ ~ins.on /\ a \in MappedPages \ recorded
    /\ recorded' = recorded \cup {a}
    /\ UNCHANGED <<tables, inserts, ins, raced, dump, file, load, new, user>>

(* Faulty variant: a table that has no entry left is taken out of the tree.*)
TeardownFrees(a) ==
    LET k == TableAt(tables, a, Bottom)
        p == TableAt(tables, a, Bottom - 1) IN
    /\ Driving /\ ~ins.on /\ a \in MappedPages
    /\ tables' = IF \A i \in Idx \ {Index(a, Bottom)} : tables[k][i] = Inval
                 THEN [tables EXCEPT ![p][Index(a, Bottom - 1)] = Inval]
                 ELSE [tables EXCEPT ![k][Index(a, Bottom)] = Inval]
    /\ Changed
    /\ UNCHANGED <<inserts, ins, recorded, dump, file, load, new, user>>

(* kbase_mmu_teardown_pages: "We actually only discard the ATE, and not    *)
(* the page table pages" (mali_kbase_mmu.c:1653).  The region stays in     *)
(* gr_as_list.                                                             *)
Teardown(a) ==
    LET k == TableAt(tables, a, Bottom) IN
    /\ Driving /\ ~ins.on /\ a \in MappedPages
    /\ tables' = [tables EXCEPT ![k][Index(a, Bottom)] = Inval]
    /\ Changed
    /\ UNCHANGED <<inserts, ins, recorded, dump, file, load, new, user>>

-----------------------------------------------------------------------------
(* gr_mmu_dump and kbasep_mmu_dump_level.                                  *)

(* Faulty variant: the top level is counted twice.                         *)
DumpBeginPlusTop ==
    /\ dump.pc = "no"
    /\ dump' = [pc |-> "walk", cap |-> Len(tables) + 1, count |-> 0,
                stack |-> <<[table |-> 1, level |-> 0, i |-> -1]>>]
    /\ UNCHANGED <<drvVars, file, load, new, user>>

(* The buffer is as large as the tables counted so far.                    *)
DumpBegin ==
    /\ dump.pc = "no"
    /\ dump' = [pc |-> "walk", cap |-> Len(tables), count |-> 0,
                stack |-> <<[table |-> 1, level |-> 0, i |-> -1]>>]
    /\ UNCHANGED <<drvVars, file, load, new, user>>

DumpTop == Last(dump.stack)

(* A table is stored if there is room left, and counted in any case.       *)
DumpTable ==
    /\ dump.pc = "walk" /\ dump.stack # << >> /\ DumpTop.i = -1
    /\ file' = IF Len(file) < dump.cap
               THEN Append(file, [page |-> DumpTop.table, entries |-> tables[DumpTop.table]])
               ELSE file
    /\ dump' = [dump EXCEPT !.count = @ + 1, !.stack[Len(dump.stack)].i = 0]
    /\ UNCHANGED <<drvVars, load, new, user>>

(* Faulty variant: the type bits alone, which entries of the bottom level  *)
(* share with links.                                                       *)
DumpEntryAnyLevel ==
    /\ dump.pc = "walk" /\ dump.stack # << >> /\ DumpTop.i \in Idx
    /\ LET e == tables[DumpTop.table][DumpTop.i]
           s == [dump.stack EXCEPT ![Len(dump.stack)].i = @ + 1] IN
       dump' = [dump EXCEPT !.stack =
                  IF e.type # "inval"
                  THEN Append(s, [table |-> e.page, level |-> DumpTop.level + 1, i |-> -1])
                  ELSE s]
    /\ UNCHANGED <<drvVars, file, load, new, user>>

(* The entries are read again, from the page that is in use.               *)
DumpEntry ==
    /\ dump.pc = "walk" /\ dump.stack # << >>
    /\ DumpTop.level < Bottom /\ DumpTop.i \in Idx
    /\ LET e == tables[DumpTop.table][DumpTop.i]
           s == [dump.stack EXCEPT ![Len(dump.stack)].i = @ + 1] IN
       dump' = [dump EXCEPT !.stack =
                  IF e.type = "pte"
                  THEN Append(s, [table |-> e.page, level |-> DumpTop.level + 1, i |-> -1])
                  ELSE s]
    /\ UNCHANGED <<drvVars, file, load, new, user>>

DumpReturn ==
    /\ dump.pc = "walk" /\ dump.stack # << >> /\ DumpTop.i >= 0
    /\ DumpTop.level = Bottom \/ DumpTop.i = Width
    /\ dump' = [dump EXCEPT !.stack = Front(@)]
    /\ UNCHANGED <<drvVars, file, load, new, user>>

(* The end marker, and the file is written.                                *)
DumpEnd ==
    /\ dump.pc = "walk" /\ dump.stack = << >>
    /\ dump' = [dump EXCEPT !.pc = "tables"]
    /\ UNCHANGED <<drvVars, file, load, new, user>>

(* gr_dump_mc_valid and gr_dump_mc_invalid come after it in POST_TERM:     *)
(* they write the regions that gr_as_list has by then.                     *)
DumpRegions ==
    /\ dump.pc = "tables"
    /\ dump' = [dump EXCEPT !.pc = "done"]
    /\ UNCHANGED <<drvVars, file, load, new, user>>

-----------------------------------------------------------------------------
(* gr_pgt_init and gr_construct_pgt.                                       *)

(* A call for the table at the given place of the file: it gets a page, in *)
(* which it writes only when it returns, and a user_pgtable.               *)
Call(at, level) ==
    /\ load' = [load EXCEPT !.pc = "walk", !.offset = at,
                            !.stack = Append(@, [table |-> Len(new) + 1, at |-> at, level |-> level,
                                                 i |-> 0, buf |-> file[at].entries])]
    /\ new' = Append(new, Empty)
    /\ user' = Append(user, [i \in Idx |-> NoTable])

LoadBegin ==
    /\ load.pc = "no" /\ dump.pc = "done"
    /\ Call(1, 0)
    /\ UNCHANGED <<drvVars, dump, file>>

LoadTop == Last(load.stack)

(* pte_is_valid: the type bits of a link are those of an entry of the      *)
(* bottom level, and the level is that of the call, which a file of tables *)
(* that changed meanwhile may have wrong.                                  *)
Follows(level, e) == level < Bottom /\ e.type # "inval"

(* The next entry that the call on top follows, or Width.                  *)
NextLink == Min({Width} \cup {i \in LoadTop.i..(Width - 1) :
                                 Follows(LoadTop.level, file[LoadTop.at].entries[i])})

(* Faulty variant: every call counts from its own place.                   *)
LoadChildLocal ==
    /\ load.pc = "walk" /\ NextLink < Width
    /\ IF LoadTop.at < Len(file) THEN Call(LoadTop.at + 1, LoadTop.level + 1)
       ELSE load' = [load EXCEPT !.pc = "beyond"] /\ UNCHANGED <<new, user>>
    /\ UNCHANGED <<drvVars, dump, file>>

(* The child's table is the next one of the file.                          *)
LoadChild ==
    /\ load.pc = "walk" /\ NextLink < Width
    /\ IF load.offset < Len(file) THEN Call(load.offset + 1, LoadTop.level + 1)
       ELSE load' = [load EXCEPT !.pc = "beyond"] /\ UNCHANGED <<new, user>>
    /\ UNCHANGED <<drvVars, dump, file>>

(* The entry that the caller of the call on top follows.                   *)
ParentLink ==
    LET f == load.stack[Len(load.stack) - 1] IN
    Min({i \in f.i..(Width - 1) : Follows(f.level, file[f.at].entries[i])})

(* Faulty variant: the page gets the entries as they are in the file.      *)
LoadReturnOld ==
    /\ load.pc = "walk" /\ NextLink = Width
    /\ LET up == Front(load.stack)
           i == ParentLink IN
       /\ new' = [new EXCEPT ![LoadTop.table] = file[LoadTop.at].entries]
       /\ IF up = << >>
          THEN load' = [load EXCEPT !.stack = up, !.pc = "regions"] /\ UNCHANGED user
          ELSE /\ user' = [user EXCEPT ![Last(up).table][i] = LoadTop.table]
               /\ load' = [load EXCEPT !.stack =
                             [up EXCEPT ![Len(up)].buf[i] = Pte(LoadTop.table, "replayer"),
                                        ![Len(up)].i = i + 1]]
    /\ UNCHANGED <<drvVars, dump, file>>

(* The page is written; the caller puts it into its own entries.           *)
LoadReturn ==
    /\ load.pc = "walk" /\ NextLink = Width
    /\ LET up == Front(load.stack)
           i == ParentLink IN
       /\ new' = [new EXCEPT ![LoadTop.table] = LoadTop.buf]
       /\ IF up = << >>
          THEN load' = [load EXCEPT !.stack = up, !.pc = "regions"] /\ UNCHANGED user
          ELSE /\ user' = [user EXCEPT ![Last(up).table][i] = LoadTop.table]
               /\ load' = [load EXCEPT !.stack =
                             [up EXCEPT ![Len(up)].buf[i] = Pte(LoadTop.table, "replayer"),
                                        ![Len(up)].i = i + 1]]
    /\ UNCHANGED <<drvVars, dump, file>>

(* gr_get_user_pgd_at_level.                                               *)
UserTable(a, level) ==
    LET At[l \in Levels] ==
          IF l = 0 THEN 1
          ELSE IF At[l - 1] = NoTable THEN NoTable ELSE user[At[l - 1]][Index(a, l - 1)]
    IN At[level]

(* gr_mem_contents_init: the page of each recorded address goes to the     *)
(* entry that the CPU's tables lead to.                                    *)
LoadRegions ==
    /\ load.pc = "regions" /\ load' = [load EXCEPT !.pc = "done"]
    /\ new' = [k \in DOMAIN new |-> [i \in Idx |->
                 IF \E a \in recorded : UserTable(a, Bottom) = k /\ Index(a, Bottom) = i
                 THEN Ate(CHOOSE a \in recorded : UserTable(a, Bottom) = k /\ Index(a, Bottom) = i,
                          "replayer")
                 ELSE new[k][i]]]
    /\ UNCHANGED <<drvVars, dump, file, user>>

(* The replayer goes on, or has read past its buffer.                      *)
Over == load.pc \in {"done", "beyond"} /\ UNCHANGED vars

Next ==
    \/ \E r \in Ranges, cpu \in BOOLEAN : InsertBegin(r, cpu)
    \/ \E a \in Addrs : CpuFault(a) \/ Teardown(a)
    \/ InsertDown \/ InsertFails \/ InsertEntries
    \/ DumpBegin \/ DumpTable \/ DumpEntry \/ DumpReturn \/ DumpEnd \/ DumpRegions
    \/ LoadBegin \/ LoadChild \/ LoadReturn \/ LoadRegions
    \/ Over

Spec == Init /\ [][Next]_vars

-----------------------------------------------------------------------------
(* The dump of tables that stay as they are has each of them once and      *)
(* fills the buffer exactly ("size left is not equal to ... endmarker"     *)
(* never appears): the driver's count of table pages, kept in another      *)
(* file, is what the walk finds.                                           *)
DumpWhole ==
    dump.pc = "done" /\ ~raced =>
        /\ dump.count = dump.cap /\ Len(file) = dump.cap
        /\ \A k \in DOMAIN tables : \E n \in DOMAIN file :
              file[n] = [page |-> k, entries |-> tables[k]]

(* The replayer's tables are a tree of their own, whatever the driver did  *)
(* during the dump: every entry above the bottom level, even one that was  *)
(* an entry of the bottom level when it was written, leads to a page of    *)
(* the replayer, the same that the CPU follows, and no two entries to the  *)
(* same page or to the top.                                                *)
UpperTables == {UserTable(a, l) : a \in Addrs, l \in 0..(Bottom - 1)} \ {NoTable}

Links == {l \in UpperTables \X Idx : new[l[1]][l[2]].type # "inval"}

TablesAreTree ==
    load.pc \in {"regions", "done"} =>
        \A l, m \in Links :
            LET e == new[l[1]][l[2]] IN
            /\ e.of = "replayer" /\ e.page \in 2..Len(new) /\ e.page = user[l[1]][l[2]]
            /\ e.page = new[m[1]][m[2]].page => l = m

(* The rebuilt tables translate every address as the dumped ones did, and  *)
(* a recorded one to the page that the replayer has loaded for it; the     *)
(* tables that the CPU follows lead to the same place.                     *)
SameTranslation ==
    load.pc = "done" /\ ~raced =>
        \A a \in Addrs :
            LET old == TableAt(tables, a, Bottom)
                k == TableAt(new, a, Bottom) IN
            /\ k = UserTable(a, Bottom)
            /\ (k = NoTable) = (old = NoTable)
            /\ k # NoTable => new[k][Index(a, Bottom)] =
                                 IF a \in recorded THEN Ate(a, "replayer")
                                 ELSE tables[old][Index(a, Bottom)]

(* "cannot get target pgd" (gr_mem.c:93) is never reported: for every page *)
(* of a recorded region there is a table, although the region may have     *)
(* been unmapped since and insertions may have failed half-way.            *)
RegionsReachable ==
    load.pc = "regions" /\ ~raced =>
        \A a \in recorded : UserTable(a, Bottom) # NoTable

(* "The lat level page table entry will be updated when copying dumped     *)
(* memory contents" (gr_mem.c:363), which the code does not keep for an    *)
(* entry of no recorded region: it stays a page of the recorded machine.   *)
NoStaleEntries ==
    load.pc = "done" /\ ~raced =>
        \A a \in Addrs :
            LET k == TableAt(new, a, Bottom) IN
            k # NoTable => LET e == new[k][Index(a, Bottom)] IN
                           e.type = "ate" => e.of = "replayer"
=============================================================================

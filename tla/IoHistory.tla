----------------------------- MODULE IoHistory -----------------------------
(***************************************************************************)
(* The register history of the recorder (gr_as.c): every register access   *)
(* of the driver is made by kbase_reg_read or kbase_reg_write and then     *)
(* added, under h->lock, to a ring of Size entries; kbase_destroy_context  *)
(* writes the ring to the file gr_io_history, the list of accesses that    *)
(* the replayer repeats.                                                   *)
(*                                                                         *)
(* An access is its number in the order in which the GPU saw them.         *)
(***************************************************************************)
EXTENDS Integers, Sequences

CONSTANTS
    Threads,      \* contexts that access registers: system calls, workers, interrupts
    Size,         \* entries of the ring (GR_DEFAULT_REGISTER_HISTORY_SIZE)
    Wrap,         \* number of values of h->count, a size_t
    MaxAccesses   \* bound: register accesses made

ASSUME SizeAssumption == Size \in Nat \ {0}
(* 2^15 entries and 2^64 values of the counter.                            *)
ASSUME WrapAssumption == Wrap \in Nat /\ Wrap > Size /\ Wrap % Size = 0

VARIABLES
    accesses,  \* register accesses made
    held,      \* held[t]: t's access that is not in the history yet, or 0
    log,       \* the accesses in the order in which they were added
    buf,       \* h->buf
    count,     \* h->count
    dump,      \* gr_io_history_dump: "off", "index", "read", "closed"
    iters,     \* its iters
    k,         \* its loop variable i
    slot,      \* the entry that its io points to
    out,       \* the file
    base,      \* accesses in the history when the dump began
    final      \* and when it ended

hvars == <<log, buf, count>>
dvars == <<dump, iters, k, slot, out, base, final>>
vars  == <<accesses, held, hvars, dvars>>

RingTypeOK ==
    /\ log \in Seq(Nat)
    /\ buf \in [0..(Size - 1) -> Nat]
    /\ count \in 0..(Wrap - 1)

DumpTypeOK ==
    /\ dump \in {"off", "index", "read", "closed"}
    /\ iters \in 0..Size /\ k \in 0..Size
    /\ slot \in 0..(Size - 1)
    /\ out \in Seq(Nat)
    /\ base \in Nat /\ final \in Nat

TypeOK ==
    /\ accesses \in Nat
    /\ held \in [Threads -> Nat]
    /\ RingTypeOK
    /\ DumpTypeOK

(* gr_io_history_init.  The ring is not cleared.                           *)
Init ==
    /\ accesses = 0 /\ held = [t \in Threads |-> 0]
    /\ log = <<>> /\ count = 0 /\ buf = [s \in 0..(Size - 1) |-> 0]
    /\ dump = "off" /\ iters = 0 /\ k = 0 /\ slot = 0 /\ out = <<>>
    /\ base = 0 /\ final = 0

(* readl or writel of kbase_reg_read and kbase_reg_write.                  *)
Access(t) ==
    /\ accesses < MaxAccesses /\ held[t] = 0
    /\ accesses' = accesses + 1
    /\ held' = [held EXCEPT ![t] = accesses + 1]
    /\ UNCHANGED <<hvars, dvars>>

Store(t, newCount) ==
    /\ held[t] # 0
    /\ buf' = [buf EXCEPT ![count % Size] = held[t]]
    /\ log' = Append(log, held[t])
    /\ count' = newCount
    /\ held' = [held EXCEPT ![t] = 0]
    /\ UNCHANGED <<accesses, dvars>>

(* Faulty variant: the counter wraps to 0.                                 *)
AddWrapsToZero(t) == Store(t, (count + 1) % Wrap)

(* gr_io_history_add.                                                      *)
Add(t) == Store(t, IF (count + 1) % Wrap = 0 THEN Size ELSE count + 1)

(* kbase_destroy_context calls gr_io_history_dump, which takes no lock.    *)
DumpStart ==
    /\ dump = "off"
    /\ iters' = (IF Size > count THEN count ELSE Size)
    /\ k' = 0 /\ base' = Len(log)
    /\ dump' = "index"
    /\ UNCHANGED <<accesses, held, hvars, slot, out, final>>

(* Faulty variant: the newest entry first.                                 *)
DumpIndexNewestFirst ==
    /\ dump = "index" /\ k < iters
    /\ slot' = ((count - 1) - k) % Size /\ dump' = "read"
    /\ UNCHANGED <<accesses, held, hvars, iters, k, out, base, final>>

(* io = &h->buf[(h->count - iters + i) % h->size], with h->count read      *)
(* again for each entry.                                                   *)
DumpIndex ==
    /\ dump = "index" /\ k < iters
    /\ slot' = ((count - iters) + k) % Size /\ dump' = "read"
    /\ UNCHANGED <<accesses, held, hvars, iters, k, out, base, final>>

(* The entry is formatted and written to the file.                         *)
DumpRead ==
    /\ dump = "read"
    /\ out' = Append(out, buf[slot])
    /\ k' = k + 1 /\ dump' = "index"
    /\ UNCHANGED <<accesses, held, hvars, iters, slot, base, final>>

(* filp_close: the file is complete.                                       *)
DumpEnd ==
    /\ dump = "index" /\ k = iters
    /\ dump' = "closed" /\ final' = Len(log)
    /\ UNCHANGED <<accesses, held, hvars, iters, k, slot, out, base>>

(* The dump is over and the bound on accesses is reached.                  *)
Finished ==
    /\ dump = "closed" /\ accesses = MaxAccesses
    /\ \A t \in Threads : held[t] = 0
    /\ UNCHANGED vars

Next ==
    \/ \E t \in Threads : Access(t) \/ Add(t)
    \/ DumpStart \/ DumpIndex \/ DumpRead \/ DumpEnd \/ Finished

Spec == Init /\ [][Next]_vars

-----------------------------------------------------------------------------
(* How many of n accesses the ring still holds.                            *)
Kept(n) == IF n < Size THEN n ELSE Size

(* A dump during which nothing is added writes the last Size accesses of   *)
(* the history, oldest first, also once the counter has overflowed ("so    *)
(* the entire buffer will still be dumped later", gr_as.c:108).            *)
DumpRecent ==
    dump = "closed" /\ final = base =>
        /\ Len(out) = Kept(base)
        /\ \A j \in 1..Len(out) : out[j] = log[(base - Kept(base)) + j]

(* Whatever is added during the dump, as long as the ring does not         *)
(* overflow the file has the accesses in the order of the history, none of *)
(* them twice, although gr_io_history_dump takes no lock.                  *)
DumpOrdered ==
    Len(log) <= Size =>
        \E f \in [1..Len(out) -> 1..Len(log)] :
            /\ \A j \in 1..Len(out) : out[j] = log[f[j]]
            /\ \A j \in 2..Len(out) : f[j - 1] < f[j]

(* Every access that is in the ring when the context is destroyed is in    *)
(* the file.  The code does not keep this: an access added between two     *)
(* entries of the dump moves the window and an earlier one is left out.    *)
DumpComplete ==
    dump = "closed" =>
        \A j \in ((base - Kept(base)) + 1)..base :
            \E m \in 1..Len(out) : out[m] = log[j]

(* What makes DumpRecent inductive.  The counter and the length of the     *)
(* history differ by whole rings, the ring holds the last Size accesses,   *)
(* and a dump undisturbed so far has written the first k of them.          *)
Ring ==
    /\ Kept(Len(log)) <= count /\ count <= Len(log)
    /\ count % Size = Len(log) % Size
    /\ \A j \in 1..Len(log) : j > Len(log) - Size => buf[(j - 1) % Size] = log[j]

Progress ==
    /\ base <= Len(log)
    /\ dump = "off" => out = <<>>
    /\ dump \in {"index", "read"} => k <= iters
    /\ dump = "read" => k < iters
    /\ dump \in {"index", "read"} /\ base = Len(log) =>
          /\ iters = Kept(base)
          /\ Len(out) = k
          /\ \A j \in 1..k : out[j] = log[(base - iters) + j]
    /\ dump = "read" /\ base = Len(log) => slot = ((base - iters) + k) % Size

RingInv == TypeOK /\ Ring /\ Progress /\ DumpRecent

(* What makes DumpOrdered inductive.  As long as the ring does not         *)
(* overflow, position c of the history is entry c - 1; the entries written *)
(* so far lie before the window in which the dump looks next, which moves  *)
(* only forward when accesses are added.                                   *)
Window == (count - iters) + k

WrittenInOrder(f) ==
    /\ \A j \in 1..k : out[j] = log[f[j]]
    /\ \A j \in 2..k : f[j - 1] < f[j]
    /\ k > 0 => f[k] <= Window
    /\ dump = "read" => slot <= Window /\ slot < Len(log) /\ (k > 0 => f[k] <= slot)

OrderInv ==
    dump # "off" =>
        /\ iters = Kept(base) /\ Len(out) = k /\ k <= iters
        /\ Len(log) <= Size => \E f \in [1..k -> 1..Len(log)] : WrittenInOrder(f)
=============================================================================

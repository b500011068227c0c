---------------------------- MODULE MCRecorderAs ----------------------------
(* A region of each kind that gr_as_add tells apart: shader code, a job    *)
(* chain, and data, which grows and shrinks.                               *)
EXTENDS RecorderAs

MCMappings ==
    { [gpuNx |-> nx, cpuCached |-> FALSE, gpuCached |-> TRUE,
       growable |-> FALSE, nrPages |-> 1, nents |-> 1] : nx \in BOOLEAN } \cup
    { [gpuNx |-> TRUE, cpuCached |-> TRUE, gpuCached |-> TRUE,
       growable |-> TRUE, nrPages |-> 2, nents |-> 1] }

MCSyncs == { [addr |-> 1, size |-> 1] }
=============================================================================

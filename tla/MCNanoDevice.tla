---------------------------- MODULE MCNanoDevice ----------------------------
(* NanoDevice for two replayer processes.                                  *)
EXTENDS NanoDevice, TLC

CONSTANTS p1, p2

MCProcs == {p1, p2}

(* Sound for the safety run; the run with liveness does without it.        *)
ProcSymmetry == Permutations(MCProcs)
=============================================================================

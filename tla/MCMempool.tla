----------------------------- MODULE MCMempool -----------------------------
(* Mempool for five interchangeable pages.                                 *)
EXTENDS Mempool, TLC

CONSTANTS a, b, c, d, e

MCPages == {a, b, c, d, e}
PageSymmetry == Permutations(MCPages)
=============================================================================

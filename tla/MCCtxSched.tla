----------------------------- MODULE MCCtxSched -----------------------------
(* Three contexts share two address spaces: a context without a space has  *)
(* to take that of one of the others.                                      *)
EXTENDS CtxSched, TLC

CONSTANTS c1, c2, c3

MCContexts == {c1, c2, c3}

\* Nothing in CtxSched tells one context from another.
Symmetry == Permutations(MCContexts)
=============================================================================

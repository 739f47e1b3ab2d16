---------------------------- MODULE MCAuthControl ----------------------------
(* Model values for AuthControl.  Handlers and cancellers are only compared *)
(* for equality, so the permutations of each are a symmetry of every        *)
(* invariant.                                                               *)
EXTENDS AuthControl, TLC

CONSTANTS h1, h2, h3, c1, c2

MCHandlers   == {h1, h2, h3}
MCCancellers == {c1, c2}

MCSymmetry == Permutations(MCHandlers) \cup Permutations(MCCancellers)
=============================================================================

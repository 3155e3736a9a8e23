----------------------------- MODULE MCMutexMap -----------------------------
(* MutexMap for TLC: goroutine slots and ids are model values.  There is   *)
(* no symmetry, which TLC does not support for NoStarvation.               *)
EXTENDS MutexMap, TLC
=============================================================================

---------------------------- MODULE MCWaitObject ----------------------------
(***************************************************************************)
(* Instances of WaitObject for TLC.                                        *)
(***************************************************************************)
EXTENDS WaitObjectInvariant, TLC

\* Threads are interchangeable; so are the objects of one kind, of which the
\* instances have one each.
Symmetry == Permutations(Threads)
=============================================================================

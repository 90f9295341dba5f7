----------------------------- MODULE MCMonitor -----------------------------
(* Instances of Monitor for TLC. *)
EXTENDS MonitorInvariant, TLC

\* Threads, objects and monitors are interchangeable (safety runs only).
Symmetry == Permutations(Threads) \union Permutations(Objects)
                \union Permutations(Monitors)
============================================================================

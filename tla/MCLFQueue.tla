------------------------------ MODULE MCLFQueue ------------------------------
(* Small instances of LFQueue for TLC. *)
EXTENDS LFQueue, TLC

\* Several producers and consumers are interchangeable.
ThreadSymmetry == Permutations(Producers) \cup Permutations(Consumers)
=============================================================================

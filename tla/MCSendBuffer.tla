----------------------------- MODULE MCSendBuffer -----------------------------
(***************************************************************************)
(* SendBuffer on small instances.                                          *)
(***************************************************************************)
EXTENDS SendBuffer, TLC

\* Threads are interchangeable, and so are Chunks.
Symmetry == Permutations(Threads) \cup Permutations(Chunks)
=============================================================================

------------------------------ MODULE MCSession ------------------------------
(***************************************************************************)
(* Session on small instances.                                             *)
(***************************************************************************)
EXTENDS Session, TLC

\* Threads are interchangeable, and so are Buffers.
Symmetry == Permutations(Threads) \cup Permutations(Buffers)
=============================================================================

------------------------------- MODULE MCWorker -------------------------------
(***************************************************************************)
(* Worker on small instances.                                              *)
(***************************************************************************)
EXTENDS Worker, TLC

\* Threads are interchangeable, and so are the identities of UpdateRoom jobs
\* and those of other jobs.
Symmetry == Permutations(Threads) \cup Permutations(Beats) \cup Permutations(Jobs \ Beats)
=============================================================================

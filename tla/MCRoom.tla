-------------------------------- MODULE MCRoom --------------------------------
(***************************************************************************)
(* Room on small instances.                                                *)
(***************************************************************************)
EXTENDS Room, TLC

\* One monster comes at the second step, and one at the third.
OneEach == [n \in 1..MaxStep + 1 |-> IF n \in {2, 3} THEN 1 ELSE 0]

\* Ids and Sessions are interchangeable.
Symmetry == Permutations(Sessions) \cup Permutations(Players) \cup Permutations(Monsters)
=============================================================================

-------------------------------- MODULE MCLock --------------------------------
(***************************************************************************)
(* Lock on small instances.                                                *)
(***************************************************************************)
EXTENDS Lock, SequencesExt

\* Up to three guards, a thread that only reads asking to write included; but
\* not a write guard inside a read guard inside a write guard, which
\* WriteUnlock refuses.
Mixed == {s \in SeqOf({"read", "write"}, 3) : s # <<"write", "read", "write">>}
=============================================================================

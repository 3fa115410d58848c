----------------------------- MODULE SendChannel -----------------------------
(***************************************************************************)
(* What Session::Send promises its callers, whatever threads they are on:  *)
(* the buffers it accepts leave through the socket in the order in which   *)
(* they were accepted, each at most once, several together if need be.     *)
(* What is accepted may be lost, from the front, when the socket fails.    *)
(***************************************************************************)
EXTENDS Sequences, Naturals

CONSTANT Buffers    \* the SendBuffers

VARIABLES
    accepted,       \* the buffers accepted and not yet given to the socket
    wire            \* the buffers given to the socket

vars == <<accepted, wire>>

Init == accepted = <<>> /\ wire = <<>>

Accept(b) == /\ accepted' = Append(accepted, b)
             /\ UNCHANGED wire

\* The first n buffers leave, or are lost.
Transmit(n) == /\ wire' = wire \o SubSeq(accepted, 1, n)
               /\ accepted' = SubSeq(accepted, n + 1, Len(accepted))

Lose(n) == /\ accepted' = SubSeq(accepted, n + 1, Len(accepted))
           /\ UNCHANGED wire

Next == \/ \E b \in Buffers : Accept(b)
        \/ \E n \in 1..Len(accepted) : Transmit(n) \/ Lose(n)

Spec == Init /\ [][Next]_vars
=============================================================================

------------------------------ MODULE BytePipe ------------------------------
(***************************************************************************)
(* What an application may expect of one direction of a net.Conn: bytes    *)
(* come out in the order in which they went in, none lost, none repeated,  *)
(* none invented.  The i-th byte that is put in is the number i.           *)
(***************************************************************************)
EXTENDS Naturals, Sequences

VARIABLES sent,         \* how many bytes went in
          received      \* the bytes that came out

vars == <<sent, received>>

Init == sent = 0 /\ received = <<>>

\* A write puts bytes in.
Put == sent' > sent /\ UNCHANGED received

\* A read takes out some of the bytes that are due next.
Get ==
    /\ Len(received') \in Len(received)..sent
    /\ received' = [i \in 1..Len(received') |-> i]
    /\ UNCHANGED sent

Spec == Init /\ [][Put \/ Get]_vars

=============================================================================

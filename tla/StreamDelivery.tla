--------------------------- MODULE StreamDelivery ---------------------------
(***************************************************************************)
(* What a Stream promises its two applications (spec.md, sections 1 and  *)
(* 4.D): each direction is a reliable FIFO of the units one side's Write  *)
(* accepted, and the other side reaches end of stream only after every    *)
(* one of them was delivered; once it has, nothing more is accepted for    *)
(* it.  Units are numbered in the order they were accepted, so a           *)
(* direction's contents are the numbers 1..sentU[p].                       *)
(***************************************************************************)
EXTENDS Naturals, Sequences

CONSTANT Peers

VARIABLES
  sentU,   \* sentU[p]: units p's application has handed to Write
  recv,    \* recv[p]: the units delivered to p, in order
  eof      \* eof[p]: p has seen the end of the other side's stream

Other(p) == CHOOSE q \in Peers : q # p

Init ==
  /\ sentU = [p \in Peers |-> 0]
  /\ recv = [p \in Peers |-> <<>>]
  /\ eof = [p \in Peers |-> FALSE]

\* p's application hands over one more unit, while its peer is still
\* waiting for data.
Accept(p) ==
  /\ ~eof[Other(p)]
  /\ sentU' = [sentU EXCEPT ![p] = @ + 1]
  /\ UNCHANGED <<recv, eof>>

\* The next unit the peer accepted reaches p.
Deliver(p) ==
  /\ ~eof[p]
  /\ Len(recv[p]) < sentU[Other(p)]
  /\ recv' = [recv EXCEPT ![p] = Append(@, Len(@) + 1)]
  /\ UNCHANGED <<sentU, eof>>

\* p reaches end of stream, with everything the peer accepted delivered.
End(p) ==
  /\ ~eof[p]
  /\ Len(recv[p]) = sentU[Other(p)]
  /\ eof' = [eof EXCEPT ![p] = TRUE]
  /\ UNCHANGED <<sentU, recv>>

Next == \E p \in Peers : Accept(p) \/ Deliver(p) \/ End(p)

Spec == Init /\ [][Next]_<<sentU, recv, eof>>

=============================================================================

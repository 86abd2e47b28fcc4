---------------------------- MODULE MCMailStream ----------------------------
(***************************************************************************)
(* Instances of MailStream for TLC: the peers are model values a and b.    *)
(***************************************************************************)
EXTENDS MailStream, TLC

CONSTANTS a, b

MCPeers == {a, b}

\* a writes two units, b one: frames in both directions carry Acks.
TwoOne == (a :> 2) @@ (b :> 1)
=============================================================================

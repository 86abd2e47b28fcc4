------------------------------ MODULE MCStream ------------------------------
(***************************************************************************)
(* Instances of Stream for TLC: the two peers are model values a and b,    *)
(* and each configuration says how many units each application writes.    *)
(***************************************************************************)
EXTENDS Stream, TLC

CONSTANTS a, b

MCPeers == {a, b}

\* a's application writes, b's only reads: b's writer still sends Acks and
\* its own teardown.
OneUnit == (a :> 1) @@ (b :> 0)
TwoUnits == (a :> 2) @@ (b :> 0)
ThreeUnits == (a :> 3) @@ (b :> 0)
\* Both applications write one unit: traffic in both directions, so data
\* frames carry Acks.
OneEach == (a :> 1) @@ (b :> 1)
\* Neither application writes.
NoUnits == (a :> 0) @@ (b :> 0)
=============================================================================

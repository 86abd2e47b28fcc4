------------------------------- MODULE MCARQ --------------------------------
(***************************************************************************)
(* Instances of ARQ for TLC: messages are model values.                    *)
(***************************************************************************)
EXTENDS ARQ

CONSTANTS m1, m2

OneMsg == {m1}
TwoMsgs == {m1, m2}
=============================================================================

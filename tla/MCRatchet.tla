----------------------------- MODULE MCRatchet ------------------------------
(***************************************************************************)
(* Two ratchets for TLC: the parties are the model values a and b, and a   *)
(* is the one that finds itself Alice in CompleteKeyExchange.             *)
(***************************************************************************)
EXTENDS Ratchet

CONSTANTS a, b

MCParties == {a, b}
=============================================================================

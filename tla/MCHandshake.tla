------------------------------ MODULE MCHandshake -------------------------------
(***************************************************************************)
(* Handshake for TLC, with two clients.  They are interchangeable: no      *)
(* definition tells one from the other.                                    *)
(***************************************************************************)
EXTENDS Handshake, TLC

CONSTANTS c1, c2

MCClients == {c1, c2}

MCSymmetry == Permutations(MCClients)
================================================================================

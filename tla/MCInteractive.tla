----------------------------- MODULE MCInteractive ------------------------------
(***************************************************************************)
(* Interactive for TLC, with two clients, the first of which may connect   *)
(* again; so they are not interchangeable.                                 *)
(***************************************************************************)
EXTENDS Interactive

CONSTANTS c1, c2

MCClients == {c1, c2}
================================================================================

------------------------------- MODULE MCStart -------------------------------
(* The start program with two tries for a system.                           *)
EXTENDS Start
=============================================================================

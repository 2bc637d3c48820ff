---------------------------- MODULE MCUpdateCtrl ----------------------------
(* UpdateCtrl for TLC.  The clients are interchangeable. *)
EXTENDS UpdateCtrl, TLC

ClientSymmetry == Permutations(Clients)
=============================================================================

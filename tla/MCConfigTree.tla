---------------------------- MODULE MCConfigTree ----------------------------
(* One configuration tree with a few clients.                                 *)
EXTENDS ConfigTree
=============================================================================

---------------------------- MODULE MCAppInstall ----------------------------
(* One app with two versions: it is installed, upgraded either way and      *)
(* removed, and an upgrade and a removal may both be left unfinished.       *)
EXTENDS AppInstall

MCApps == {"a"}
MCHashes == {<<"a", 1>>, <<"a", 2>>}
=============================================================================

------------------------- MODULE MCServiceDirectory -------------------------
(* The Service Directory with a built-in binding of the user root, and       *)
(* another user whose interface can be bound to either service.              *)
EXTENDS ServiceDirectory, TLC

CONSTANTS root, app, name

MCHardCoded == {<<root, name>>}
MCSymmetry == Permutations(Clients) \cup Permutations(Servers)

=============================================================================

--------------------------- MODULE MCUpdateUnpack ---------------------------
(* Instances of UpdateUnpack for TLC. *)
EXTENDS UpdateUnpack

MCPayloads == {1, 3}
MCLargePayloads == {20, 50}
\* A 32-bit size_t, in MiB.
MCSizeSpan == 4096
=============================================================================

---------------------------- MODULE MCSupervisor ----------------------------
(* The Supervisor with an app that has processes and one without any.        *)
EXTENDS Supervisor, TLC

CONSTANTS a, b, ProcsOfA

MCProcsOf == [x \in Apps |-> IF x = a THEN ProcsOfA ELSE {}]
MCSymmetry == Permutations(ProcsOfA)

=============================================================================

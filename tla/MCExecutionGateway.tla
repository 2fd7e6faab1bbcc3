------------------------- MODULE MCExecutionGateway -------------------------
(* Small instances of ExecutionGateway for TLC. *)
EXTENDS ExecutionGateway, TLC

CONSTANTS p1, p2, p3, c1, c2

\* Two primitives of the lease in sequence order.
TwoSequences == p1 :> 1 @@ p2 :> 2

OneSequence == p1 :> 1

\* p3 repeats p1's sequence number: a replay, or a primitive out of place.
ReplaySequences == p1 :> 1 @@ p2 :> 2 @@ p3 :> 1

CallerSymmetry == Permutations(Callers)
=============================================================================

----------------------------- MODULE MCGateway -----------------------------
(***************************************************************************)
(* Instances of Gateway for TLC.                                           *)
(***************************************************************************)
EXTENDS GatewayRefinement, TLC

CONSTANTS c1, r1

\* every call carries the same id
OneRequest == [c \in Calls |-> r1]

WorkerSymmetry == Permutations(Workers)

=============================================================================

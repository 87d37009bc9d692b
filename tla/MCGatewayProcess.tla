-------------------------- MODULE MCGatewayProcess --------------------------
(***************************************************************************)
(* Instances of GatewayProcess for TLC.                                    *)
(***************************************************************************)
EXTENDS GatewayProcess

CONSTANTS c1, c2, r1

\* c1 carries an id, c2 none
OneWithoutId == [c \in Calls |-> IF c = c1 THEN r1 ELSE NoId]

=============================================================================

------------------------------ MODULE MCSystem ------------------------------
(***************************************************************************)
(* Instances of System for TLC.                                            *)
(***************************************************************************)
EXTENDS System, TLC

CONSTANT r1

\* every call carries the same id
SharedId == [c \in Calls |-> r1]

WorkerAndCallSymmetry == Permutations(Workers) \cup Permutations(Calls)

=============================================================================

---------------------------- MODULE MCMembership ----------------------------
(***************************************************************************)
(* Instances of Membership for TLC.                                        *)
(***************************************************************************)
EXTENDS MembershipRefinement, TLC

WorkerSymmetry == Permutations(Workers)

=============================================================================

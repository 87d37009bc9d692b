------------------------ MODULE MembershipRefinement ------------------------
(***************************************************************************)
(* Membership implements Roster.  The roster is the registry itself; a     *)
(* worker asks while a Register of its own has yet to be handled: the one  *)
(* it is in, or any it has stopped waiting for; it is gone when its        *)
(* process ended.                                                          *)
(***************************************************************************)
EXTENDS Membership

askingOf ==
  {w \in Workers : pc[w] \in {"registering", "reregistering"} \/ late[w]["Register"] > 0}

goneOf == {w \in Workers : pc[w] \in {"left", "ended"}}

R == INSTANCE Roster WITH
       registered <- workers,
       asking     <- askingOf,
       gone       <- goneOf

(* Whatever scans, evictions, late handlers, broken calls and restarts do, *)
(* a worker enters the registry by a Register of its own and by nothing    *)
(* else: a beat never readmits it, and neither does anything once the last *)
(* Register of a worker that has ended is handled or lost.                 *)
ImplementsRoster == R!Spec

=============================================================================

------------------------------- MODULE Roster -------------------------------
(***************************************************************************)
(* What the membership of the control plane amounts to, without RPCs,      *)
(* handlers, scores, snapshots or events.  A worker asks to be registered  *)
(* as long as it runs, and a request of its own is the only way in.  It    *)
(* can be taken out at any time, by its own leaving or on a suspicion, and *)
(* a control plane that ends forgets everyone.  A worker that is gone asks *)
(* no more, but what it had asked may still be granted.  How often it has  *)
(* asked is left open: granting one request may leave others.              *)
(***************************************************************************)
CONSTANT Workers

VARIABLES
  registered,   \* the workers ListWorkers returns
  asking,       \* the workers with registrations of theirs under way
  gone          \* the workers that have ended

vars == <<registered, asking, gone>>

Init == registered = {} /\ asking = {} /\ gone = {}

Ask(w) ==
  /\ w \notin gone
  /\ asking' = asking \cup {w}
  /\ UNCHANGED <<registered, gone>>

Enter(w) ==
  /\ w \in asking
  /\ registered' = registered \cup {w}
  /\ \/ asking' = asking \ {w}
     \/ UNCHANGED asking
  /\ UNCHANGED gone

\* the only registration under way is lost
Withdraw(w) ==
  /\ asking' = asking \ {w}
  /\ UNCHANGED <<registered, gone>>

\* evicted, rightly or not, or deregistered by a call nobody waits for
Drop(w) ==
  /\ registered' = registered \ {w}
  /\ UNCHANGED <<asking, gone>>

\* deregistered, and told so
Leave(w) ==
  /\ w \notin gone
  /\ registered' = registered \ {w}
  /\ gone' = gone \cup {w}
  /\ UNCHANGED asking

\* ended in any other way, which may lose a registration under way
Quit(w) ==
  /\ w \notin gone
  /\ gone' = gone \cup {w}
  /\ \/ UNCHANGED asking
     \/ asking' = asking \ {w}
  /\ UNCHANGED registered

\* the control plane ends, and with it every worker whose call that breaks
\* and that does not go on without an answer
Wipe ==
  /\ registered' = {}
  /\ asking' = {}
  /\ \E S \in SUBSET Workers : gone' = gone \cup S

Next ==
  \/ Wipe
  \/ \E w \in Workers :
       Ask(w) \/ Enter(w) \/ Withdraw(w) \/ Drop(w) \/ Leave(w) \/ Quit(w)

Spec == Init /\ [][Next]_vars

=============================================================================

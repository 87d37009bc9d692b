----------------------------- MODULE FirstWins -----------------------------
(***************************************************************************)
(* What the gateway promises its clients, without workers, attempts,       *)
(* counters, locks or channels.  A call is refused at the door, or it is   *)
(* admitted under its request id, at most one call per id at a time.  An   *)
(* admitted call is decided at most once, and its client is given that     *)
(* decision and nothing else, unless it stops waiting first; a decision    *)
(* that comes after the client has gone reaches nobody.                    *)
(***************************************************************************)
CONSTANTS
  Calls,        \* client invocations
  IdOf,         \* the request id of each call
  Ids,          \* the ids under which a call can be admitted
  Decisions,    \* what a race can decide
  Refusals,     \* what a client can be told instead
  Nobody,       \* "this id is free"
  Nothing       \* "no reply yet"

VARIABLES
  stage,        \* "new", "open", "leaving" or "closed", per call
  owner,        \* the call each id is held by
  decided,      \* the set of decisions of each call, never more than one
  reply         \* what each client was told

vars == <<stage, owner, decided, reply>>

Init ==
  /\ stage   = [c \in Calls |-> "new"]
  /\ owner   = [i \in Ids |-> Nobody]
  /\ decided = [c \in Calls |-> {}]
  /\ reply   = [c \in Calls |-> Nothing]

Refuse(c) ==
  /\ stage[c] = "new"
  /\ stage' = [stage EXCEPT ![c] = "closed"]
  /\ \E r \in Refusals : reply' = [reply EXCEPT ![c] = r]
  /\ UNCHANGED <<owner, decided>>

Admit(c) ==
  /\ stage[c] = "new"
  /\ IdOf[c] \in Ids
  /\ owner[IdOf[c]] = Nobody
  /\ stage' = [stage EXCEPT ![c] = "open"]
  /\ owner' = [owner EXCEPT ![IdOf[c]] = c]
  /\ UNCHANGED <<decided, reply>>

\* the race may be decided after the client has left, never before admission
Decide(c) ==
  /\ stage[c] # "new"
  /\ decided[c] = {}
  /\ \E v \in Decisions : decided' = [decided EXCEPT ![c] = {v}]
  /\ UNCHANGED <<stage, owner, reply>>

Deliver(c) ==
  /\ stage[c] = "open"
  /\ \E v \in decided[c] : reply' = [reply EXCEPT ![c] = v]
  /\ stage' = [stage EXCEPT ![c] = "leaving"]
  /\ UNCHANGED <<owner, decided>>

Abandon(c) ==
  /\ stage[c] = "open"
  /\ stage' = [stage EXCEPT ![c] = "leaving"]
  /\ \E r \in Refusals : reply' = [reply EXCEPT ![c] = r]
  /\ UNCHANGED <<owner, decided>>

Close(c) ==
  /\ stage[c] = "leaving"
  /\ owner[IdOf[c]] = c
  /\ stage' = [stage EXCEPT ![c] = "closed"]
  /\ owner' = [owner EXCEPT ![IdOf[c]] = Nobody]
  /\ UNCHANGED <<decided, reply>>

Next ==
  \E c \in Calls :
    \/ Refuse(c) \/ Admit(c) \/ Decide(c) \/ Deliver(c) \/ Abandon(c) \/ Close(c)

Spec == Init /\ [][Next]_vars

=============================================================================

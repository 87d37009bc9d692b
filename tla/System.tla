------------------------------- MODULE System -------------------------------
(***************************************************************************)
(* The whole system: the gateway of Gateway, the control plane's           *)
(* membership as Roster promises it, and between them the worker           *)
(* processes of cmd/worker, whose faults both of them see, each in its own *)
(* way and at its own time.  The worker list of a poll is no longer        *)
(* arbitrary and neither is the outcome of an attempt's RPC.               *)
(*                                                                         *)
(* Workers compute faster than attemptTimeout and the network between      *)
(* running processes is sound, so that an RPC fails only by its worker.    *)
(***************************************************************************)
EXTENDS Gateway

CONSTANTS
  MaxFaults,    \* bound on worker faults, false positives and restarts
  NoReply       \* no ListWorkers reply is on its way

ASSUME SystemAssumption == MaxFaults \in Nat

VARIABLES
  registered, asking, gone,     \* the membership, see Roster
  polled,       \* the ListWorkers reply that the poll loop has yet to apply
  process,      \* the state of each worker process
  computing,    \* attempts in flight whose request a worker's Generate has accepted
  late,         \* attempts that sat on a worker while it was frozen
  steady,       \* per waiting call: the workers in view and unharmed so far
  faults        \* what has gone wrong so far, and with whom

rosterVars == <<registered, asking, gone>>
workerVars == <<process, computing, late>>
systemVars == <<vars, rosterVars, polled, workerVars, steady, faults>>

CP == INSTANCE Roster

(* A worker process is                                                     *)
(*   "up"       running                                                    *)
(*   "frozen"   stopped by SIGSTOP, its connections open                   *)
(*   "leaving"  told to end: draining its server, deregistering            *)
(*   "dead"     ended                                                      *)
SystemInit ==
  /\ Init
  /\ CP!Init
  /\ polled = NoReply
  /\ process = [w \in Workers |-> "up"]
  /\ computing = {}
  /\ late = {}
  /\ steady = [c \in Calls |-> {}]
  /\ faults = {}

\* a worker is steady for a call if from the pick on, until the client has
\* its answer, it runs and no poll shows it missing; what moves a handler, the
\* view or a worker away from "up" takes note
Watch ==
  steady' = [c \in Calls |->
    IF handler'[c] \in {"picked", "waiting"}
    THEN {w \in IF handler[c] = "idle" THEN view ELSE steady[c] : w \in view' /\ process'[w] = "up"}
    ELSE {}]

----------------------------------------------------------------------------
(* The gateway.                                                            *)

Handle(c) ==
  /\ HandlerStep(c)
  /\ UNCHANGED <<rosterVars, polled, workerVars, faults>>
  /\ Watch

\* the control plane answers the poll loop; a poll that fails changes nothing
ListWorkers ==
  /\ polled = NoReply
  /\ departed = {}
  /\ polled' = registered
  /\ UNCHANGED <<vars, rosterVars, workerVars, steady, faults>>

\* pollOnce applies the reply, whatever has happened since it was sent
ApplyPoll ==
  /\ polled # NoReply
  /\ PollOnce(polled)
  /\ polled' = NoReply
  /\ UNCHANGED <<rosterVars, workerVars, faults>>
  /\ Watch

Reroute == RerouteFrom /\ UNCHANGED <<rosterVars, polled, workerVars, steady, faults>>

\* what attemptFailed and settle do after the RPC
FinishAttempt(c, k) ==
  /\ \/ SnapshotCandidates(c, k) \/ ReplaceAttempt(c, k) \/ DropAttempt(c, k)
     \/ SettleError(c, k) \/ SendResult(c, k)
  /\ UNCHANGED <<rosterVars, polled, workerVars, steady, faults>>

----------------------------------------------------------------------------
(* An attempt's RPC at its worker; Generate of cmd/worker sleeps and       *)
(* answers, and never refuses a request.                                   *)

HostOf(c, k) == process[att[c][k].worker]

\* the worker's server accepts the request; one that is leaving still does
\* if the stream was opened before its GOAWAY came through
Accept(c, k) ==
  /\ att[c][k].pc = "rpc"
  /\ <<c, k>> \notin computing
  /\ HostOf(c, k) \in {"up", "leaving"}
  /\ computing' = computing \cup {<<c, k>>}
  /\ UNCHANGED <<vars, rosterVars, polled, process, late, steady, faults>>

\* the RPC is over for the worker, too
Release(c, k) ==
  /\ computing' = computing \ {<<c, k>>}
  /\ late' = late \ {<<c, k>>}
  /\ UNCHANGED <<rosterVars, polled, process, steady, faults>>

Answer(c, k) ==
  /\ <<c, k>> \in computing
  /\ HostOf(c, k) \in {"up", "leaving"}
  /\ AttemptSucceeds(c, k)
  /\ Release(c, k)

\* refused by a server that drains, or reset with the process
Unreachable(c, k) ==
  /\ HostOf(c, k) = "dead" \/ (HostOf(c, k) = "leaving" /\ <<c, k>> \notin computing)
  /\ AttemptFails(c, k, "Unavailable")
  /\ Release(c, k)

\* attemptTimeout, which ends the worker's handler with the RPC; that of a
\* frozen worker notices when it is resumed, and computes nothing until then
TimeOut(c, k) ==
  /\ HostOf(c, k) = "frozen" \/ <<c, k>> \in late
  /\ AttemptFails(c, k, "DeadlineExceeded")
  /\ Release(c, k)

RPCStep(c, k) == Accept(c, k) \/ Answer(c, k) \/ Unreachable(c, k) \/ TimeOut(c, k)

----------------------------------------------------------------------------
(* Membership.  A running worker registers at start-up and when a beat is  *)
(* told NotFound; no call of its own breaks, so it has one Register under  *)
(* way at most.  The detector is right about the silent ones.              *)

MembershipStep(w) ==
  /\ \/ CP!Ask(w) /\ process[w] = "up" /\ w \notin registered
     \/ CP!Enter(w) /\ w \notin asking'
     \/ CP!Drop(w) /\ process[w] # "up" /\ w \in registered
     \/ CP!Leave(w) /\ process[w] = "leaving"
  /\ UNCHANGED <<vars, polled, workerVars, steady, faults>>

----------------------------------------------------------------------------
(* The worker processes, and what happens to them.                         *)

OnHost(w) ==
  UNION {{<<c, k>> : k \in {j \in DOMAIN att[c] : att[c][j].pc = "rpc" /\ att[c][j].worker = w}} :
           c \in Calls}

\* goroutines 2 and 3 of main have returned: GracefulStop has drained the
\* handlers, and the Deregister was acknowledged or given up
Exit(w) ==
  /\ process[w] = "leaving"
  /\ OnHost(w) \cap computing = {}
  /\ process' = [process EXCEPT ![w] = "dead"]
  /\ IF w \in gone THEN UNCHANGED rosterVars ELSE CP!Quit(w)
  /\ UNCHANGED <<vars, polled, computing, late, steady, faults>>

\* SIGCONT
Resume(w) ==
  /\ process[w] = "frozen"
  /\ process' = [process EXCEPT ![w] = "up"]
  /\ late' = late \cup OnHost(w)
  /\ UNCHANGED <<vars, rosterVars, polled, computing, steady, faults>>

\* each kind of fault happens to a worker at most once
Fault(kind, w) ==
  /\ Cardinality(faults) < MaxFaults
  /\ <<kind, w>> \notin faults
  /\ faults' = faults \cup {<<kind, w>>}
  /\ UNCHANGED <<vars, polled>>

\* a false positive: the detector evicts a worker that is running
Misjudge(w) ==
  /\ Fault("misjudged", w)
  /\ process[w] = "up"
  /\ w \in registered
  /\ CP!Drop(w)
  /\ UNCHANGED <<workerVars, steady>>

\* SIGSTOP
Freeze(w) ==
  /\ Fault("frozen", w)
  /\ process[w] = "up"
  /\ process' = [process EXCEPT ![w] = "frozen"]
  /\ UNCHANGED <<rosterVars, computing, late>>
  /\ Watch

\* SIGTERM
Terminate(w) ==
  /\ Fault("terminated", w)
  /\ process[w] = "up"
  /\ process' = [process EXCEPT ![w] = "leaving"]
  /\ UNCHANGED <<rosterVars, computing, late>>
  /\ Watch

\* kill -9
Kill(w) ==
  /\ Fault("killed", w)
  /\ process[w] # "dead"
  /\ process' = [process EXCEPT ![w] = "dead"]
  /\ computing' = computing \ OnHost(w)
  /\ late' = late \ OnHost(w)
  /\ IF w \in gone THEN UNCHANGED rosterVars ELSE CP!Quit(w)
  /\ Watch

\* the control plane ends and comes back, knowing nobody
RestartControlPlane ==
  /\ Fault("restarted", NoWorker)
  /\ CP!Wipe
  /\ gone' = gone
  /\ UNCHANGED <<workerVars, steady>>

----------------------------------------------------------------------------
(* The specification.                                                      *)

WorkerStep(w) ==
  MembershipStep(w) \/ Exit(w) \/ Resume(w) \/ Misjudge(w) \/ Freeze(w) \/ Terminate(w) \/ Kill(w)

SystemNext ==
  \/ ListWorkers \/ ApplyPoll \/ Reroute \/ RestartControlPlane
  \/ \E c \in Calls : Handle(c)
  \/ \E c \in Calls : \E k \in DOMAIN att[c] : RPCStep(c, k) \/ FinishAttempt(c, k)
  \/ \E w \in Workers : WorkerStep(w)

SystemSpec == SystemInit /\ [][SystemNext]_systemVars

----------------------------------------------------------------------------
(* Properties.                                                             *)

Computing(c) == {k \in DOMAIN att[c] : <<c, k>> \in computing}

Decided(c, kinds) ==
  \E k \in DOMAIN att[c] :
    att[c][k].pc \in {"settling", "sending", "won"} /\ att[c][k].res \in kinds

(* The README's "zero-loss rerouting": as long as one thing at most has    *)
(* gone wrong, and a worker has been running and in the view ever since    *)
(* the request's own was picked, a waiting client is never told an error.  *)
(* A worker that dies, freezes, leaves or is misjudged, in any order with  *)
(* its eviction, the polls and the retries, costs nothing but time.        *)
OneFaultIsSurvived ==
  Cardinality(faults) <= 1 =>
    \A c \in Calls :
      handler[c] = "waiting" /\ steady[c] # {} => ~Decided(c, {"terminal", "exhausted"})

(* One fault makes at most two workers compute a request at a time (the    *)
(* README's table: "Attempts in flight"), though the budget allows three   *)
(* and the fast and the slow path may both act on that fault.              *)
OneFaultComputesTwice ==
  Cardinality(faults) <= 1 => \A c \in Calls : Cardinality(Computing(c)) <= 2

----------------------------------------------------------------------------
(* What the documents say and the code does not do.                        *)

(* "Only a false positive puts two attempts on one request": two workers   *)
(* compute one request only if somebody who was running has been taken     *)
(* for gone, having been frozen, misjudged or forgotten in a restart.      *)
OnlyFalsePositivesDuplicate ==
  \A c \in Calls : Cardinality(Computing(c)) >= 2 =>
    \E f \in faults : f[1] \in {"frozen", "misjudged", "restarted"}

=============================================================================

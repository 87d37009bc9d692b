----------------------------- MODULE Membership -----------------------------
(***************************************************************************)
(* The control plane together with the workers' register, heartbeat and    *)
(* deregister loop (cmd/worker), over RPCs that can fail, be cancelled by  *)
(* a signal, or be handled after their caller has stopped waiting.         *)
(***************************************************************************)
EXTENDS ControlPlane

CONSTANTS
  MaxFaults     \* bound on control-plane ends and broken RPCs

ASSUME MembershipAssumption == MaxFaults \in Nat

VARIABLES
  pc,           \* where each worker's main or heartbeat loop is
  signalled,    \* workers whose ctx is cancelled (SIGTERM)
  late,         \* of each worker and RPC, how many handlers have yet to run
                \* although the worker no longer waits for them
  faults        \* how many faults have happened

workerVars == <<pc, signalled, late>>
vars == <<cp, registryVars, detectorVars, workerVars, faults>>

(* A worker is                                                             *)
(*   "start"          about to make its initial Register call              *)
(*   "registering"    in it                                                *)
(*   "idle"           in the heartbeat loop's select                       *)
(*   "beating"        in Heartbeat                                         *)
(*   "notfound"       told NotFound, about to register again               *)
(*   "reregistering"  in that Register                                     *)
(*   "deregistering"  in Deregister, having seen ctx.Done                  *)
(*   "left"           ended, its Deregister acknowledged                   *)
(*   "ended"          ended otherwise: killed, or an error on the way out  *)
(* and in a call until the handler of that very call has run.              *)
PCs == {"start", "registering", "idle", "beating", "notfound", "reregistering",
        "deregistering", "left", "ended"}

InCall == {"registering", "beating", "reregistering", "deregistering"}

RPCs == {"Register", "Heartbeat", "Deregister"}

\* the RPC a worker that is in a call waits for
Request(p) ==
  CASE p = "beating"       -> "Heartbeat"
    [] p = "deregistering" -> "Deregister"
    [] OTHER               -> "Register"

NoneLate == [rpc \in RPCs |-> 0]

Init ==
  /\ cp = "up"
  /\ Blank
  /\ pc = [w \in Workers |-> "start"]
  /\ signalled = {}
  /\ late = [w \in Workers |-> NoneLate]
  /\ faults = 0

----------------------------------------------------------------------------
(* Worker steps.                                                           *)

\* where an RPC that returns an error leaves the worker: log.Fatalf in main,
\* log-and-continue in the loop, log-and-return on the way out
AfterError(p) == IF p \in {"registering", "deregistering"} THEN "ended" ELSE "idle"

\* a call fails at once when no control plane accepts it; one that is told to
\* stop accepts calls until it is in GracefulStop
Send(w, p) ==
  /\ pc' = [pc EXCEPT ![w] = IF cp \in {"up", "stopping"} THEN p ELSE AfterError(p)]
  /\ UNCHANGED <<cp, registryVars, detectorVars, signalled, late, faults>>

Start(w) == pc[w] = "start" /\ Send(w, "registering")

Beat(w) == pc[w] = "idle" /\ w \notin signalled /\ Send(w, "beating")

Reregister(w) == pc[w] = "notfound" /\ w \notin signalled /\ Send(w, "reregistering")

Leave(w) == pc[w] = "idle" /\ w \in signalled /\ Send(w, "deregistering")

Signal(w) ==
  /\ pc[w] \notin {"left", "ended"}
  /\ w \notin signalled
  /\ signalled' = signalled \cup {w}
  /\ UNCHANGED <<cp, registryVars, detectorVars, pc, late, faults>>

\* what becomes of the request of a worker that stops waiting: it is handled
\* later, or never
Orphan(w) ==
  \/ UNCHANGED late
  \/ pc[w] \in InCall /\ late' = [late EXCEPT ![w][Request(pc[w])] = @ + 1]

\* a cancelled ctx ends every call but Deregister, which has its own ctx
Cancelled(w) ==
  /\ w \in signalled
  /\ pc[w] \in {"registering", "beating", "notfound", "reregistering"}
  /\ pc' = [pc EXCEPT ![w] = AfterError(@)]
  /\ Orphan(w)
  /\ UNCHANGED <<cp, registryVars, detectorVars, signalled, faults>>

\* a broken connection, or shutdownTimeout
CallFails(w) ==
  /\ faults < MaxFaults
  /\ pc[w] \in InCall
  /\ pc' = [pc EXCEPT ![w] = AfterError(@)]
  /\ Orphan(w)
  /\ faults' = faults + 1
  /\ UNCHANGED <<cp, registryVars, detectorVars, signalled>>

\* kill -9
Killed(w) ==
  /\ pc[w] \notin {"left", "ended"}
  /\ pc' = [pc EXCEPT ![w] = "ended"]
  /\ Orphan(w)
  /\ UNCHANGED <<cp, registryVars, detectorVars, signalled, faults>>

----------------------------------------------------------------------------
(* The RPC handlers of internal/controlplane.  Each call has a handler of  *)
(* its own, so that several of one worker, of one kind even, may be under  *)
(* way.  That of the call the worker is in replies to it; the others run   *)
(* unheard.                                                                *)

Handled(w, rpc, to) ==
  /\ cp # "down"
  /\ \/ /\ pc[w] \in InCall /\ Request(pc[w]) = rpc
        /\ pc' = [pc EXCEPT ![w] = to]
        /\ UNCHANGED late
     \/ /\ late[w][rpc] > 0
        /\ late' = [late EXCEPT ![w][rpc] = @ - 1]
        /\ UNCHANGED pc
  /\ UNCHANGED <<cp, detectorVars, signalled, faults>>

Register(w) == Handled(w, "Register", "idle") /\ registryRegister(w)

\* mutant of Heartbeat: the worker logs NotFound like any other error
HeartbeatShrugged(w) == Handled(w, "Heartbeat", "idle") /\ registryHeartbeat(w)

Heartbeat(w) ==
  /\ Handled(w, "Heartbeat", IF w \in workers THEN "idle" ELSE "notfound")
  /\ registryHeartbeat(w)

Deregister(w) == Handled(w, "Deregister", "left") /\ registryDeregister(w)

----------------------------------------------------------------------------
(* The end and the restart of the control plane.                           *)

\* GracefulStop has waited for the handlers, wg.Wait for the goroutines
Exit ==
  /\ cp = "closing"
  /\ scanner = "off" /\ drain = "off"
  /\ \A w \in Workers : pc[w] \notin InCall /\ late[w] = NoneLate
  /\ Forget
  /\ UNCHANGED <<workerVars, faults>>

\* every call under way returns an error to its worker
HangUp ==
  /\ pc' = [w \in Workers |-> IF pc[w] \in InCall THEN AfterError(pc[w]) ELSE pc[w]]
  /\ late' = [w \in Workers |-> NoneLate]
  /\ UNCHANGED signalled

CrashControlPlane ==
  /\ faults < MaxFaults
  /\ cp # "down"
  /\ Forget
  /\ HangUp
  /\ faults' = faults + 1

Restart ==
  /\ cp = "down"
  /\ cp' = "up"
  /\ UNCHANGED <<registryVars, detectorVars, workerVars, faults>>

\* a requested stop counts as a fault too, which bounds the restarts
Stop == faults < MaxFaults /\ StopSignal /\ faults' = faults + 1 /\ UNCHANGED workerVars

----------------------------------------------------------------------------
(* The specification.                                                      *)

DetectorStep == (Scan \/ Evict \/ Emit) /\ UNCHANGED <<workerVars, faults>>

MainStep ==
  (Drain \/ DrainReturns \/ RunReturns \/ GracefulStop) /\ UNCHANGED <<workerVars, faults>>

ServerStep(w) == Register(w) \/ Heartbeat(w) \/ Deregister(w)

WorkerStep(w) == Start(w) \/ Beat(w) \/ Reregister(w) \/ Leave(w) \/ Cancelled(w)

EnvironmentStep(w) == Signal(w) \/ CallFails(w) \/ Killed(w)

Next ==
  \/ DetectorStep \/ MainStep \/ Exit \/ Stop \/ CrashControlPlane \/ Restart
  \/ \E w \in Workers : ServerStep(w) \/ WorkerStep(w) \/ EnvironmentStep(w)

Spec == Init /\ [][Next]_vars

(* Goroutines and processes that can run do run, and a control plane that  *)
(* ended is started again.  Run's select picks ctx.Done with probability   *)
(* one half whenever a tick is ready too, hence strong fairness there.  No *)
(* signal, kill or fault ever has to happen.                               *)
Fairness ==
  /\ WF_vars(Scan /\ UNCHANGED <<workerVars, faults>>)
  /\ WF_vars((Evict \/ Emit) /\ UNCHANGED <<workerVars, faults>>)
  /\ WF_vars(Drain /\ UNCHANGED <<workerVars, faults>>)
  /\ WF_vars(DrainReturns /\ UNCHANGED <<workerVars, faults>>)
  /\ WF_vars(GracefulStop /\ UNCHANGED <<workerVars, faults>>)
  /\ SF_vars(RunReturns /\ UNCHANGED <<workerVars, faults>>)
  /\ WF_vars(Exit)
  /\ WF_vars(Restart)
  /\ \A w \in Workers : WF_vars(ServerStep(w)) /\ WF_vars(WorkerStep(w))

FairSpec == Spec /\ Fairness

----------------------------------------------------------------------------
(* Properties.                                                             *)

TypeOK ==
  /\ ControlPlaneTypeOK
  /\ pc \in [Workers -> PCs]
  /\ signalled \subseteq Workers
  /\ late \in [Workers -> [RPCs -> Nat]]
  /\ faults \in 0..MaxFaults

(* Revival is "derived from the data flow": the state machine keeps no     *)
(* memory of its own, and a worker is SUSPECT exactly while its last score *)
(* was between the thresholds, whatever it went through before.            *)
StateFollowsScore ==
  \A w \in Workers : entries[w] # NoEntry =>
    entries[w].state = IF entries[w].score = 1 THEN "suspect" ELSE "alive"

(* A worker in warm-up is never condemned: whoever phase 2 declares DEAD   *)
(* has had at least two gaps folded since the detector first saw it, so    *)
(* also since its last eviction or the last control-plane restart.         *)
WarmUpIsNeverCondemned ==
  [][\A w \in deaths' \ deaths :
       entries[w] # NoEntry /\ entries[w].count + (IF w \in newer THEN 1 ELSE 0) >= 2]_vars

(* The condemned leave no tombstone: while phase 3 has yet to evict or     *)
(* announce a worker, the detector holds no entry for it, even if it has   *)
(* registered again meanwhile, so that no death is announced twice.        *)
NoTombstone ==
  \A w \in deaths \cup {sending} : w # NoWorker => entries[w] = NoEntry

InTheLoop(w) == pc[w] \in {"idle", "beating", "notfound", "reregistering"}

(* Self-healing: a worker whose loop keeps running is registered again and *)
(* again, whatever evictions (a beat wiped between snapshot and eviction   *)
(* included), restarts and broken calls came before.  A control plane that *)
(* hangs in its shutdown is the exception (see StopEnds).                  *)
SelfHealing ==
  \A w \in Workers :
    <>[](InTheLoop(w) /\ w \notin signalled /\ ~Stopping) => []<>(w \in workers)

(* A worker that is gone and has left no RPC behind is evicted, provided   *)
(* the detector's window for it had warmed up and no shutdown intervenes.  *)
WarmSilenceIsEvicted ==
  \A w \in Workers :
    /\ pc[w] = "ended" /\ late[w] = NoneLate
    /\ entries[w] # NoEntry /\ entries[w].count >= 2
    ~> w \notin workers \/ Stopping

(* Every death the detector declares is carried through: the condemned is  *)
(* evicted and announced, and phase 3 is left behind.                      *)
DeathsAreAnnounced ==
  (deaths # {} \/ sending # NoWorker) /\ cp = "up" ~>
    (deaths = {} /\ sending = NoWorker) \/ Stopping

----------------------------------------------------------------------------
(* What comments of the code say and the code does not do.                 *)

(* The worker's "deregister failed (failure detector will evict)": a       *)
(* worker that ended without deregistering leaves the registry.            *)
EndedIsEvicted ==
  \A w \in Workers : pc[w] = "ended" ~> w \notin workers

(* The server's "Deregister asserts a final state (worker absent)": a      *)
(* worker whose Deregister was acknowledged is absent.                     *)
DeregisterIsFinal ==
  \A w \in Workers : pc[w] = "left" => w \notin workers

(* Run "returns on ctx cancel", and the drain goroutine is there to keep   *)
(* the channel from "stalling the scanner": a control plane told to stop   *)
(* ends.                                                                   *)
StopEnds == cp = "stopping" ~> cp = "down"

=============================================================================

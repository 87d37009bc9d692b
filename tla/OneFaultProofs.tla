--------------------------- MODULE OneFaultProofs ---------------------------
(***************************************************************************)
(* The system under faults, for every set of workers, calls and ids, every *)
(* kind of fault and every moment it can strike.  Under any number of them *)
(* a client that waits while some worker stays in view and unharmed is     *)
(* refused for its spent budget only.  Under one it is not refused at all, *)
(* given a budget of at least two attempts, and no request is computed by  *)
(* more than two workers at a time.                                        *)
(***************************************************************************)
EXTENDS SystemProofs, GatewayGaugeProofs

----------------------------------------------------------------------------
(* Faults and hosts, however many faults there are.                        *)

\* the workers something has happened to
Struck == {w \in Workers : \E f \in faults : f[2] = w}

\* the control plane has been restarted
Restarted == <<"restarted", NoWorker>> \in faults

FaultKinds == {"misjudged", "frozen", "terminated", "killed"}

FaultsOK == IsFiniteSet(faults) /\ faults \subseteq (FaultKinds \X Workers) \cup {<<"restarted", NoWorker>>}

\* only a worker something has happened to is not running
HostsOK ==
  /\ process \in [Workers -> {"up", "frozen", "leaving", "dead"}]
  /\ \A w \in Workers : process[w] # "up" => w \in Struck

(* A step either adds one fault, and the gateway does not move, or none.   *)
LEMMA FaultOrNot ==
  ASSUME [SystemNext]_systemVars
  PROVE  \/ UNCHANGED faults
         \/ /\ \/ \E w \in Workers : Misjudge(w) \/ Freeze(w) \/ Terminate(w) \/ Kill(w)
               \/ RestartControlPlane
            /\ \E f \in (FaultKinds \X Workers) \cup {<<"restarted", NoWorker>>} :
                 f \notin faults /\ faults' = faults \cup {f}
            /\ UNCHANGED <<vars, polled>>
<1> DEFINE Fresh(f) == f \notin faults /\ faults' = faults \cup {f}
           Hit(w)   == Misjudge(w) \/ Freeze(w) \/ Terminate(w) \/ Kill(w)
<1>1. ASSUME NEW w \in Workers, NEW kind \in FaultKinds, Fault(kind, w)
      PROVE  /\ <<kind, w>> \in FaultKinds \X Workers
             /\ Fresh(<<kind, w>>) /\ UNCHANGED <<vars, polled>>
  BY <1>1 DEF Fault
<1>2. ASSUME NEW w \in Workers, WorkerStep(w)
      PROVE  UNCHANGED faults \/ Hit(w)
  BY <1>2 DEF WorkerStep, MembershipStep, Exit, Resume
<1>3. ASSUME NEW w \in Workers, Hit(w)
      PROVE  \E kind \in FaultKinds : Fault(kind, w)
  BY <1>3 DEF Misjudge, Freeze, Terminate, Kill, FaultKinds
<1>4. RestartControlPlane => Fresh(<<"restarted", NoWorker>>) /\ UNCHANGED <<vars, polled>>
  BY DEF RestartControlPlane, Fault
<1>5. ListWorkers \/ ApplyPoll \/ Reroute => UNCHANGED faults
  BY DEF ListWorkers, ApplyPoll, Reroute
<1>6. ASSUME NEW c \in Calls, NEW k \in DOMAIN att[c], RPCStep(c, k) \/ FinishAttempt(c, k)
      PROVE  UNCHANGED faults
  BY <1>6 DEF RPCStep, Accept, Answer, Unreachable, TimeOut, Release, FinishAttempt
<1>7. ASSUME NEW c \in Calls, Handle(c)
      PROVE  UNCHANGED faults
  BY <1>7 DEF Handle
<1>8. UNCHANGED systemVars => UNCHANGED faults
  BY DEF systemVars
<1> QED
  BY <1>1, <1>2, <1>3, <1>4, <1>5, <1>6, <1>7, <1>8 DEF SystemNext

(* Nothing that has happened is undone.                                    *)
LEMMA FaultsStep ==
  ASSUME FaultsOK, [SystemNext]_systemVars
  PROVE  /\ FaultsOK'
         /\ Struck \subseteq Struck'
         /\ Restarted => Restarted'
<1>1. CASE UNCHANGED faults
  BY <1>1 DEF FaultsOK, Struck, Restarted
<1>2. ASSUME NEW f \in (FaultKinds \X Workers) \cup {<<"restarted", NoWorker>>}, faults' = faults \cup {f}
      PROVE  /\ FaultsOK'
             /\ Struck \subseteq Struck'
             /\ Restarted => Restarted'
  <2>1. IsFiniteSet(faults')
    BY <1>2, FS_AddElement DEF FaultsOK
  <2> QED
    BY <1>2, <2>1 DEF FaultsOK, Struck, Restarted
<1> QED
  BY <1>1, <1>2, FaultOrNot

(* A worker leaves "up" by a fault and by nothing else.                    *)
LEMMA HostsStep ==
  ASSUME FaultsOK, HostsOK, [SystemNext]_systemVars
  PROVE  HostsOK'
<1>0. Struck \subseteq Struck'
  BY FaultsStep
<1>1. CASE UNCHANGED process
  BY <1>0, <1>1 DEF HostsOK
<1>2. ASSUME NEW w \in Workers, NEW s \in {"up", "frozen", "leaving", "dead"},
             process' = [process EXCEPT ![w] = s], w \in Struck'
      PROVE  HostsOK'
  BY <1>0, <1>2 DEF HostsOK
<1>3. ASSUME NEW w \in Workers, NEW kind, Fault(kind, w)
      PROVE  w \in Struck'
  BY <1>3 DEF Fault, Struck
<1>4. ASSUME NEW w \in Workers, WorkerStep(w)
      PROVE  HostsOK'
  <2>1. CASE MembershipStep(w) \/ Misjudge(w)
    BY <1>1, <2>1 DEF MembershipStep, Misjudge, workerVars
  <2>2. CASE Exit(w) \/ Resume(w)
    BY <1>0, <1>2, <2>2 DEF Exit, Resume, HostsOK
  <2>3. CASE Freeze(w) \/ Terminate(w) \/ Kill(w)
    BY <1>2, <1>3, <2>3 DEF Freeze, Terminate, Kill
  <2> QED
    BY <1>4, <2>1, <2>2, <2>3 DEF WorkerStep
<1>5. ListWorkers \/ ApplyPoll \/ Reroute \/ RestartControlPlane => UNCHANGED process
  BY DEF ListWorkers, ApplyPoll, Reroute, RestartControlPlane, workerVars
<1>6. ASSUME NEW c \in Calls, NEW k \in DOMAIN att[c], RPCStep(c, k) \/ FinishAttempt(c, k)
      PROVE  UNCHANGED process
  BY <1>6 DEF RPCStep, Accept, Answer, Unreachable, TimeOut, Release, FinishAttempt, workerVars
<1>7. ASSUME NEW c \in Calls, Handle(c)
      PROVE  UNCHANGED process
  BY <1>7 DEF Handle, workerVars
<1>8. UNCHANGED systemVars => UNCHANGED process
  BY DEF systemVars, workerVars
<1> QED
  BY <1>1, <1>4, <1>5, <1>6, <1>7, <1>8 DEF SystemNext

----------------------------------------------------------------------------
(* At most one fault.                                                      *)

OneAtMost == Cardinality(faults) <= 1

(* A single fault strikes one worker or the control plane.                 *)
LEMMA OneFault ==
  ASSUME FaultsOK, OneAtMost
  PROVE  /\ \A v, w \in Struck : v = w
         /\ Restarted => Struck = {}
         /\ faults = {} => Struck = {} /\ ~Restarted
<1>1. Cardinality(faults) \in Nat
  BY FS_CardinalityType DEF FaultsOK
<1>2. Cardinality(faults) = 0 \/ Cardinality(faults) = 1
  BY <1>1 DEF OneAtMost
<1>3. faults = {} \/ \E f : faults = {f}
  BY <1>2, FS_EmptySet, FS_Singleton DEF FaultsOK
<1> QED
  BY <1>3, GatewayAssumption DEF Struck, Restarted

(* It comes out of none.                                                   *)
LEMMA FirstFault ==
  ASSUME FaultsOK, [SystemNext]_systemVars, OneAtMost'
  PROVE  OneAtMost /\ (UNCHANGED faults \/ faults = {})
<1>1. CASE UNCHANGED faults
  BY <1>1 DEF OneAtMost
<1>2. ASSUME NEW f, f \notin faults, faults' = faults \cup {f}
      PROVE  faults = {}
  <2>1. Cardinality(faults') = Cardinality(faults) + 1 /\ Cardinality(faults) \in Nat
    BY <1>2, FS_AddElement, FS_CardinalityType DEF FaultsOK
  <2>2. Cardinality(faults) = 0
    BY <2>1 DEF OneAtMost
  <2> QED
    BY <2>2, FS_EmptySet DEF FaultsOK
<1>3. faults = {} => OneAtMost
  BY FS_EmptySet DEF OneAtMost
<1> QED
  BY <1>1, <1>2, <1>3, FaultOrNot

----------------------------------------------------------------------------
(* What a step of the system does to the attempts.                         *)

\* an attempt's RPC is over
RPCEnds(c, k) == Answer(c, k) \/ Unreachable(c, k) \/ TimeOut(c, k)

(* Every step leaves the attempts alone, registers a call, reroutes, ends  *)
(* an RPC or goes on after one.                                            *)
LEMMA SystemShapes ==
  ASSUME [SystemNext]_systemVars
  PROVE  \/ UNCHANGED <<att, guardedVars, claimed>>
         \/ \E c \in Calls : Register(c) /\ Handle(c)
         \/ Reroute
         \/ \E c \in Calls : \E k \in DOMAIN att[c] : RPCEnds(c, k) \/ FinishAttempt(c, k)
<1>1. ASSUME NEW c \in Calls, Handle(c)
      PROVE  Register(c) \/ UNCHANGED <<att, guardedVars, claimed>>
  BY <1>1, HandlerKeepsGauges DEF Handle
<1>2. ListWorkers \/ ApplyPoll \/ RestartControlPlane => UNCHANGED <<att, guardedVars, claimed>>
  BY DEF ListWorkers, ApplyPoll, RestartControlPlane, Fault, vars, PollOnce
<1>3. ASSUME NEW w \in Workers, WorkerStep(w)
      PROVE  UNCHANGED <<att, guardedVars, claimed>>
  BY <1>3 DEF WorkerStep, MembershipStep, Exit, Resume, Misjudge, Freeze, Terminate, Kill, Fault, vars
<1>4. ASSUME NEW c \in Calls, NEW k \in DOMAIN att[c], RPCStep(c, k)
      PROVE  RPCEnds(c, k) \/ UNCHANGED <<att, guardedVars, claimed>>
  BY <1>4 DEF RPCStep, RPCEnds, Accept, vars
<1>5. UNCHANGED systemVars => UNCHANGED <<att, guardedVars, claimed>>
  BY DEF systemVars, vars
<1> QED
  BY <1>1, <1>2, <1>3, <1>4, <1>5 DEF SystemNext

----------------------------------------------------------------------------
(* Steady workers, however many faults there are.                          *)

SteadyOK ==
  \A c \in Calls :
    /\ steady[c] \subseteq view
    /\ \A w \in steady[c] : process[w] = "up"
    /\ handler[c] \notin {"picked", "waiting"} => steady[c] = {}
    /\ handler[c] \in {"idle", "picked"} => tried[c] = {}

(* A step takes note, or moves neither handlers nor view nor a running     *)
(* worker.                                                                 *)
LEMMA Watched ==
  ASSUME [SystemNext]_systemVars, HostsOK
  PROVE  \/ Watch
         \/ /\ UNCHANGED <<steady, view, handler>>
            /\ \A w \in Workers : process[w] = "up" => process'[w] = "up"
<1>1. ASSUME NEW c \in Calls, Handle(c)
      PROVE  Watch
  BY <1>1 DEF Handle
<1>2. CASE ListWorkers \/ RestartControlPlane
  BY <1>2 DEF ListWorkers, RestartControlPlane, Fault, vars, pollVars, handlerVars, workerVars
<1>3. CASE Reroute
  BY <1>3 DEF Reroute, RerouteFrom, pollVars, handlerVars, workerVars
<1>4. ASSUME NEW w \in Workers, WorkerStep(w)
      PROVE  \/ Watch
             \/ /\ UNCHANGED <<steady, view, handler>>
                /\ \A v \in Workers : process[v] = "up" => process'[v] = "up"
  <2>1. CASE MembershipStep(w) \/ Misjudge(w)
    BY <2>1 DEF MembershipStep, Misjudge, Fault, vars, pollVars, handlerVars, workerVars
  <2>2. CASE Exit(w) \/ Resume(w)
    BY <2>2 DEF Exit, Resume, HostsOK, vars, pollVars, handlerVars
  <2>3. CASE Freeze(w) \/ Terminate(w) \/ Kill(w)
    BY <2>3 DEF Freeze, Terminate, Kill
  <2> QED
    BY <1>4, <2>1, <2>2, <2>3 DEF WorkerStep
<1>5. ASSUME NEW c \in Calls, NEW k \in DOMAIN att[c], RPCStep(c, k)
      PROVE  UNCHANGED <<steady, view, handler, process>>
  BY <1>5 DEF RPCStep, Accept, Answer, Unreachable, TimeOut, Release, AttemptSucceeds, AttemptFails,
              vars, pollVars, handlerVars
<1>6. ASSUME NEW c \in Calls, NEW k \in DOMAIN att[c], FinishAttempt(c, k)
      PROVE  UNCHANGED <<steady, view, handler, process>>
  BY <1>6 DEF FinishAttempt, SnapshotCandidates, ReplaceAttempt, DropAttempt, SettleError, SendResult,
              pollVars, handlerVars, workerVars
<1>7. CASE UNCHANGED systemVars
  BY <1>7 DEF systemVars, vars, pollVars, handlerVars, workerVars
<1>8. ApplyPoll => Watch
  BY DEF ApplyPoll
<1> QED
  BY <1>1, <1>2, <1>3, <1>4, <1>5, <1>6, <1>7, <1>8 DEF SystemNext

(* A waiting call gains no steady worker.                                  *)
LEMMA SteadyShrinks ==
  ASSUME [SystemNext]_systemVars, HostsOK, NEW c \in Calls
  PROVE  steady'[c] \subseteq steady[c] \/ handler[c] = "idle"
<1>1. CASE Watch
  BY <1>1 DEF Watch
<1> QED
  BY <1>1, Watched

(* Every step keeps the steady workers in view and running.                *)
LEMMA SteadyStep ==
  ASSUME TypeOK, RacesOK, SteadyOK, HostsOK, [SystemNext]_systemVars
  PROVE  SteadyOK'
<1> SUFFICES ASSUME NEW c \in Calls
             PROVE  /\ steady'[c] \subseteq view'
                    /\ \A w \in steady'[c] : process'[w] = "up"
                    /\ handler'[c] \notin {"picked", "waiting"} => steady'[c] = {}
                    /\ handler'[c] \in {"idle", "picked"} => tried'[c] = {}
  BY DEF SteadyOK
<1>1. /\ steady'[c] \subseteq view'
      /\ \A w \in steady'[c] : process'[w] = "up"
      /\ handler'[c] \notin {"picked", "waiting"} => steady'[c] = {}
  <2>1. CASE Watch
    BY <2>1 DEF Watch
  <2>2. CASE /\ UNCHANGED <<steady, view, handler>>
             /\ \A w \in Workers : process[w] = "up" => process'[w] = "up"
    BY <2>2 DEF SteadyOK, TypeOK
  <2> QED
    BY <2>1, <2>2, Watched
<1>2. handler'[c] \in {"idle", "picked"} => handler[c] \in {"idle", "picked"}
  <2>1. CASE \E d \in Calls : Handle(d)
    <3> PICK d \in Calls : HandlerStep(d)
      BY <2>1 DEF Handle
    <3> QED
      BY DEF TypeOK, HandlerStep, BeginGenerate, Registration, GenerateWithoutId,
             GenerateWithoutWorkers, PickWorker, RegisterDuplicate, Register, Refuse, Receive,
             GiveUp, Unregister
  <2>2. CASE ~\E d \in Calls : Handle(d)
    <3>1. ListWorkers \/ RestartControlPlane \/ UNCHANGED systemVars => UNCHANGED handler
      BY DEF ListWorkers, RestartControlPlane, Fault, systemVars, vars, handlerVars
    <3>2. ApplyPoll \/ Reroute => UNCHANGED handler
      BY DEF ApplyPoll, PollOnce, Reroute, RerouteFrom, handlerVars
    <3>3. ASSUME NEW w \in Workers, WorkerStep(w)
          PROVE  UNCHANGED handler
      BY <3>3 DEF WorkerStep, MembershipStep, Exit, Resume, Misjudge, Freeze, Terminate, Kill,
                  Fault, vars, handlerVars
    <3>4. ASSUME NEW d \in Calls, NEW k \in DOMAIN att[d], RPCStep(d, k)
          PROVE  UNCHANGED handler
      BY <3>4 DEF RPCStep, Accept, Answer, Unreachable, TimeOut, AttemptSucceeds, AttemptFails,
                  vars, handlerVars
    <3>5. ASSUME NEW d \in Calls, NEW k \in DOMAIN att[d], FinishAttempt(d, k)
          PROVE  UNCHANGED handler
      BY <3>5 DEF FinishAttempt, SnapshotCandidates, ReplaceAttempt, DropAttempt, SettleError,
                  SendResult, handlerVars
    <3>6. UNCHANGED handler
      BY <2>2, <3>1, <3>2, <3>3, <3>4, <3>5 DEF SystemNext
    <3> QED
      BY <3>6
  <2> QED
    BY <2>1, <2>2
<1>3. handler'[c] \in {"idle", "picked"} => tried'[c] = tried[c]
  <2>1. CASE UNCHANGED guardedVars
    BY <2>1 DEF guardedVars
  <2>2. ASSUME NEW d \in Calls, Register(d)
        PROVE  handler'[c] \in {"idle", "picked"} => tried'[c] = tried[c]
    BY <2>2 DEF Register, TypeOK
  <2>3. CASE Reroute
    BY <2>3 DEF Reroute, RerouteFrom
  <2>4. ASSUME NEW d \in Calls, NEW k \in DOMAIN att[d], RPCEnds(d, k)
        PROVE  UNCHANGED tried
    BY <2>4 DEF RPCEnds, Answer, Unreachable, TimeOut, AttemptSucceeds, AttemptFails, guardedVars
  <2>5. ASSUME NEW d \in Calls, NEW k \in DOMAIN att[d], FinishAttempt(d, k), handler'[c] \in {"idle", "picked"}
        PROVE  tried'[c] = tried[c]
    <3>1. d # c
      BY <1>2, <2>5 DEF RacesOK, RaceOK
    <3> QED
      BY <2>5, <3>1 DEF FinishAttempt, SnapshotCandidates, ReplaceAttempt, DropAttempt, SettleError,
                        SendResult, guardedVars, TypeOK
  <2> QED
    BY <2>1, <2>2, <2>3, <2>4, <2>5, SystemShapes
<1> QED
  BY <1>1, <1>2, <1>3 DEF SteadyOK

----------------------------------------------------------------------------
(* What a step of the system does to one call.                             *)

\* the answer, to a race that may be decided
AnswerMove(c, k, a) ==
  /\ att[c][k].pc = "rpc" /\ Release(c, k)
  /\ a.res = "ok" /\ a.pc = (IF claimed[c] THEN "over" ELSE "sending")
  /\ claimed'[c] = TRUE /\ UNCHANGED tried

\* the worker does not answer
FailMove(c, k, a) ==
  /\ att[c][k].pc = "rpc" /\ Release(c, k)
  /\ HostOf(c, k) # "up" \/ <<c, k>> \in late
  /\ a.pc = (IF claimed[c] THEN "over" ELSE "retry")
  /\ UNCHANGED <<claimed, tried>>

SnapshotMove(c, k, a) ==
  /\ att[c][k].pc = "retry"
  /\ a.pc = "snapped" /\ a.cands = view \ {a.worker}
  /\ UNCHANGED <<claimed, tried>>

DropMove(c, k, a) ==
  /\ att[c][k].pc = "snapped" /\ Eligible(c, k) = {}
  /\ \/ LastInTheAir(c) /\ a.pc = "settling" /\ a.res = "exhausted"
     \/ ~LastInTheAir(c) /\ a.pc = "over"
  /\ tried'[c] = tried[c] \cup {a.worker} /\ UNCHANGED claimed

\* the error, to a race that may be decided
ErrorMove(c, k, a) ==
  /\ att[c][k].pc = "settling" /\ a.res = att[c][k].res
  /\ a.pc = (IF claimed[c] THEN "over" ELSE "sending")
  /\ claimed'[c] = TRUE /\ UNCHANGED tried

SendMove(c, k, a) ==
  /\ att[c][k].pc = "sending" /\ a.pc = "won" /\ a.res = att[c][k].res
  /\ UNCHANGED <<claimed, tried>>

\* attempt k of the call becomes a, at the same worker
Move(c, k, a) ==
  /\ Becomes(c, k, a) /\ a.worker = att[c][k].worker
  /\ UNCHANGED <<assigned, steady, view, faults>>
  /\ \/ AnswerMove(c, k, a) \/ FailMove(c, k, a) \/ SnapshotMove(c, k, a)
     \/ DropMove(c, k, a) \/ ErrorMove(c, k, a) \/ SendMove(c, k, a)

(* Every step of an attempt that launches no other one is such a move.     *)
LEMMA Moves ==
  ASSUME TypeOK, NEW c \in Calls, NEW k \in DOMAIN att[c],
         RPCEnds(c, k) \/ (FinishAttempt(c, k) /\ ~ReplaceAttempt(c, k))
  PROVE  \E a \in Attempt : Move(c, k, a)
<1>0. att[c][k] \in Attempt
  BY DEF TypeOK
<1>1. UNCHANGED <<steady, view, faults, assigned>>
  BY DEF RPCEnds, Answer, Unreachable, TimeOut, Release, FinishAttempt, AttemptSucceeds, AttemptFails,
         SnapshotCandidates, DropAttempt, SettleError, SendResult, pollVars, guardedVars
<1>2. CASE Answer(c, k)
  <2>1. AttemptSucceeds(c, k) /\ Release(c, k)
    BY <1>2 DEF Answer
  <2>2. /\ settle(c, k, "ok") /\ "ok" \in Outcomes /\ att[c][k].pc = "rpc"
        /\ claimed'[c] = TRUE /\ UNCHANGED tried
    BY <2>1 DEF AttemptSucceeds, settle, guardedVars, Outcomes, TypeOK
  <2> DEFINE a == [att[c][k] EXCEPT !.pc = IF claimed[c] THEN "over" ELSE "sending", !.res = "ok"]
  <2>3. a \in Attempt /\ Becomes(c, k, a)
    BY <2>2, SettleBecomes
  <2>4. /\ a.worker = att[c][k].worker /\ a.res = "ok"
        /\ a.pc = IF claimed[c] THEN "over" ELSE "sending"
    BY <1>0 DEF Attempt
  <2> HIDE DEF a
  <2> QED
    BY <1>1, <2>1, <2>2, <2>3, <2>4 DEF Move, AnswerMove
<1>3. CASE Unreachable(c, k) \/ TimeOut(c, k)
  <2>1. PICK err \in {"Unavailable", "DeadlineExceeded"} : AttemptFails(c, k, err)
    BY <1>3 DEF Unreachable, TimeOut
  <2>2. /\ Release(c, k)
        /\ HostOf(c, k) # "up" \/ <<c, k>> \in late
        /\ att[c][k].pc = "rpc" /\ UNCHANGED <<claimed, tried>>
    BY <1>3 DEF Unreachable, TimeOut, AttemptFails, guardedVars
  <2>3. err \in ErrorCodes /\ retryable(err)
    BY DEF ErrorCodes, retryable
  <2>4. PICK a \in Attempt :
          /\ Becomes(c, k, a) /\ a.worker = att[c][k].worker
          /\ (claimed[c] /\ a.pc = "over") \/ (~claimed[c] /\ a.pc = "retry")
    BY <2>1, <2>3, FailBecomes
  <2>5. a.pc = IF claimed[c] THEN "over" ELSE "retry"
    BY <2>4
  <2> QED
    BY <1>1, <2>2, <2>4, <2>5 DEF Move, FailMove
<1>4. CASE SnapshotCandidates(c, k)
  <2>1. att[c][k].pc = "retry" /\ UNCHANGED <<claimed, tried>>
    BY <1>4 DEF SnapshotCandidates, guardedVars
  <2>2. PICK a \in Attempt : /\ Becomes(c, k, a) /\ a.worker = att[c][k].worker
                            /\ a.pc = "snapped" /\ a.cands = healthyExcept({a.worker})
    BY <1>4, SnapshotBecomes
  <2> QED
    BY <1>1, <2>1, <2>2 DEF Move, SnapshotMove, healthyExcept
<1>5. CASE DropAttempt(c, k)
  <2>1. /\ att[c][k].pc = "snapped" /\ Eligible(c, k) = {}
        /\ tried'[c] = tried[c] \cup {att[c][k].worker} /\ UNCHANGED claimed
    BY <1>5 DEF DropAttempt, TypeOK
  <2>2. PICK a \in Attempt :
           /\ Becomes(c, k, a) /\ a.worker = att[c][k].worker
           /\ \/ LastInTheAir(c) /\ a.pc = "settling" /\ a.res = "exhausted"
              \/ ~LastInTheAir(c) /\ a.pc = "over"
    BY <1>5, DropBecomes
  <2> QED
    BY <1>1, <2>1, <2>2 DEF Move, DropMove
<1>6. CASE SettleError(c, k)
  <2>1. /\ settle(c, k, att[c][k].res) /\ att[c][k].res \in Outcomes /\ att[c][k].pc = "settling"
        /\ claimed'[c] = TRUE /\ UNCHANGED tried
    BY <1>0, <1>6 DEF SettleError, settle, guardedVars, Attempt, TypeOK
  <2> DEFINE a == [att[c][k] EXCEPT !.pc = IF claimed[c] THEN "over" ELSE "sending", !.res = att[c][k].res]
  <2>2. a \in Attempt /\ Becomes(c, k, a)
    BY <2>1, SettleBecomes
  <2>3. /\ a.worker = att[c][k].worker /\ a.res = att[c][k].res
        /\ a.pc = IF claimed[c] THEN "over" ELSE "sending"
    BY <1>0 DEF Attempt
  <2> HIDE DEF a
  <2> QED
    BY <1>1, <2>1, <2>2, <2>3 DEF Move, ErrorMove
<1>7. CASE SendResult(c, k)
  <2>1. att[c][k].pc = "sending" /\ UNCHANGED <<claimed, tried>>
    BY <1>7 DEF SendResult, guardedVars
  <2> DEFINE a == [att[c][k] EXCEPT !.pc = "won"]
  <2>2. a \in Attempt /\ Becomes(c, k, a)
    BY <1>7, SendBecomes
  <2>3. a.worker = att[c][k].worker /\ a.res = att[c][k].res /\ a.pc = "won"
    BY <1>0 DEF Attempt
  <2> HIDE DEF a
  <2> QED
    BY <1>1, <2>1, <2>2, <2>3 DEF Move, SendMove
<1> QED
  BY <1>2, <1>3, <1>4, <1>5, <1>6, <1>7 DEF RPCEnds, FinishAttempt

\* nothing happens to the call
Still(c) == UNCHANGED <<att[c], tried[c], assigned[c], claimed[c]>>

\* the call's first attempt
Starts(c) ==
  /\ handler[c] = "picked" /\ att[c] = << >> /\ handler'[c] = "waiting"
  /\ picked[c] \in Workers
  /\ att'[c] = <<Launch(picked[c])>> /\ assigned'[c] = picked[c] /\ tried'[c] = {}
  /\ claimed'[c] = FALSE

\* an attempt more, at w
Rescued(c, w) ==
  /\ Reroute /\ w \in healthyExcept(departed)
  /\ assigned[c] \in departed /\ assigned'[c] = w
  /\ att'[c] = Append(att[c], Launch(w))
  /\ UNCHANGED <<tried, claimed, steady, view, faults>>

\* attempt k is over, and one at w takes its place
Replaced(c, k, w) ==
  /\ att[c][k].pc = "snapped" /\ w \in Eligible(c, k)
  /\ Retired(c, k) \in Seq(Attempt) /\ Len(Retired(c, k)) = Len(att[c])
  /\ Retired(c, k)[k].pc = "over" /\ Retired(c, k)[k].worker = att[c][k].worker
  /\ \A j \in DOMAIN att[c] : j # k => Retired(c, k)[j] = att[c][j]
  /\ att'[c] = Append(Retired(c, k), Launch(w)) /\ assigned'[c] = w
  /\ tried'[c] = tried[c] \cup {att[c][k].worker}
  /\ UNCHANGED <<claimed, steady, view, faults>>

(* One of these happens to every call in every step.                       *)
LEMMA CallSteps ==
  ASSUME TypeOK, RacesOK, [SystemNext]_systemVars, NEW c \in Calls
  PROVE  \/ Still(c) \/ Starts(c) \/ \E w \in Workers : Rescued(c, w)
         \/ \E k \in DOMAIN att[c] : \E w \in Workers : Replaced(c, k, w)
         \/ \E k \in DOMAIN att[c] : \E a \in Attempt : Move(c, k, a)
<1>1. CASE UNCHANGED <<att, guardedVars, claimed>>
  BY <1>1 DEF Still, guardedVars
<1>2. ASSUME NEW d \in Calls, Register(d)
      PROVE  Still(c) \/ Starts(c)
  <2>1. CASE d = c
    <3>1. handler[c] = "picked" /\ att[c] = << >> /\ ~claimed[c] /\ picked[c] \in Workers
      BY <1>2, <2>1 DEF Register, RacesOK, RaceOK, TypeOK
    <3> QED
      BY <1>2, <2>1, <3>1 DEF Register, Starts, TypeOK
  <2>2. CASE d # c
    BY <1>2, <2>2 DEF Register, Still, TypeOK
  <2> QED
    BY <2>1, <2>2
<1>3. CASE Reroute
  <2>1. RerouteFrom /\ UNCHANGED <<tried, claimed, steady, view, faults>>
    BY <1>3 DEF Reroute, RerouteFrom
  <2> QED
    BY <1>3, <2>1, RerouteCounts DEF Still, Rescued
<1>4. ASSUME NEW d \in Calls, NEW k \in DOMAIN att[d], ReplaceAttempt(d, k), FinishAttempt(d, k)
      PROVE  Still(c) \/ \E j \in DOMAIN att[c] : \E w \in Workers : Replaced(c, j, w)
  <2>1. /\ att[d][k].pc = "snapped" /\ UNCHANGED <<claimed, steady, view, faults>>
        /\ tried' = [tried EXCEPT ![d] = @ \cup {att[d][k].worker}]
    BY <1>4 DEF ReplaceAttempt, FinishAttempt, pollVars
  <2>2. PICK w \in Workers :
          /\ Retired(d, k) \in Seq(Attempt)
          /\ Len(Retired(d, k)) = Len(att[d])
          /\ w \in Eligible(d, k)
          /\ Retired(d, k)[k].pc = "over" /\ Retired(d, k)[k].worker = att[d][k].worker
          /\ \A j \in DOMAIN att[d] : j # k => Retired(d, k)[j] = att[d][j]
          /\ assigned' = [assigned EXCEPT ![d] = w]
          /\ att' = [att EXCEPT ![d] = Append(Retired(d, k), Launch(w))]
    BY <1>4, ReplaceBecomes
  <2>3. CASE d = c
    <3>1. /\ att'[c] = Append(Retired(c, k), Launch(w)) /\ assigned'[c] = w
          /\ tried'[c] = tried[c] \cup {att[c][k].worker}
      BY <2>1, <2>2, <2>3 DEF TypeOK
    <3>2. Replaced(c, k, w)
      BY <2>1, <2>2, <2>3, <3>1 DEF Replaced
    <3> QED
      BY <2>3, <3>2
  <2>4. CASE d # c
    BY <2>1, <2>2, <2>4 DEF Still, TypeOK
  <2> QED
    BY <2>3, <2>4
<1>5. ASSUME NEW d \in Calls, NEW k \in DOMAIN att[d],
             RPCEnds(d, k) \/ (FinishAttempt(d, k) /\ ~ReplaceAttempt(d, k))
      PROVE  Still(c) \/ \E j \in DOMAIN att[c] : \E a \in Attempt : Move(c, j, a)
  <2>1. PICK a \in Attempt : Move(d, k, a)
    BY <1>5, Moves
  <2>2. CASE d = c
    BY <2>1, <2>2
  <2>3. CASE d # c
    <3>1. att'[c] = att[c] /\ assigned' = assigned
      BY <2>1, <2>3, BecomesTyped DEF Move
    <3>2. tried'[c] = tried[c] /\ claimed'[c] = claimed[c]
      BY <1>5, <2>3 DEF RPCEnds, Answer, Unreachable, TimeOut, FinishAttempt, AttemptSucceeds,
             AttemptFails, SnapshotCandidates, DropAttempt, SettleError, SendResult, settle,
             guardedVars, TypeOK
    <3> QED
      BY <3>1, <3>2 DEF Still
  <2> QED
    BY <2>2, <2>3
<1> QED
  BY <1>1, <1>2, <1>3, <1>4, <1>5, SystemShapes

(* The list after a launch.                                                *)
LEMMA Appended ==
  ASSUME NEW s \in Seq(Attempt), NEW w \in Workers
  PROVE  /\ Append(s, Launch(w)) \in Seq(Attempt)
         /\ DOMAIN Append(s, Launch(w)) = DOMAIN s \cup {Len(s) + 1}
         /\ \A j \in DOMAIN s : Append(s, Launch(w))[j] = s[j]
         /\ LET a == Append(s, Launch(w))[Len(s) + 1]
            IN  a.worker = w /\ a.pc = "rpc" /\ a.res = "none"
  BY AppendAttempt DEF Launch

(* An attempt keeps its number and its worker; while its RPC is neither    *)
(* over for the worker it stays in that RPC.                               *)
LEMMA AttemptsStay ==
  ASSUME TypeOK, RacesOK, [SystemNext]_systemVars, NEW c \in Calls, NEW k \in DOMAIN att[c]
  PROVE  /\ k \in DOMAIN att'[c] /\ att'[c][k].worker = att[c][k].worker
         /\ att[c][k].pc = "rpc" => att'[c][k].pc = "rpc" \/ <<c, k>> \notin computing'
<1>1. att[c] \in Seq(Attempt)
  BY DEF TypeOK
<1>2. CASE Still(c)
  BY <1>2 DEF Still
<1>3. CASE Starts(c)
  BY <1>3 DEF Starts
<1>4. ASSUME NEW w \in Workers, Rescued(c, w)
      PROVE  k \in DOMAIN att'[c] /\ att'[c][k] = att[c][k]
  BY <1>1, <1>4, Appended DEF Rescued
<1>5. ASSUME NEW j \in DOMAIN att[c], NEW w \in Workers, Replaced(c, j, w)
      PROVE  /\ k \in DOMAIN att'[c] /\ att'[c][k].worker = att[c][k].worker
             /\ att[c][k].pc = "rpc" => att'[c][k].pc = "rpc"
  <2>1. k \in DOMAIN Retired(c, j) /\ att'[c] = Append(Retired(c, j), Launch(w))
    BY <1>1, <1>5 DEF Replaced
  <2>2. k \in DOMAIN att'[c] /\ att'[c][k] = Retired(c, j)[k]
    BY <1>5, <2>1, Appended DEF Replaced
  <2> QED
    BY <1>5, <2>2 DEF Replaced
<1>6. ASSUME NEW j \in DOMAIN att[c], NEW a \in Attempt, Move(c, j, a)
      PROVE  /\ k \in DOMAIN att'[c] /\ att'[c][k].worker = att[c][k].worker
             /\ att[c][k].pc = "rpc" => att'[c][k].pc = "rpc" \/ <<c, k>> \notin computing'
  <2>1. /\ DOMAIN att'[c] = DOMAIN att[c] /\ att'[c][j] = a
        /\ \A i \in DOMAIN att[c] : i # j => att'[c][i] = att[c][i]
    BY <1>6, BecomesTyped DEF Move
  <2>2. CASE k # j
    BY <2>1, <2>2
  <2>3. CASE k = j
    <3>1. att[c][k].pc = "rpc" => <<c, k>> \notin computing'
      BY <1>6, <2>3 DEF Move, AnswerMove, FailMove, Release, SnapshotMove, DropMove, ErrorMove, SendMove
    <3> QED
      BY <1>6, <2>1, <2>3, <3>1 DEF Move
  <2> QED
    BY <2>2, <2>3
<1> QED
  BY <1>2, <1>3, <1>4, <1>5, <1>6, CallSteps

----------------------------------------------------------------------------
(* What workers compute, however many faults there are.                    *)

\* somebody something has happened to, who is not steady for the call
ToBlame(c) == Struck \ steady[c]

RPCsOK ==
  /\ late \cup computing \subseteq Calls \X Nat
  /\ \A c \in Calls : \A k \in Nat :
       /\ <<c, k>> \in computing => k \in DOMAIN att[c] /\ att[c][k].pc = "rpc"
       /\ <<c, k>> \in late => k \in DOMAIN att[c] /\ att[c][k].worker \in ToBlame(c)

(* A worker takes up an attempt of its own, and is late with one only if   *)
(* it was frozen.                                                          *)
LEMMA TakenUp ==
  ASSUME TypeOK, [SystemNext]_systemVars
  PROVE  \/ computing' \subseteq computing /\ late' \subseteq late
         \/ /\ UNCHANGED <<vars, late>>
            /\ \E c \in Calls : \E k \in DOMAIN att[c] :
                 att[c][k].pc = "rpc" /\ computing' = computing \cup {<<c, k>>}
         \/ /\ UNCHANGED <<vars, computing, steady, faults>>
            /\ \E w \in Workers : process[w] = "frozen" /\ late' = late \cup OnHost(w)
<1>1. ASSUME NEW c \in Calls, Handle(c)
      PROVE  UNCHANGED <<computing, late>>
  BY <1>1 DEF Handle, workerVars
<1>2. ListWorkers \/ ApplyPoll \/ Reroute \/ RestartControlPlane => UNCHANGED <<computing, late>>
  BY DEF ListWorkers, ApplyPoll, Reroute, RestartControlPlane, workerVars
<1>3. ASSUME NEW c \in Calls, NEW k \in DOMAIN att[c], FinishAttempt(c, k)
      PROVE  UNCHANGED <<computing, late>>
  BY <1>3 DEF FinishAttempt, workerVars
<1>4. ASSUME NEW c \in Calls, NEW k \in DOMAIN att[c], RPCEnds(c, k)
      PROVE  computing' \subseteq computing /\ late' \subseteq late
  BY <1>4 DEF RPCEnds, Answer, Unreachable, TimeOut, Release
<1>5. ASSUME NEW c \in Calls, NEW k \in DOMAIN att[c], Accept(c, k)
      PROVE  /\ UNCHANGED <<vars, late>>
             /\ att[c][k].pc = "rpc" /\ computing' = computing \cup {<<c, k>>}
  BY <1>5 DEF Accept
<1>6. ASSUME NEW w \in Workers, WorkerStep(w), ~Resume(w)
      PROVE  computing' \subseteq computing /\ late' \subseteq late
  BY <1>6 DEF WorkerStep, MembershipStep, Exit, Misjudge, Freeze, Terminate, Kill, workerVars
<1>7. ASSUME NEW w \in Workers, Resume(w)
      PROVE  /\ UNCHANGED <<vars, computing, steady, faults>>
             /\ process[w] = "frozen" /\ late' = late \cup OnHost(w)
  BY <1>7 DEF Resume
<1>8. UNCHANGED systemVars => UNCHANGED <<computing, late>>
  BY DEF systemVars, workerVars
<1> QED
  BY <1>1, <1>2, <1>3, <1>4, <1>5, <1>6, <1>7, <1>8 DEF SystemNext, RPCStep, RPCEnds

(* Blame stays with a worker as long as the call lasts.                    *)
LEMMA BlameStays ==
  ASSUME FaultsOK, HostsOK, [SystemNext]_systemVars, NEW c \in Calls, handler[c] # "idle"
  PROVE  ToBlame(c) \subseteq ToBlame(c)'
<1>1. steady'[c] \subseteq steady[c]
  BY SteadyShrinks
<1> QED
  BY <1>1, FaultsStep DEF ToBlame

(* Every step keeps computations and late attempts in order.               *)
LEMMA RPCsStep ==
  ASSUME TypeOK, RacesOK, FaultsOK, HostsOK, SteadyOK, RPCsOK, [SystemNext]_systemVars
  PROVE  RPCsOK'
<1>0. \A c \in Calls : att[c] \in Seq(Attempt) /\ DOMAIN att[c] \subseteq Nat
  BY DEF TypeOK
<1>1. (late \cup computing \subseteq Calls \X Nat)'
  <2>1. \A w : OnHost(w) \subseteq Calls \X Nat
    BY <1>0 DEF OnHost
  <2> QED
    BY <1>0, <2>1, TakenUp DEF RPCsOK
<1> SUFFICES ASSUME NEW c \in Calls, NEW k \in Nat
             PROVE  /\ <<c, k>> \in computing' => k \in DOMAIN att'[c] /\ att'[c][k].pc = "rpc"
                    /\ <<c, k>> \in late' => k \in DOMAIN att'[c] /\ att'[c][k].worker \in ToBlame(c)'
  BY <1>1 DEF RPCsOK
<1>2. <<c, k>> \in computing' => k \in DOMAIN att'[c] /\ att'[c][k].pc = "rpc"
  <2>1. CASE <<c, k>> \in computing
    BY <2>1, AttemptsStay DEF RPCsOK
  <2>2. ASSUME UNCHANGED vars, NEW d \in Calls, NEW j \in DOMAIN att[d], att[d][j].pc = "rpc",
               <<c, k>> = <<d, j>>
        PROVE  k \in DOMAIN att'[c] /\ att'[c][k].pc = "rpc"
    BY <2>2 DEF vars
  <2> QED
    BY <2>1, <2>2, TakenUp
<1>3. <<c, k>> \in late' => k \in DOMAIN att'[c] /\ att'[c][k].worker \in ToBlame(c)'
  <2>1. CASE <<c, k>> \in late
    <3>1. k \in DOMAIN att[c] /\ att[c][k].worker \in ToBlame(c)
      BY <2>1 DEF RPCsOK
    <3>2. handler[c] # "idle"
      BY <1>0, <3>1 DEF RacesOK, RaceOK
    <3> QED
      BY <3>1, <3>2, AttemptsStay, BlameStays
  <2>2. ASSUME UNCHANGED <<vars, steady, faults>>,
               NEW w \in Workers, process[w] = "frozen", <<c, k>> \in OnHost(w)
        PROVE  k \in DOMAIN att'[c] /\ att'[c][k].worker \in ToBlame(c)'
    <3>1. k \in DOMAIN att[c] /\ att[c][k].worker = w
      BY <2>2 DEF OnHost
    <3>2. w \in ToBlame(c)
      BY <2>2 DEF HostsOK, SteadyOK, ToBlame
    <3> QED
      BY <2>2, <3>1, <3>2 DEF ToBlame, Struck, vars
  <2> QED
    BY <2>1, <2>2, TakenUp
<1> QED
  BY <1>2, <1>3

----------------------------------------------------------------------------
(* Whom a call blames, however many faults there are: only workers that    *)
(* something has happened to and that are not steady for it.               *)

Failed(a) ==
  \/ a.pc \in {"retry", "snapped", "settling"}
  \/ a.pc \in {"sending", "won"} /\ a.res # "ok"

AttemptBlames(c, a) ==
  /\ Failed(a) => a.worker \in ToBlame(c)
  /\ a.pc = "snapped" => steady[c] \subseteq a.cands
  /\ a.pc = "settling" => a.res = "exhausted"
  /\ a.pc = "over" /\ a.worker \notin Struck => claimed[c]

BlamedOK ==
  \A c \in Calls :
    /\ tried[c] \subseteq ToBlame(c)
    /\ \A k \in DOMAIN att[c] : AttemptBlames(c, att[c][k])

(* An attempt that a step leaves alone.                                    *)
LEMMA BlameFrame ==
  ASSUME FaultsOK, HostsOK, [SystemNext]_systemVars, NEW c \in Calls, handler[c] # "idle",
         NEW a, AttemptBlames(c, a), claimed[c] => claimed'[c]
  PROVE  AttemptBlames(c, a)'
<1>1. steady'[c] \subseteq steady[c]
  BY SteadyShrinks
<1> QED
  BY <1>1, BlameStays, FaultsStep DEF AttemptBlames, Failed

(* An attempt that has just been launched.                                 *)
LEMMA BlameNobody ==
  ASSUME NEW c, NEW a, a.pc = "rpc"
  PROVE  AttemptBlames(c, a)'
BY DEF AttemptBlames, Failed

(* The attempt that moves, and whom the call has tried by then.            *)
LEMMA BlameMove ==
  ASSUME TypeOK, HostsOK, SteadyOK, RPCsOK, BlamedOK,
         NEW c \in Calls, NEW k \in DOMAIN att[c], NEW a \in Attempt, Move(c, k, a)
  PROVE  AttemptBlames(c, a)' /\ tried'[c] \subseteq ToBlame(c)'
<1>1. /\ AttemptBlames(c, att[c][k]) /\ tried[c] \subseteq ToBlame(c)
      /\ a.worker = att[c][k].worker /\ a.worker \in Workers /\ k \in Nat
  <2>1. att[c] \in Seq(Attempt)
    BY DEF TypeOK
  <2>2. k \in Nat /\ a.worker \in Workers
    BY <2>1 DEF Attempt
  <2> QED
    BY <2>2 DEF BlamedOK, Move
<1>2. UNCHANGED <<Struck, steady, ToBlame(c)>>
  BY DEF Move, Struck, ToBlame
<1>3. claimed[c] \in BOOLEAN
  BY DEF TypeOK
<1>4. CASE AnswerMove(c, k, a)
  BY <1>1, <1>2, <1>4 DEF AnswerMove, AttemptBlames, Failed
<1>5. CASE FailMove(c, k, a)
  <2>1. a.worker \in ToBlame(c)
    <3>1. CASE process[a.worker] # "up"
      BY <1>1, <3>1 DEF HostsOK, SteadyOK, ToBlame
    <3>2. CASE <<c, k>> \in late
      BY <1>1, <3>2 DEF RPCsOK
    <3> QED
      BY <1>1, <1>5, <3>1, <3>2 DEF FailMove, HostOf
  <2> QED
    BY <1>1, <1>2, <1>5, <2>1 DEF FailMove, AttemptBlames, ToBlame, Failed
<1>6. CASE SnapshotMove(c, k, a)
  <2>1. steady[c] \subseteq a.cands
    BY <1>1, <1>6 DEF SnapshotMove, SteadyOK, AttemptBlames, Failed, ToBlame
  <2> QED
    BY <1>1, <1>2, <1>6, <2>1 DEF SnapshotMove, AttemptBlames, Failed
<1>7. CASE DropMove(c, k, a)
  BY <1>1, <1>2, <1>7 DEF DropMove, AttemptBlames, Failed, ToBlame
<1>8. CASE ErrorMove(c, k, a)
  BY <1>1, <1>2, <1>8 DEF ErrorMove, AttemptBlames, Failed
<1>9. CASE SendMove(c, k, a)
  BY <1>1, <1>2, <1>9 DEF SendMove, AttemptBlames, Failed
<1> QED
  BY <1>4, <1>5, <1>6, <1>7, <1>8, <1>9 DEF Move

(* Every step keeps the blame where it belongs.                            *)
LEMMA BlamedStep ==
  ASSUME TypeOK, RacesOK, FaultsOK, HostsOK, SteadyOK, RPCsOK, BlamedOK, [SystemNext]_systemVars
  PROVE  BlamedOK'
<1>1. ASSUME NEW c \in Calls
      PROVE  tried'[c] \subseteq ToBlame(c)'
  <2>0. tried[c] \subseteq ToBlame(c)
    BY DEF BlamedOK
  <2>1. CASE Still(c)
    BY <2>0, <2>1, BlameStays DEF Still, SteadyOK
  <2>2. CASE Starts(c)
    BY <2>2 DEF Starts
  <2>3. ASSUME NEW w \in Workers, Rescued(c, w)
        PROVE  tried'[c] \subseteq ToBlame(c)'
    BY <2>0, <2>3 DEF Rescued, ToBlame, Struck
  <2>4. ASSUME NEW k \in DOMAIN att[c], NEW w \in Workers, Replaced(c, k, w)
        PROVE  tried'[c] \subseteq ToBlame(c)'
    BY <2>0, <2>4 DEF Replaced, ToBlame, Struck, BlamedOK, AttemptBlames, Failed
  <2>5. ASSUME NEW k \in DOMAIN att[c], NEW a \in Attempt, Move(c, k, a)
        PROVE  tried'[c] \subseteq ToBlame(c)'
    BY <2>5, BlameMove
  <2> QED
    BY <2>1, <2>2, <2>3, <2>4, <2>5, CallSteps
<1> SUFFICES ASSUME NEW c \in Calls, NEW i \in DOMAIN att'[c], NEW b, b = att'[c][i]
             PROVE  AttemptBlames(c, b)'
  BY <1>1 DEF BlamedOK, AttemptBlames, Failed
<1>2. /\ att[c] \in Seq(Attempt)
      /\ \A j \in DOMAIN att[c] : AttemptBlames(c, att[c][j])
  BY DEF TypeOK, BlamedOK
<1>3. ASSUME NEW j \in DOMAIN att[c], b = att[c][j], claimed[c] => claimed'[c]
      PROVE  AttemptBlames(c, b)'
  <2>1. handler[c] # "idle" /\ AttemptBlames(c, b)
    BY <1>2, <1>3 DEF RacesOK, RaceOK
  <2> QED
    BY <1>3, <2>1, BlameFrame
<1>4. CASE Still(c)
  BY <1>3, <1>4 DEF Still
<1>5. CASE Starts(c)
  BY <1>5, BlameNobody DEF Starts, Launch
<1>6. ASSUME NEW w \in Workers, Rescued(c, w)
      PROVE  AttemptBlames(c, b)'
  <2>1. claimed' = claimed /\ att'[c] = Append(att[c], Launch(w))
    BY <1>6 DEF Rescued
  <2>2. b.pc = "rpc" \/ (i \in DOMAIN att[c] /\ b = att[c][i])
    BY <1>2, <2>1, Appended
  <2> QED
    BY <1>3, <2>1, <2>2, BlameNobody
<1>7. ASSUME NEW k \in DOMAIN att[c], NEW w \in Workers, Replaced(c, k, w)
      PROVE  AttemptBlames(c, b)'
  <2>1. /\ UNCHANGED <<claimed, ToBlame(c)>> /\ att'[c] = Append(Retired(c, k), Launch(w))
        /\ Retired(c, k) \in Seq(Attempt) /\ DOMAIN Retired(c, k) = DOMAIN att[c]
    BY <1>2, <1>7 DEF Replaced, ToBlame, Struck
  <2>2. b.pc = "rpc" \/ (i \in DOMAIN att[c] /\ b = Retired(c, k)[i])
    BY <2>1, Appended
  <2>3. att[c][k].worker \in ToBlame(c)
    BY <1>2, <1>7 DEF Replaced, AttemptBlames, Failed
  <2>4. CASE b = Retired(c, k)[k]
    BY <1>7, <2>1, <2>3, <2>4 DEF Replaced, AttemptBlames, Failed, ToBlame
  <2>5. CASE i \in DOMAIN att[c] /\ i # k /\ b = Retired(c, k)[i]
    BY <1>3, <1>7, <2>1, <2>5 DEF Replaced
  <2> QED
    BY <2>2, <2>4, <2>5, BlameNobody
<1>8. ASSUME NEW k \in DOMAIN att[c], NEW a \in Attempt, Move(c, k, a)
      PROVE  AttemptBlames(c, b)'
  <2>1. /\ DOMAIN att'[c] = DOMAIN att[c] /\ att'[c][k] = a
        /\ \A j \in DOMAIN att[c] : j # k => att'[c][j] = att[c][j]
    BY <1>8, BecomesTyped DEF Move
  <2>2. claimed[c] => claimed'[c]
    BY <1>8 DEF Move, AnswerMove, FailMove, SnapshotMove, DropMove, ErrorMove, SendMove
  <2> QED
    BY <1>3, <1>8, <2>1, <2>2, BlameMove
<1> QED
  BY <1>4, <1>5, <1>6, <1>7, <1>8, CallSteps

----------------------------------------------------------------------------
(* What the gateway sees, as long as the control plane remembers.          *)

\* whoever nothing has happened to is registered once the gateway has seen it,
\* and is not missing from any reply
ViewOK ==
  ~Restarted =>
    /\ view \ Struck \subseteq registered
    /\ departed \subseteq Struck
    /\ polled # NoReply => view \ Struck \subseteq polled /\ polled \ Struck \subseteq registered

(* Besides the poll loop and a restart, only what happens to a worker can  *)
(* take it out of the registry.                                            *)
LEMMA Registry ==
  ASSUME FaultsOK, HostsOK, [SystemNext]_systemVars
  PROVE  \/ ListWorkers \/ ApplyPoll \/ Reroute \/ RestartControlPlane
         \/ /\ UNCHANGED <<view, departed, polled>>
            /\ registered \ Struck' \subseteq registered'
<1>1. CASE UNCHANGED <<view, departed, polled, registered>>
  BY <1>1
<1>2. ASSUME NEW c \in Calls, Handle(c)
      PROVE  UNCHANGED <<view, departed, polled, registered>>
  BY <1>2 DEF Handle, HandlerStep, BeginGenerate, GenerateWithoutId, GenerateWithoutWorkers, PickWorker,
              Registration, RegisterDuplicate, Register, Refuse, Receive, GiveUp, Unregister,
              pollVars, rosterVars
<1>3. ASSUME NEW c \in Calls, NEW k \in DOMAIN att[c], RPCStep(c, k)
      PROVE  UNCHANGED <<view, departed, polled, registered>>
  BY <1>3 DEF RPCStep, Accept, Answer, Unreachable, TimeOut, Release, AttemptSucceeds, AttemptFails,
              vars, pollVars, rosterVars
<1>4. ASSUME NEW c \in Calls, NEW k \in DOMAIN att[c], FinishAttempt(c, k)
      PROVE  UNCHANGED <<view, departed, polled, registered>>
  BY <1>4 DEF FinishAttempt, SnapshotCandidates, ReplaceAttempt, DropAttempt, SettleError, SendResult,
              pollVars, rosterVars
<1>5. ASSUME NEW w \in Workers, WorkerStep(w)
      PROVE  /\ UNCHANGED <<view, departed, polled>>
             /\ registered \ Struck' \subseteq registered'
  <2>1. UNCHANGED <<view, departed, polled>>
    BY <1>5 DEF WorkerStep, MembershipStep, Exit, Resume, Misjudge, Freeze, Terminate, Kill, Fault,
                vars, pollVars
  <2>2. CASE MembershipStep(w)
    <3>1. w \in Struck' \/ registered \subseteq registered'
      BY <2>2, FaultsStep DEF MembershipStep, HostsOK, CP!Ask, CP!Enter, CP!Drop, CP!Leave
    <3>2. registered \ {w} \subseteq registered'
      BY <2>2 DEF MembershipStep, CP!Ask, CP!Enter, CP!Drop, CP!Leave
    <3> QED
      BY <2>1, <3>1, <3>2
  <2>3. CASE Misjudge(w)
    <3>1. w \in Struck'
      BY <2>3 DEF Misjudge, Fault, Struck
    <3> QED
      BY <2>1, <2>3, <3>1 DEF Misjudge, CP!Drop
  <2>4. CASE Exit(w) \/ Resume(w) \/ Freeze(w) \/ Terminate(w) \/ Kill(w)
    BY <2>1, <2>4 DEF Exit, Resume, Freeze, Terminate, Kill, rosterVars, CP!Quit
  <2> QED
    BY <1>5, <2>2, <2>3, <2>4 DEF WorkerStep
<1>6. UNCHANGED systemVars => UNCHANGED <<view, departed, polled, registered>>
  BY DEF systemVars, vars, pollVars, rosterVars
<1> QED
  BY <1>1, <1>2, <1>3, <1>4, <1>5, <1>6 DEF SystemNext

(* Every step keeps the gateway informed of the unharmed workers.          *)
LEMMA ViewStep ==
  ASSUME FaultsOK, HostsOK, ViewOK, [SystemNext]_systemVars
  PROVE  ViewOK'
<1> SUFFICES ASSUME ~Restarted'
             PROVE  /\ view' \ Struck' \subseteq registered'
                    /\ departed' \subseteq Struck'
                    /\ polled' # NoReply => /\ view' \ Struck' \subseteq polled'
                                            /\ polled' \ Struck' \subseteq registered'
  BY DEF ViewOK
<1>1. /\ Struck \subseteq Struck'
      /\ view \ Struck \subseteq registered /\ departed \subseteq Struck
      /\ polled # NoReply => view \ Struck \subseteq polled /\ polled \ Struck \subseteq registered
  BY FaultsStep DEF ViewOK
<1>2. CASE ListWorkers
  BY <1>1, <1>2 DEF ListWorkers, vars, pollVars, rosterVars
<1>3. CASE ApplyPoll
  BY <1>1, <1>3 DEF ApplyPoll, PollOnce, departedIDs, rosterVars
<1>4. CASE Reroute
  BY <1>1, <1>4 DEF Reroute, RerouteFrom, rosterVars
<1>5. CASE RestartControlPlane
  BY <1>5 DEF RestartControlPlane, Fault, Restarted
<1>6. CASE UNCHANGED <<view, departed, polled>> /\ registered \ Struck' \subseteq registered'
  BY <1>1, <1>6
<1> QED
  BY <1>2, <1>3, <1>4, <1>5, <1>6, Registry

----------------------------------------------------------------------------
(* How often one fault makes a call launch, as long as the control plane   *)
(* remembers: the first attempt may be lost, a reroute rescues the call at *)
(* most once, and the fast path replaces the first attempt at most once.   *)

LaunchOK(c) ==
  /\ \A k \in DOMAIN att[c] : k # 1 => att[c][k].worker \notin Struck
  /\ Len(att[c]) >= 2 => assigned[c] \notin Struck
  /\ Len(att[c]) <= 2 \/ (Len(att[c]) = 3 /\ att[c][1].pc = "over")
  /\ faults = {} => Len(att[c]) <= 1

LaunchesOK == OneAtMost /\ ~Restarted => \A c \in Calls : LaunchOK(c)

(* The launch of an attempt at w, in addition to the others or in the      *)
(* place of the first.                                                     *)
LEMMA OneMore ==
  ASSUME NEW c \in Calls, att[c] \in Seq(Attempt), LaunchOK(c), UNCHANGED faults, faults # {},
         NEW s \in Seq(Attempt), NEW w \in Workers, w \notin Struck, Len(s) = Len(att[c]),
         \A k \in DOMAIN att[c] : s[k].worker = att[c][k].worker,
         att'[c] = Append(s, Launch(w)), assigned'[c] = w,
         Len(s) <= 1 \/ (Len(s) = 2 /\ s[1].pc = "over")
  PROVE  LaunchOK(c)'
<1>1. /\ att'[c] \in Seq(Attempt) /\ Len(att'[c]) = Len(s) + 1
      /\ DOMAIN att'[c] = DOMAIN s \cup {Len(s) + 1}
      /\ \A k \in DOMAIN s : att'[c][k] = s[k]
      /\ att'[c][Len(s) + 1].worker = w
  BY Appended, AppendAttempt
<1>2. Struck' = Struck
  BY DEF Struck
<1>3. DOMAIN s = DOMAIN att[c] /\ (Len(s) = 2 => 1 \in DOMAIN s) /\ Len(s) \in Nat
  OBVIOUS
<1>4. \A k \in DOMAIN att'[c] : k # 1 => att'[c][k].worker \notin Struck'
  BY <1>1, <1>2, <1>3 DEF LaunchOK
<1>5. Len(att'[c]) <= 2 \/ (Len(att'[c]) = 3 /\ att'[c][1].pc = "over")
  BY <1>1, <1>3
<1> QED
  BY <1>2, <1>4, <1>5 DEF LaunchOK

(* Every step keeps the launches few.                                      *)
LEMMA LaunchesStep ==
  ASSUME TypeOK, RacesOK, FaultsOK, HostsOK, BlamedOK, ViewOK, LaunchesOK, [SystemNext]_systemVars
  PROVE  LaunchesOK'
<1> SUFFICES ASSUME OneAtMost', ~Restarted', NEW c \in Calls
             PROVE  LaunchOK(c)'
  BY DEF LaunchesOK
<1>1. /\ OneAtMost /\ ~Restarted /\ LaunchOK(c)
      /\ UNCHANGED faults \/ faults = {}
  BY FirstFault, FaultsStep DEF LaunchesOK
<1>2. /\ \A v, w \in Struck : v = w
      /\ faults = {} => Struck = {}
  BY <1>1, OneFault
<1>3. att[c] \in Seq(Attempt)
  BY DEF TypeOK
<1>4. CASE ~UNCHANGED faults
  <2>1. UNCHANGED vars /\ faults = {}
    BY <1>1, <1>4, FaultOrNot
  <2>2. att'[c] = att[c] /\ assigned'[c] = assigned[c] /\ Len(att[c]) <= 1 /\ Len(att[c]) \in Nat
    BY <1>1, <1>3, <2>1 DEF vars, guardedVars, LaunchOK
  <2>3. \A k \in DOMAIN att[c] : k = 1
    BY <1>3, <2>2
  <2>4. faults' # {}
    BY <1>4, <2>1
  <2> QED
    BY <2>2, <2>3, <2>4 DEF LaunchOK
<1>5. CASE UNCHANGED faults
  <2>0. Struck' = Struck
    BY <1>5 DEF Struck
  <2>1. CASE Still(c)
    BY <1>1, <1>5, <2>0, <2>1 DEF Still, LaunchOK
  <2>2. CASE Starts(c)
    <3>1. Len(att'[c]) = 1 /\ DOMAIN att'[c] = {1}
      BY <2>2 DEF Starts
    <3> QED
      BY <3>1 DEF LaunchOK
  <2>3. ASSUME NEW w \in Workers, Rescued(c, w)
        PROVE  LaunchOK(c)'
    <3>1. /\ assigned[c] \in Struck /\ w \notin departed /\ assigned[c] \in departed
          /\ att'[c] = Append(att[c], Launch(w)) /\ assigned'[c] = w
      BY <1>1, <2>3 DEF Rescued, healthyExcept, ViewOK
    <3>2. w \notin Struck /\ faults # {}
      BY <1>2, <3>1
    <3>3. Len(att[c]) <= 1
      BY <1>1, <1>3, <3>1 DEF LaunchOK
    <3> QED
      BY <1>1, <1>3, <1>5, <3>1, <3>2, <3>3, OneMore
  <2>4. ASSUME NEW k \in DOMAIN att[c], NEW w \in Workers, Replaced(c, k, w)
        PROVE  LaunchOK(c)'
    <3>1. att[c][k].worker \in Struck
      BY <2>4 DEF Replaced, BlamedOK, AttemptBlames, Failed, ToBlame
    <3>2. k = 1
      BY <1>1, <3>1 DEF LaunchOK
    <3>3. w # att[c][k].worker
      BY <2>4 DEF Replaced, Eligible
    <3>4. w \notin Struck /\ faults # {}
      BY <1>2, <3>1, <3>3
    <3>5. Len(att[c]) <= 2 /\ Len(att[c]) \in Nat
      BY <1>1, <1>3, <2>4, <3>2 DEF LaunchOK, Replaced
    <3>6. /\ Retired(c, k) \in Seq(Attempt) /\ Len(Retired(c, k)) = Len(att[c])
          /\ Retired(c, k)[1].pc = "over"
          /\ \A j \in DOMAIN att[c] : Retired(c, k)[j].worker = att[c][j].worker
          /\ att'[c] = Append(Retired(c, k), Launch(w)) /\ assigned'[c] = w
      BY <2>4, <3>2 DEF Replaced
    <3>7. Len(att[c]) <= 1 \/ Len(att[c]) = 2
      <4>1. \A n \in Nat : n <= 2 => n <= 1 \/ n = 2
        OBVIOUS
      <4> QED
        BY <3>5, <4>1
    <3> QED
      BY <1>1, <1>3, <1>5, <3>4, <3>6, <3>7, OneMore
  <2>5. ASSUME NEW k \in DOMAIN att[c], NEW a \in Attempt, Move(c, k, a)
        PROVE  LaunchOK(c)'
    <3>1. /\ DOMAIN att'[c] = DOMAIN att[c] /\ Len(att'[c]) = Len(att[c])
          /\ att'[c][k] = a /\ a.worker = att[c][k].worker
          /\ \A j \in DOMAIN att[c] : j # k => att'[c][j] = att[c][j]
          /\ assigned' = assigned
      BY <2>5, BecomesTyped DEF Move
    <3>2. att[c][k].pc # "over"
      BY <2>5 DEF Move, AnswerMove, FailMove, SnapshotMove, DropMove, ErrorMove, SendMove
    <3>3. att[c][1].pc = "over" /\ Len(att[c]) = 3 => att'[c][1].pc = "over"
      BY <1>3, <3>1, <3>2
    <3>4. \A j \in DOMAIN att[c] : att'[c][j].worker = att[c][j].worker
      BY <3>1
    <3>5. \A j \in DOMAIN att'[c] : j # 1 => att'[c][j].worker \notin Struck'
      BY <1>1, <2>0, <3>1, <3>4 DEF LaunchOK
    <3> QED
      BY <1>1, <1>5, <2>0, <3>1, <3>3, <3>5 DEF LaunchOK
  <2> QED
    BY <2>1, <2>2, <2>3, <2>4, <2>5, CallSteps
<1> QED
  BY <1>4, <1>5

----------------------------------------------------------------------------
(* The control plane has forgotten everyone, and that is the one fault:    *)
(* the gateway may see a poll or two without the workers, and reroute each *)
(* call once for it.                                                       *)

FewLaunches(n) == \A c \in Calls : Len(att[c]) <= n

ForgottenOK ==
  OneAtMost /\ Restarted =>
    /\ FewLaunches(2)
    /\ departed # {} => FewLaunches(1)
    /\ \/ /\ view \subseteq registered
          /\ polled # NoReply => view \subseteq polled /\ polled \subseteq registered
       \/ /\ departed = {} /\ FewLaunches(1)
          /\ polled # NoReply => polled \subseteq registered \/ view \subseteq polled

(* With nobody to blame nobody is replaced, and calls gain their first     *)
(* attempt only, but for a reroute.                                        *)
LEMMA ForgottenLaunches ==
  ASSUME TypeOK, RacesOK, BlamedOK, [SystemNext]_systemVars, Struck = {}, NEW c \in Calls
  PROVE  \/ Len(att'[c]) = Len(att[c]) \/ Len(att'[c]) = 1
         \/ Reroute /\ Len(att'[c]) = Len(att[c]) + 1
<1>1. att[c] \in Seq(Attempt)
  BY DEF TypeOK
<1>2. CASE Still(c)
  BY <1>2 DEF Still
<1>3. CASE Starts(c)
  BY <1>3 DEF Starts
<1>4. ASSUME NEW w \in Workers, Rescued(c, w)
      PROVE  Reroute /\ Len(att'[c]) = Len(att[c]) + 1
  BY <1>1, <1>4, AppendAttempt DEF Rescued
<1>5. ASSUME NEW k \in DOMAIN att[c], NEW w \in Workers, Replaced(c, k, w)
      PROVE  FALSE
  BY <1>5 DEF Replaced, BlamedOK, AttemptBlames, Failed, ToBlame
<1>6. ASSUME NEW k \in DOMAIN att[c], NEW a \in Attempt, Move(c, k, a)
      PROVE  Len(att'[c]) = Len(att[c])
  BY <1>6, BecomesTyped DEF Move
<1> QED
  BY <1>2, <1>3, <1>4, <1>5, <1>6, CallSteps

(* Every step keeps them few after a restart.                              *)
LEMMA ForgottenStep ==
  ASSUME TypeOK, RacesOK, FaultsOK, HostsOK, BlamedOK, ViewOK, LaunchesOK, ForgottenOK,
         [SystemNext]_systemVars
  PROVE  ForgottenOK'
<1> SUFFICES ASSUME OneAtMost', Restarted'
             PROVE  /\ FewLaunches(2)'
                    /\ departed' # {} => FewLaunches(1)'
                    /\ \/ /\ view' \subseteq registered'
                          /\ polled' # NoReply => view' \subseteq polled' /\ polled' \subseteq registered'
                       \/ /\ departed' = {} /\ FewLaunches(1)'
                          /\ polled' # NoReply => polled' \subseteq registered' \/ view' \subseteq polled'
  BY DEF ForgottenOK
<1>1. /\ OneAtMost /\ FaultsOK'
      /\ UNCHANGED faults \/ faults = {}
      /\ \A c \in Calls : Len(att[c]) \in Nat
  BY FirstFault, FaultsStep DEF TypeOK
<1>2. Struck' = {}
  <2>1. (Restarted => Struck = {})'
    BY <1>1, OneFault, PTL
  <2> QED
    BY <2>1
<1>3. CASE ~UNCHANGED faults
  <2>1. faults = {} /\ UNCHANGED <<vars, polled>> /\ RestartControlPlane
    <3>1. /\ faults = {} /\ UNCHANGED <<vars, polled>>
          /\ \/ \E w \in Workers : Misjudge(w) \/ Freeze(w) \/ Terminate(w) \/ Kill(w)
             \/ RestartControlPlane
      BY <1>1, <1>3, FaultOrNot
    <3>2. ASSUME NEW w \in Workers, Misjudge(w) \/ Freeze(w) \/ Terminate(w) \/ Kill(w)
          PROVE  w \in Struck'
      BY <3>2 DEF Misjudge, Freeze, Terminate, Kill, Fault, Struck
    <3> QED
      BY <1>2, <3>1, <3>2
  <2>2. Struck = {} /\ ~Restarted
    BY <2>1 DEF Struck, Restarted
  <2>3. departed = {} /\ (polled # NoReply => view \subseteq polled)
    BY <2>2 DEF ViewOK
  <2>4. UNCHANGED <<view, departed, att, polled>>
    BY <2>1 DEF vars, pollVars
  <2>5. \A c \in Calls : Len(att'[c]) <= 1 /\ Len(att'[c]) <= 2
    BY <1>1, <2>1, <2>2, <2>4 DEF LaunchesOK, LaunchOK
  <2> QED
    BY <2>3, <2>4, <2>5 DEF FewLaunches
<1>4. CASE UNCHANGED faults
  <2>1. /\ Restarted /\ Struck = {}
        /\ FewLaunches(2)
        /\ departed # {} => FewLaunches(1)
        /\ \/ /\ view \subseteq registered
              /\ polled # NoReply => view \subseteq polled /\ polled \subseteq registered
           \/ /\ departed = {} /\ FewLaunches(1)
              /\ polled # NoReply => polled \subseteq registered \/ view \subseteq polled
    BY <1>1, <1>2, <1>4 DEF Restarted, Struck, ForgottenOK
  <2> DEFINE Grows(c) == \/ Len(att'[c]) = Len(att[c]) \/ Len(att'[c]) = 1
                         \/ Reroute /\ Len(att'[c]) = Len(att[c]) + 1
  <2>2. \A c \in Calls : Len(att[c]) \in Nat /\ Grows(c)
    BY <1>1, <2>1, ForgottenLaunches
  <2>3. ASSUME NEW m \in Nat, NEW n, n = m \/ n = 1
        PROVE  m <= 1 => n <= 1 /\ n <= 2
    BY <2>3
  <2>4. ASSUME NEW m \in Nat, NEW n, n = m \/ n = 1
        PROVE  m <= 2 => n <= 2
    BY <2>4
  <2>5. ASSUME NEW m \in Nat, NEW n, n = m + 1
        PROVE  m <= 1 => n <= 2
    BY <2>5
  <2>6. CASE Reroute
    <3>1. departed # {} /\ departed' = {} /\ UNCHANGED <<view, polled, registered>>
      BY <2>6 DEF Reroute, RerouteFrom, rosterVars
    <3>2. FewLaunches(1)
      BY <2>1, <3>1
    <3>3. \A c \in Calls : Len(att'[c]) <= 2
      BY <2>2, <2>3, <2>5, <3>2 DEF FewLaunches
    <3> QED
      BY <2>1, <3>1, <3>3 DEF FewLaunches
  <2>7. CASE ~Reroute
    <3>1. FewLaunches(2)' /\ (FewLaunches(1) => FewLaunches(1)')
      <4>1. FewLaunches(2)
        BY <2>1
      <4> QED
        BY <2>7, <2>2, <2>3, <2>4, <4>1 DEF FewLaunches
    <3>2. CASE ListWorkers
      BY <2>1, <3>1, <3>2 DEF ListWorkers, vars, pollVars, rosterVars
    <3>3. CASE ApplyPoll
      BY <2>1, <3>1, <3>3 DEF ApplyPoll, PollOnce, departedIDs, rosterVars
    <3>4. CASE UNCHANGED <<view, departed, polled>> /\ registered \ Struck' \subseteq registered'
      BY <1>2, <2>1, <3>1, <3>4
    <3>5. ~RestartControlPlane
      BY <1>4 DEF RestartControlPlane, Fault
    <3> QED
      BY <2>7, <3>2, <3>3, <3>4, <3>5, Registry
  <2> QED
    BY <2>6, <2>7
<1> QED
  BY <1>3, <1>4

----------------------------------------------------------------------------
(* The waiting client.                                                     *)

\* no error is decided on, or about to be, for a call with a steady worker
Unhurt ==
  OneAtMost /\ MaxAttempts >= 2 =>
    \A c \in Calls : steady[c] # {} =>
      \A k \in DOMAIN att[c] :
        att[c][k].pc # "settling" /\ (Winner(c, k) => att[c][k].res = "ok")

(* Two different things are two.                                           *)
LEMMA Pair ==
  ASSUME NEW a, NEW b, a # b
  PROVE  IsFiniteSet({a, b}) /\ Cardinality({a, b}) = 2
<1>1. IsFiniteSet({a}) /\ Cardinality({a}) = 1
  BY FS_Singleton
<1>2. IsFiniteSet({a} \cup {b}) /\ Cardinality({a} \cup {b}) = 2
  BY <1>1, FS_AddElement
<1>3. {a} \cup {b} = {a, b}
  OBVIOUS
<1> QED
  BY <1>2, <1>3

(* A call with a steady worker that cannot be replaced has spent a second  *)
(* attempt, on a worker nothing has happened to, and that attempt is still *)
(* on the gauge, in the air or with the answer.                            *)
LEMMA NeverTheLast ==
  ASSUME TypeOK, RacesOK, FaultsOK, BlamedOK, LaunchesOK, GaugeCountsLiveAttempts,
         BudgetBoundsLaunches, AnswersCount, Unhurt, OneAtMost, MaxAttempts >= 2,
         NEW c \in Calls, steady[c] # {}, NEW k \in DOMAIN att[c],
         att[c][k].pc = "snapped", Eligible(c, k) = {}
  PROVE  ~LastInTheAir(c)
<1>1. att[c] \in Seq(Attempt) /\ attempts[c] \in Int
  BY DEF TypeOK
<1>2. att[c][k].worker \in ToBlame(c) /\ steady[c] \subseteq att[c][k].cands
  BY DEF BlamedOK, AttemptBlames, Failed
<1>3. att[c][k].cands \ (tried[c] \cup {att[c][k].worker}) # {}
  BY <1>2 DEF BlamedOK, ToBlame
<1>4. ~(dispatched[c] < MaxAttempts)
  BY <1>3 DEF Eligible
<1>5. Len(att[c]) >= 2
  BY <1>1, <1>4, GatewayAssumption DEF BudgetBoundsLaunches, TypeOK
<1>6. ~Restarted
  BY <1>2, OneFault DEF ToBlame
<1>7. k = 1 /\ 2 \in DOMAIN att[c] /\ att[c][2].worker \notin Struck
  BY <1>1, <1>2, <1>5, <1>6 DEF LaunchesOK, LaunchOK, ToBlame
<1>8. IsFiniteSet(Live(c)) /\ LiveCount(c) \in Nat /\ 1 \in Live(c)
  BY <1>1, <1>7, LiveIsFinite DEF Live, InTheAir
<1>9. attempts[c] >= LiveCount(c)
  BY DEF GaugeCountsLiveAttempts, LiveCount
<1>10. CASE 2 \in Live(c)
  <2>1. {1, 2} \subseteq Live(c)
    BY <1>8, <1>10
  <2>2. Cardinality({1, 2}) <= LiveCount(c)
    BY <1>8, <2>1, FS_Subset DEF LiveCount
  <2>3. Cardinality({1, 2}) = 2
    BY 1 # 2, Pair
  <2> QED
    BY <1>1, <1>8, <1>9, <2>2, <2>3 DEF LastInTheAir
<1>11. CASE 2 \notin Live(c)
  <2>1. ~InTheAir(att[c][2]) /\ att[c][2] \in Attempt /\ ~Failed(att[c][2])
    BY <1>1, <1>7, <1>11 DEF Live, BlamedOK, AttemptBlames, ToBlame
  <2>2. att[c][2].pc = "over" \/ Winner(c, 2)
    BY <2>1 DEF InTheAir, Failed, Attempt, Phases, Winner
  <2>3. claimed[c]
    BY <1>7, <2>2 DEF BlamedOK, AttemptBlames, RacesOK, RaceOK
  <2>4. PICK j \in DOMAIN att[c] : Winner(c, j)
    BY <2>3 DEF RacesOK, RaceOK
  <2>5. Answered(c)
    BY <2>4 DEF Unhurt, Answered
  <2>6. attempts[c] > LiveCount(c)
    BY <2>5 DEF AnswersCount, AnswerCounts
  <2>7. LiveCount(c) # 0
    BY <1>8, FS_EmptySet DEF LiveCount
  <2> QED
    BY <1>1, <1>8, <2>6, <2>7 DEF LastInTheAir
<1> QED
  BY <1>10, <1>11

(* Every step keeps the errors away from calls with a steady worker.       *)
LEMMA UnhurtStep ==
  ASSUME TypeOK, RacesOK, FaultsOK, HostsOK, SteadyOK, BlamedOK, LaunchesOK,
         GaugeCountsLiveAttempts, BudgetBoundsLaunches, AnswersCount, Unhurt, [SystemNext]_systemVars
  PROVE  Unhurt'
<1> DEFINE Hurt(a) == a.pc = "settling" \/ (a.pc \in {"sending", "won"} /\ a.res # "ok")
<1> SUFFICES ASSUME OneAtMost', MaxAttempts >= 2, NEW c \in Calls, steady'[c] # {},
                    NEW i \in DOMAIN att'[c], NEW b, b = att'[c][i]
             PROVE  ~Hurt(b)
  BY DEF Unhurt, Winner
<1>1. OneAtMost /\ att[c] \in Seq(Attempt)
  BY FirstFault DEF TypeOK
<1>2. steady[c] # {} \/ att[c] = << >>
  BY SteadyShrinks DEF RacesOK, RaceOK
<1>3. ASSUME NEW j \in DOMAIN att[c]
      PROVE  steady[c] # {} /\ ~Hurt(att[c][j])
  <2>1. steady[c] # {}
    BY <1>2, <1>3
  <2> QED
    BY <1>1, <2>1 DEF Unhurt, Winner
<1>4. CASE Still(c)
  BY <1>3, <1>4 DEF Still
<1>5. CASE Starts(c)
  BY <1>5 DEF Starts, Launch
<1>6. ASSUME NEW w \in Workers, Rescued(c, w)
      PROVE  ~Hurt(b)
  <2>1. b.pc = "rpc" \/ (i \in DOMAIN att[c] /\ b = att[c][i])
    BY <1>1, <1>6, Appended DEF Rescued
  <2> QED
    BY <1>3, <2>1
<1>7. ASSUME NEW k \in DOMAIN att[c], NEW w \in Workers, Replaced(c, k, w)
      PROVE  ~Hurt(b)
  <2>1. /\ Retired(c, k) \in Seq(Attempt) /\ DOMAIN Retired(c, k) = DOMAIN att[c]
        /\ att'[c] = Append(Retired(c, k), Launch(w))
    BY <1>1, <1>7 DEF Replaced
  <2>2. b.pc = "rpc" \/ (i \in DOMAIN att[c] /\ b = Retired(c, k)[i])
    BY <2>1, Appended
  <2>3. CASE i = k /\ b = Retired(c, k)[i]
    BY <1>7, <2>3 DEF Replaced
  <2>4. CASE i \in DOMAIN att[c] /\ i # k /\ b = Retired(c, k)[i]
    BY <1>3, <1>7, <2>4 DEF Replaced
  <2> QED
    BY <2>2, <2>3, <2>4
<1>8. ASSUME NEW k \in DOMAIN att[c], NEW a \in Attempt, Move(c, k, a)
      PROVE  ~Hurt(b)
  <2>1. /\ DOMAIN att'[c] = DOMAIN att[c] /\ att'[c][k] = a
        /\ \A j \in DOMAIN att[c] : j # k => att'[c][j] = att[c][j]
    BY <1>8, BecomesTyped DEF Move
  <2>2. steady[c] # {} /\ ~Hurt(att[c][k])
    BY <1>3
  <2>3. DropMove(c, k, a) => ~Hurt(a)
    BY <1>1, <2>2, NeverTheLast DEF DropMove
  <2>4. ~Hurt(a)
    BY <1>8, <2>2, <2>3 DEF Move, AnswerMove, FailMove, SnapshotMove, ErrorMove, SendMove
  <2> QED
    BY <1>3, <2>1, <2>4
<1> QED
  BY <1>4, <1>5, <1>6, <1>7, <1>8, CallSteps

----------------------------------------------------------------------------
(* The waiting client, however many faults there are.                      *)

Erred(a) == a.pc = "settling" \/ (a.pc \in {"sending", "won"} /\ a.res # "ok")

\* whatever error is decided on, or about to be, for a call with a steady
\* worker, is the exhausted budget, and the budget is exhausted
Spent ==
  \A c \in Calls : steady[c] # {} =>
    \A k \in DOMAIN att[c] :
      Erred(att[c][k]) => att[c][k].res = "exhausted" /\ Len(att[c]) = MaxAttempts

(* A call that cannot be replaced though it has a steady worker has no     *)
(* attempt left to launch.                                                 *)
LEMMA NoneToLaunch ==
  ASSUME TypeOK, BlamedOK, BudgetBoundsLaunches,
         NEW c \in Calls, steady[c] # {}, NEW k \in DOMAIN att[c],
         att[c][k].pc = "snapped", Eligible(c, k) = {}
  PROVE  Len(att[c]) = MaxAttempts
<1>1. att[c] \in Seq(Attempt) /\ MaxAttempts \in Nat
  BY GatewayAssumption DEF TypeOK
<1>2. att[c][k].worker \in ToBlame(c) /\ steady[c] \subseteq att[c][k].cands
  BY DEF BlamedOK, AttemptBlames, Failed
<1>3. att[c][k].cands \ (tried[c] \cup {att[c][k].worker}) # {}
  BY <1>2 DEF BlamedOK, ToBlame
<1>4. ~(dispatched[c] < MaxAttempts)
  BY <1>3 DEF Eligible
<1> QED
  BY <1>1, <1>4 DEF BudgetBoundsLaunches

(* Once decided, or with a budget spent, a call launches nothing more.     *)
LEMMA SpentStep ==
  ASSUME TypeOK, TypeOK', RacesOK, FaultsOK, HostsOK, BlamedOK,
         BudgetBoundsLaunches, BudgetBoundsLaunches', Spent, [SystemNext]_systemVars
  PROVE  Spent'
<1> SUFFICES ASSUME NEW c \in Calls, steady'[c] # {},
                    NEW i \in DOMAIN att'[c], NEW b, b = att'[c][i], Erred(b)
             PROVE  b.res = "exhausted" /\ Len(att'[c]) = MaxAttempts
  BY DEF Spent
<1>1. /\ att[c] \in Seq(Attempt) /\ MaxAttempts \in Nat
      /\ Len(att[c]) \in Nat /\ Len(att'[c]) \in Nat
      /\ Len(att'[c]) <= MaxAttempts
  BY GatewayAssumption DEF TypeOK, BudgetBoundsLaunches
<1>2. steady[c] # {} \/ att[c] = << >>
  BY SteadyShrinks DEF RacesOK, RaceOK
<1>3. ASSUME NEW j \in DOMAIN att[c], b = att[c][j], Len(att'[c]) >= Len(att[c])
      PROVE  b.res = "exhausted" /\ Len(att'[c]) = MaxAttempts
  <2>1. steady[c] # {}
    BY <1>2, <1>3
  <2>2. b.res = "exhausted" /\ Len(att[c]) = MaxAttempts
    BY <1>3, <2>1 DEF Spent
  <2> QED
    BY <1>1, <1>3, <2>2
<1>4. CASE Still(c)
  BY <1>1, <1>3, <1>4 DEF Still
<1>5. CASE Starts(c)
  BY <1>5 DEF Starts, Launch, Erred
<1>6. ASSUME NEW w \in Workers, Rescued(c, w)
      PROVE  b.res = "exhausted" /\ Len(att'[c]) = MaxAttempts
  <2>1. b.pc = "rpc" \/ (i \in DOMAIN att[c] /\ b = att[c][i])
    BY <1>1, <1>6, Appended DEF Rescued
  <2>2. Len(att'[c]) = Len(att[c]) + 1
    BY <1>1, <1>6, AppendAttempt DEF Rescued
  <2> QED
    BY <1>1, <1>3, <2>1, <2>2 DEF Erred
<1>7. ASSUME NEW k \in DOMAIN att[c], NEW w \in Workers, Replaced(c, k, w)
      PROVE  b.res = "exhausted" /\ Len(att'[c]) = MaxAttempts
  <2>0. /\ Retired(c, k) \in Seq(Attempt) /\ DOMAIN Retired(c, k) = DOMAIN att[c]
        /\ att'[c] = Append(Retired(c, k), Launch(w)) /\ Len(Retired(c, k)) = Len(att[c])
    BY <1>1, <1>7 DEF Replaced
  <2>1. Len(att'[c]) = Len(att[c]) + 1
    BY <2>0, AppendAttempt
  <2>2. b.pc = "rpc" \/ (i \in DOMAIN att[c] /\ b = Retired(c, k)[i])
    BY <2>0, Appended
  <2>3. i \in DOMAIN att[c] /\ i # k /\ b = att[c][i]
    BY <1>7, <2>2 DEF Replaced, Erred
  <2> QED
    BY <1>1, <1>3, <2>1, <2>3
<1>8. ASSUME NEW k \in DOMAIN att[c], NEW a \in Attempt, Move(c, k, a)
      PROVE  b.res = "exhausted" /\ Len(att'[c]) = MaxAttempts
  <2>1. /\ DOMAIN att'[c] = DOMAIN att[c] /\ att'[c][k] = a
        /\ \A j \in DOMAIN att[c] : j # k => att'[c][j] = att[c][j]
        /\ Len(att'[c]) = Len(att[c])
    BY <1>8, BecomesTyped DEF Move
  <2>2. CASE i # k
    BY <1>1, <1>3, <2>1, <2>2
  <2>3. CASE i = k
    <3>1. steady[c] # {} /\ b = a
      BY <1>2, <2>1, <2>3
    <3>2. CASE DropMove(c, k, a)
      <4>1. Len(att[c]) = MaxAttempts
        BY <3>1, <3>2, NoneToLaunch DEF DropMove
      <4> QED
        BY <2>1, <3>1, <3>2, <4>1 DEF DropMove, Erred
    <3>3. CASE ErrorMove(c, k, a) \/ SendMove(c, k, a)
      <4>1. Erred(att[c][k]) /\ a.res = att[c][k].res
        BY <3>1, <3>3 DEF ErrorMove, SendMove, Erred
      <4> QED
        BY <2>1, <3>1, <4>1 DEF Spent
    <3>4. CASE AnswerMove(c, k, a) \/ FailMove(c, k, a) \/ SnapshotMove(c, k, a)
      BY <3>1, <3>4 DEF AnswerMove, FailMove, SnapshotMove, Erred
    <3> QED
      BY <1>8, <3>2, <3>3, <3>4 DEF Move
  <2> QED
    BY <2>2, <2>3
<1> QED
  BY <1>4, <1>5, <1>6, <1>7, <1>8, CallSteps

----------------------------------------------------------------------------
(* The theorems.                                                           *)

HostInv == FaultsOK /\ HostsOK /\ SteadyOK /\ RPCsOK /\ BlamedOK

OneFaultInv == ViewOK /\ LaunchesOK /\ ForgottenOK /\ Unhurt

(* The gateway's own invariants, in the system.                            *)
GatewayInv ==
  /\ TypeOK /\ RacesOK /\ GaugeCountsLiveAttempts /\ BudgetBoundsLaunches /\ AnswersCount

(* They hold there, because the system takes only steps of the gateway.    *)
LEMMA GatewayInvHolds == SystemSpec => []GatewayInv
<1>1. TypeOK /\ RacesOK /\ GaugeCountsLiveAttempts /\ BudgetBoundsLaunches /\ AnswersCount => GatewayInv
  BY DEF GatewayInv
<1> QED
  BY <1>1, SystemIsGateway, TypeCorrect, RacesHold, GaugeIsRight, BudgetHolds, AnsweredIsCounted, PTL

(* A worker is not running, or blamed for an attempt, only if something    *)
(* has happened to it, and a worker that is steady for a call is never     *)
(* blamed by that call: for any number of faults.                          *)
THEOREM OnlyStruckAreBlamed == SystemSpec => []HostInv
<1>1. SystemInit => HostInv
  <2> SUFFICES ASSUME SystemInit
               PROVE  HostInv
    OBVIOUS
  <2> USE DEF SystemInit, Init
  <2>1. FaultsOK
    BY FS_EmptySet DEF FaultsOK
  <2>2. HostsOK /\ SteadyOK
    BY DEF HostsOK, SteadyOK
  <2>3. RPCsOK /\ BlamedOK
    BY DEF RPCsOK, BlamedOK
  <2> QED
    BY <2>1, <2>2, <2>3 DEF HostInv
<1>2. GatewayInv /\ HostInv /\ [SystemNext]_systemVars => HostInv'
  BY FaultsStep, HostsStep, SteadyStep, RPCsStep, BlamedStep DEF GatewayInv, HostInv
<1> QED
  BY <1>1, <1>2, GatewayInvHolds, PTL DEF SystemSpec

(* maxAttempts, "a correctness bound, not a tuning knob" (tracker.go), is  *)
(* the only reason for an error: however many faults strike, and in        *)
(* whatever order, a waiting client that has a steady worker is told of    *)
(* nothing but an exhausted budget, and not before all of it is launched.  *)
GivenUpOnBudgetOnly ==
  \A c \in Calls :
    handler[c] = "waiting" /\ steady[c] # {} =>
      /\ ~Decided(c, {"terminal"})
      /\ Decided(c, {"exhausted"}) => dispatched[c] = MaxAttempts

THEOREM OnlyTheBudgetGivesUp == SystemSpec => []GivenUpOnBudgetOnly
<1>1. SystemInit => Spent
  BY DEF SystemInit, Init, Spent
<1>2. GatewayInv /\ GatewayInv' /\ HostInv /\ Spent /\ [SystemNext]_systemVars => Spent'
  BY SpentStep DEF GatewayInv, HostInv
<1>3. GatewayInv /\ Spent => GivenUpOnBudgetOnly
  BY DEF GatewayInv, Spent, Erred, GivenUpOnBudgetOnly, Decided, BudgetBoundsLaunches
<1> QED
  BY <1>1, <1>2, <1>3, GatewayInvHolds, OnlyStruckAreBlamed, PTL DEF SystemSpec

(* What one fault can do to views, launches and waiting clients.           *)
LEMMA OneFaultHolds == SystemSpec => []OneFaultInv
<1>1. SystemInit => OneFaultInv
  <2> SUFFICES ASSUME SystemInit
               PROVE  OneFaultInv
    OBVIOUS
  <2> USE DEF SystemInit, Init
  <2>1. ViewOK /\ ForgottenOK
    BY DEF ViewOK, ForgottenOK, Restarted
  <2>2. LaunchesOK /\ Unhurt
    BY DEF LaunchesOK, LaunchOK, Unhurt
  <2> QED
    BY <2>1, <2>2 DEF OneFaultInv
<1>2. GatewayInv /\ HostInv /\ OneFaultInv /\ [SystemNext]_systemVars => OneFaultInv'
  BY ViewStep, LaunchesStep, ForgottenStep, UnhurtStep DEF GatewayInv, HostInv, OneFaultInv
<1> QED
  BY <1>1, <1>2, GatewayInvHolds, OnlyStruckAreBlamed, PTL DEF SystemSpec

(* Zero-loss rerouting (README): with one fault at most, a waiting client  *)
(* that has a steady worker is never told an error, whatever the fault and *)
(* whenever it strikes.  One attempt would not do; maxAttempts is 3.       *)
THEOREM OneFaultCostsNoAnswer ==
  ASSUME MaxAttempts >= 2
  PROVE  SystemSpec => []OneFaultIsSurvived
<1>1. OneFaultInv => OneFaultIsSurvived
  BY DEF OneFaultInv, Unhurt, OneAtMost, OneFaultIsSurvived, Decided, Winner
<1> QED
  BY <1>1, OneFaultHolds, PTL

(* "Attempts in flight" (README): with one fault at most, no more than two *)
(* workers compute a request at a time, however large the budget.          *)
THEOREM OneFaultDoublesAtMost == SystemSpec => []OneFaultComputesTwice
<1>1. ASSUME GatewayInv, HostInv, OneFaultInv, OneAtMost, NEW c \in Calls
      PROVE  Cardinality(Computing(c)) <= 2
  <2>1. att[c] \in Seq(Attempt)
    BY <1>1 DEF GatewayInv, TypeOK
  <2>2. \A k \in Computing(c) : k \in DOMAIN att[c] /\ k \in Nat /\ att[c][k].pc = "rpc"
    BY <1>1, <2>1 DEF HostInv, RPCsOK, Computing
  <2>3. Len(att[c]) <= 2 \/ (Len(att[c]) = 3 /\ att[c][1].pc = "over")
    BY <1>1 DEF OneFaultInv, LaunchesOK, LaunchOK, ForgottenOK, FewLaunches
  <2>4. Computing(c) \subseteq {1, 2} \/ Computing(c) \subseteq {2, 3}
    BY <2>1, <2>2, <2>3
  <2>5. \A S \in {{1, 2}, {2, 3}} : IsFiniteSet(S) /\ Cardinality(S) = 2
    <3>1. IsFiniteSet({1, 2}) /\ Cardinality({1, 2}) = 2
      BY 1 # 2, Pair
    <3>2. IsFiniteSet({2, 3}) /\ Cardinality({2, 3}) = 2
      BY 2 # 3, Pair
    <3> QED
      BY <3>1, <3>2
  <2>6. PICK S \in {{1, 2}, {2, 3}} : Computing(c) \subseteq S
    BY <2>4
  <2>7. Cardinality(Computing(c)) <= Cardinality(S)
    BY <2>5, <2>6, FS_Subset
  <2> QED
    BY <2>5, <2>7
<1>2. GatewayInv /\ HostInv /\ OneFaultInv => OneFaultComputesTwice
  BY <1>1 DEF OneFaultComputesTwice, OneAtMost
<1> QED
  BY <1>2, GatewayInvHolds, OnlyStruckAreBlamed, OneFaultHolds, PTL
=============================================================================

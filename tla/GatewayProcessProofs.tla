------------------------ MODULE GatewayProcessProofs ------------------------
(***************************************************************************)
(* Theorems of GatewayProcess: the process adds no behaviour to Gateway,   *)
(* so that Gateway's theorems hold of it, and its shutdown cuts nobody     *)
(* off, for every set of workers, calls and ids and every budget.          *)
(***************************************************************************)
EXTENDS GatewayProcess, GatewayRefinementProofs

(* Every step of the process is a step of Gateway or leaves it alone.      *)
LEMMA ProcessStep == [ProcessNext]_allVars => [Next]_vars
<1> SUFFICES ASSUME ProcessNext PROVE [Next]_vars
  BY DEF allVars
<1>1. CASE Poll \/ Reroute
  BY <1>1 DEF Poll, Reroute, Next, PollStep
<1>2. CASE Shutdown \/ PollLoopReturns \/ Close
  BY <1>2 DEF Shutdown, PollLoopReturns, Close
<1>3. ASSUME NEW c \in Calls, BeginCall(c) \/ ServeCall(c) \/ AbandonCall(c)
      PROVE  [Next]_vars
  BY <1>3 DEF BeginCall, ServeCall, AbandonCall, Next, HandlerStep, BeginGenerate, Registration
<1>4. ASSUME NEW c \in Calls, NEW k \in DOMAIN att[c], ProcessAttemptStep(c, k)
      PROVE  [Next]_vars
  <2>1. CASE ConnFor(c, k)
    BY <2>1 DEF ConnFor
  <2>2. CASE Returns(c, k)
    <3>1. AttemptSucceeds(c, k) \/ \E err \in ErrorCodes : AttemptFails(c, k, err)
      BY <2>2 DEF Returns, ErrorCodes
    <3> QED
      BY <3>1 DEF Next, AttemptStep
  <2>3. CASE FinishAttempt(c, k)
    BY <2>3 DEF FinishAttempt, Next, AttemptStep
  <2> QED
    BY <1>4, <2>1, <2>2, <2>3 DEF ProcessAttemptStep
<1> QED
  BY <1>1, <1>2, <1>3, <1>4 DEF ProcessNext

(* The gateway process, shutdown included, behaves as Gateway does.        *)
THEOREM ProcessIsGateway == ProcessSpec => Spec
<1>1. ProcessInit => Init
  BY DEF ProcessInit
<1> QED
  BY <1>1, ProcessStep, PTL DEF ProcessSpec, Spec

----------------------------------------------------------------------------
(* The shutdown.                                                           *)

(* Connections are closed only once the handlers have been drained, and    *)
(* from then on no call begins.                                            *)
ClosedIsDrained ==
  /\ phase \in {"up", "draining", "closed"}
  /\ dialled \subseteq Calls \X Nat
  /\ cut \subseteq dialled
  /\ cut # {} => phase = "closed"
  /\ phase = "closed" => Drained

(* A handler that is idle or has returned takes no step when no call may   *)
(* begin.                                                                  *)
LEMMA DrainedStays ==
  ASSUME Drained, phase = "closed", ProcessNext
  PROVE  handler' = handler
<1>1. ASSUME NEW c \in Calls, BeginCall(c) \/ ServeCall(c) \/ AbandonCall(c)
      PROVE  FALSE
  <2>1. handler[c] \in {"idle", "returned"}
    BY DEF Drained
  <2> QED
    BY <1>1, <2>1 DEF BeginCall, Accepting, ServeCall, AbandonCall, Registration, Receive,
                      Unregister, GiveUp
<1>2. CASE Poll \/ Reroute \/ Shutdown \/ PollLoopReturns \/ Close
  BY <1>2 DEF Poll, PollOnce, Reroute, RerouteFrom, Shutdown, PollLoopReturns, Close, vars, handlerVars
<1>3. ASSUME NEW c \in Calls, NEW k \in DOMAIN att[c], ProcessAttemptStep(c, k)
      PROVE  handler' = handler
  BY <1>3 DEF ProcessAttemptStep, ConnFor, Returns, FinishAttempt, AttemptSucceeds, AttemptFails,
              SnapshotCandidates, ReplaceAttempt, DropAttempt, SettleError, SendResult, vars, handlerVars
<1> QED
  BY <1>1, <1>2, <1>3 DEF ProcessNext

(* Every step keeps a closed process drained.                              *)
LEMMA ClosedIsDrainedStep ==
  TypeOK /\ ClosedIsDrained /\ [ProcessNext]_allVars => ClosedIsDrained'
<1> SUFFICES ASSUME TypeOK, ClosedIsDrained, [ProcessNext]_allVars
             PROVE  ClosedIsDrained'
  OBVIOUS
<1>1. CASE UNCHANGED allVars
  BY <1>1 DEF ClosedIsDrained, Drained, allVars, vars, handlerVars, processVars
<1>2. CASE Shutdown \/ PollLoopReturns \/ Close
  BY <1>2 DEF ClosedIsDrained, Drained, CutOff, Shutdown, PollLoopReturns, Close, vars, handlerVars
<1>3. ASSUME ProcessNext, UNCHANGED phase, dialled' \subseteq Calls \X Nat, cut' \subseteq cut \cap dialled'
      PROVE  ClosedIsDrained'
  BY <1>3, DrainedStays DEF ClosedIsDrained, Drained
<1>4. CASE Poll \/ Reroute
  BY <1>3, <1>4 DEF ClosedIsDrained, ProcessNext, Poll, Reroute, processVars
<1>5. ASSUME NEW c \in Calls, BeginCall(c) \/ ServeCall(c) \/ AbandonCall(c)
      PROVE  ClosedIsDrained'
  BY <1>3, <1>5 DEF ClosedIsDrained, ProcessNext, BeginCall, ServeCall, AbandonCall, processVars
<1>6. ASSUME NEW c \in Calls, NEW k \in DOMAIN att[c], ProcessAttemptStep(c, k)
      PROVE  ClosedIsDrained'
  <2>1. k \in Nat
    <3>1. att[c] \in Seq(Attempt)
      BY DEF TypeOK
    <3> QED
      BY <3>1
  <2>2. /\ UNCHANGED phase
        /\ dialled' \subseteq dialled \cup {<<c, k>>}
        /\ cut' \subseteq cut \cap dialled'
    BY <1>6 DEF ClosedIsDrained, ProcessAttemptStep, ConnFor, Returns, FinishAttempt, processVars
  <2> QED
    BY <1>3, <1>6, <2>1, <2>2 DEF ClosedIsDrained, ProcessNext
<1> QED
  BY <1>1, <1>2, <1>4, <1>5, <1>6 DEF ProcessNext

(* No connection that Close closes carries an RPC that a client waits for. *)
THEOREM NoForwardIsCut == ProcessSpec => []NoForwardCut
<1>1. ProcessInit => ClosedIsDrained
  BY DEF ProcessInit, ClosedIsDrained
<1>2. ClosedIsDrained => NoForwardCut
  <2> SUFFICES ASSUME ClosedIsDrained, NEW a \in cut
               PROVE  handler[a[1]] \notin {"picked", "waiting"}
    BY DEF NoForwardCut
  <2>1. a[1] \in Calls
    BY DEF ClosedIsDrained
  <2> QED
    BY <2>1 DEF ClosedIsDrained, Drained
<1>3. Spec => []TypeOK
  BY TypeCorrect
<1> QED
  BY <1>1, <1>2, <1>3, ProcessIsGateway, ClosedIsDrainedStep, PTL DEF ProcessSpec

(* The clients of the process, its connections and its shutdown included,  *)
(* see what FirstWins allows.                                              *)
THEOREM ProcessImplementsFirstWins == ProcessSpec => ImplementsFirstWins
BY ProcessIsGateway, GatewayImplementsFirstWins, PTL

=============================================================================

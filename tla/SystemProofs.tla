---------------------------- MODULE SystemProofs ----------------------------
(***************************************************************************)
(* Theorems of System, for every set of workers, calls and ids, every      *)
(* budget and any number of faults: the gateway in it is the one of        *)
(* Gateway, whose theorems therefore hold of the whole, and its membership *)
(* is Roster's.                                                            *)
(***************************************************************************)
EXTENDS System, GatewayRefinementProofs

(* The poll loop is only ever told of workers.                             *)
PollsWorkers == registered \subseteq Workers /\ (polled # NoReply => polled \subseteq Workers)

(* Every step keeps the registry and the replies to workers.               *)
LEMMA PollsWorkersStep == PollsWorkers /\ [SystemNext]_systemVars => PollsWorkers'
<1> SUFFICES ASSUME PollsWorkers, [SystemNext]_systemVars
             PROVE  PollsWorkers'
  OBVIOUS
<1>1. CASE UNCHANGED <<rosterVars, polled>>
  BY <1>1 DEF PollsWorkers, rosterVars
<1>2. CASE ListWorkers \/ ApplyPoll
  BY <1>2 DEF ListWorkers, ApplyPoll, PollsWorkers, rosterVars
<1>3. CASE RestartControlPlane
  BY <1>3 DEF RestartControlPlane, Fault, CP!Wipe, PollsWorkers
<1>4. ASSUME NEW w \in Workers, WorkerStep(w)
      PROVE  PollsWorkers'
  <2>1. UNCHANGED polled
    BY <1>4 DEF WorkerStep, MembershipStep, Exit, Resume, Misjudge, Freeze, Terminate, Kill, Fault
  <2>2. registered' \subseteq registered \cup {w}
    BY <1>4 DEF WorkerStep, MembershipStep, Exit, Resume, Misjudge, Freeze, Terminate, Kill, rosterVars,
                CP!Ask, CP!Enter, CP!Drop, CP!Leave, CP!Quit
  <2> QED
    BY <2>1, <2>2 DEF PollsWorkers
<1>5. ASSUME NEW c \in Calls, Handle(c)
      PROVE  PollsWorkers'
  BY <1>1, <1>5 DEF Handle
<1>6. ASSUME NEW c \in Calls, NEW k \in DOMAIN att[c], RPCStep(c, k) \/ FinishAttempt(c, k)
      PROVE  PollsWorkers'
  BY <1>1, <1>6 DEF RPCStep, Accept, Answer, Unreachable, TimeOut, Release, FinishAttempt
<1> QED
  BY <1>1, <1>2, <1>3, <1>4, <1>5, <1>6 DEF SystemNext, Reroute, systemVars

(* Every step of the system is a step of Gateway or leaves it alone.       *)
LEMMA GatewayInSystem == PollsWorkers /\ [SystemNext]_systemVars => [Next]_vars
<1> SUFFICES ASSUME PollsWorkers, SystemNext
             PROVE  [Next]_vars
  BY DEF systemVars
<1>1. CASE ListWorkers \/ Reroute \/ RestartControlPlane
  BY <1>1 DEF ListWorkers, Reroute, RestartControlPlane, Fault, Next, PollStep
<1>2. CASE ApplyPoll
  BY <1>2 DEF ApplyPoll, PollsWorkers, Next, PollStep
<1>3. ASSUME NEW w \in Workers, WorkerStep(w)
      PROVE  UNCHANGED vars
  BY <1>3 DEF WorkerStep, MembershipStep, Exit, Resume, Misjudge, Freeze, Terminate, Kill, Fault
<1>4. ASSUME NEW c \in Calls, Handle(c)
      PROVE  Next
  BY <1>4 DEF Handle, Next
<1>5. ASSUME NEW c \in Calls, NEW k \in DOMAIN att[c], RPCStep(c, k) \/ FinishAttempt(c, k)
      PROVE  [Next]_vars
  <2>1. CASE Accept(c, k)
    BY <2>1 DEF Accept
  <2>2. CASE Answer(c, k) \/ Unreachable(c, k) \/ TimeOut(c, k)
    BY <2>2 DEF Answer, Unreachable, TimeOut, ErrorCodes, Next, AttemptStep
  <2>3. CASE FinishAttempt(c, k)
    BY <2>3 DEF FinishAttempt, Next, AttemptStep
  <2> QED
    BY <1>5, <2>1, <2>2, <2>3 DEF RPCStep
<1> QED
  BY <1>1, <1>2, <1>3, <1>4, <1>5 DEF SystemNext

(* The gateway keeps its promises whatever workers and control plane do.   *)
THEOREM SystemIsGateway == SystemSpec => Spec
<1>1. SystemInit => Init /\ PollsWorkers
  BY DEF SystemInit, CP!Init, PollsWorkers
<1> QED
  BY <1>1, PollsWorkersStep, GatewayInSystem, PTL DEF SystemSpec, Spec

(* Every step of the system is a step of Roster or leaves it alone.        *)
LEMMA RosterInSystem == [SystemNext]_systemVars => [CP!Next]_rosterVars
<1> SUFFICES ASSUME SystemNext
             PROVE  [CP!Next]_rosterVars
  BY DEF systemVars
<1>1. CASE ListWorkers \/ ApplyPoll \/ Reroute
  BY <1>1 DEF ListWorkers, ApplyPoll, Reroute
<1>2. CASE RestartControlPlane
  BY <1>2 DEF RestartControlPlane, CP!Next
<1>3. ASSUME NEW w \in Workers, WorkerStep(w)
      PROVE  [CP!Next]_rosterVars
  BY <1>3 DEF WorkerStep, MembershipStep, Exit, Resume, Misjudge, Freeze, Terminate, Kill, CP!Next
<1>4. ASSUME NEW c \in Calls, Handle(c)
      PROVE  UNCHANGED rosterVars
  BY <1>4 DEF Handle
<1>5. ASSUME NEW c \in Calls, NEW k \in DOMAIN att[c], RPCStep(c, k) \/ FinishAttempt(c, k)
      PROVE  UNCHANGED rosterVars
  BY <1>5 DEF RPCStep, Accept, Answer, Unreachable, TimeOut, Release, FinishAttempt
<1> QED
  BY <1>1, <1>2, <1>3, <1>4, <1>5 DEF SystemNext

(* The workers and the control plane of the system are Roster's.           *)
THEOREM SystemKeepsRoster == SystemSpec => CP!Spec
<1>1. SystemInit => CP!Init
  BY DEF SystemInit
<1>2. [SystemNext]_systemVars => [CP!Next]_(CP!vars)
  BY RosterInSystem DEF rosterVars, CP!vars
<1> QED
  BY <1>1, <1>2, PTL DEF SystemSpec, CP!Spec

(* In the whole system, the tracker's map holds exactly the open calls.    *)
THEOREM SystemTrackerAgrees == SystemSpec => []TrackerHoldsOpenCalls
BY SystemIsGateway, TrackerAgrees, PTL

(* The clients of the whole system, under any number of faults, see what   *)
(* FirstWins allows: refused, or admitted alone under their id, decided    *)
(* once and told that decision.                                            *)
THEOREM SystemImplementsFirstWins == SystemSpec => ImplementsFirstWins
BY SystemIsGateway, GatewayImplementsFirstWins, PTL

(* So every client of the whole system is told once, the one decision of   *)
(* its race or a refusal, and nothing takes either back: no straggler, no  *)
(* retry under the same id, no fault.                                      *)
THEOREM SystemTellsOnce == SystemSpec => []Promise /\ [][Settled]_clientState
BY SystemImplementsFirstWins, FirstWinsIsFinal, PTL

=============================================================================

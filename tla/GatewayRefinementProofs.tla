----------------------- MODULE GatewayRefinementProofs -----------------------
(***************************************************************************)
(* Gateway implements FirstWins, for every set of workers, calls and ids,  *)
(* every sharing of ids and every budget.                                  *)
(***************************************************************************)
EXTENDS GatewayRefinement, GatewayProofs

clientState == <<stageOf, requests, decidedOf, answer>>

----------------------------------------------------------------------------
(* The mapping under a step.                                               *)

(* A call whose winners keep their verdicts keeps its decision.            *)
LEMMA SameDecision ==
  ASSUME NEW c \in Calls,
         \A k \in DOMAIN att[c] : Winner(c, k) =>
           k \in DOMAIN att'[c] /\ Winner(c, k)' /\ Verdict(c, k)' = Verdict(c, k),
         \A k \in DOMAIN att'[c] : Winner(c, k)' => k \in DOMAIN att[c] /\ Winner(c, k)
  PROVE  decidedOf'[c] = decidedOf[c]
<1> DEFINE W == {j \in DOMAIN att[c] : Winner(c, j)}
           V == {j \in DOMAIN att'[c] : Winner(c, j)'}
<1>1. decidedOf[c] = {Verdict(c, k) : k \in W} /\ decidedOf'[c] = {Verdict(c, k)' : k \in V}
  BY DEF decidedOf
<1>2. V = W /\ \A k \in W : Verdict(c, k)' = Verdict(c, k)
  OBVIOUS
<1> HIDE DEF W, V
<1> QED
  BY <1>1, <1>2

(* So do all calls whose attempts have not moved.                          *)
LEMMA SameAttempts ==
  ASSUME NEW c \in Calls, att'[c] = att[c]
  PROVE  decidedOf'[c] = decidedOf[c]
BY SameDecision DEF Winner, Verdict

(* Launching an attempt, in addition or in the place of one that has not   *)
(* won, decides nothing.                                                   *)
LEMMA LaunchDecidesNothing ==
  ASSUME NEW c \in Calls, att[c] \in Seq(Attempt), NEW s \in Seq(Attempt), NEW w \in Workers,
         Len(s) = Len(att[c]),
         \A j \in DOMAIN att[c] : s[j] = att[c][j] \/ (~Winner(c, j) /\ s[j].pc = "over"),
         att'[c] = Append(s, Launch(w))
  PROVE  decidedOf'[c] = decidedOf[c]
<1>1. /\ DOMAIN att'[c] = DOMAIN att[c] \cup {Len(att[c]) + 1}
      /\ \A j \in DOMAIN att[c] : att'[c][j] = s[j]
      /\ att'[c][Len(att[c]) + 1].pc = "rpc"
  BY AppendAttempt DEF Launch
<1>2. ASSUME NEW k \in DOMAIN att[c], Winner(c, k)
      PROVE  k \in DOMAIN att'[c] /\ Winner(c, k)' /\ Verdict(c, k)' = Verdict(c, k)
  BY <1>1, <1>2 DEF Winner, Verdict
<1>3. ASSUME NEW k \in DOMAIN att'[c], Winner(c, k)'
      PROVE  k \in DOMAIN att[c] /\ Winner(c, k)
  BY <1>1, <1>3 DEF Winner
<1> QED
  BY <1>2, <1>3, SameDecision

(* decidedOf is a function on the calls, so it changes where it differs.   *)
LEMMA SameDecisions ==
  ASSUME \A c \in Calls : decidedOf'[c] = decidedOf[c]
  PROVE  decidedOf' = decidedOf
BY DEF decidedOf

(* A handler that moves moves its call's stage and no other.               *)
MovesTo(c, place) == handler' = [handler EXCEPT ![c] = place]

StageBecomes(c, stage) == stageOf' = [stageOf EXCEPT ![c] = stage]

(* Which stage each move leads to.                                         *)
LEMMA StageMoves ==
  ASSUME TypeOK, NEW c \in Calls
  PROVE  /\ MovesTo(c, "waiting")  => StageBecomes(c, "open")
         /\ MovesTo(c, "leaving")  => StageBecomes(c, "leaving")
         /\ MovesTo(c, "returned") => StageBecomes(c, "closed")
<1>1. ASSUME NEW h, MovesTo(c, h)
      PROVE  StageBecomes(c, StageAt[h])
  BY <1>1 DEF MovesTo, StageBecomes, TypeOK, stageOf
<1>2. StageAt["waiting"] = "open" /\ StageAt["leaving"] = "leaving" /\ StageAt["returned"] = "closed"
  BY DEF StageAt
<1>3. MovesTo(c, "waiting") => StageBecomes(c, StageAt["waiting"])
  BY <1>1
<1>4. MovesTo(c, "leaving") => StageBecomes(c, StageAt["leaving"])
  BY <1>1
<1>5. MovesTo(c, "returned") => StageBecomes(c, StageAt["returned"])
  BY <1>1
<1> QED
  BY <1>2, <1>3, <1>4, <1>5

(* A call's stage is that of the place where its handler is.               *)
LEMMA StageIs ==
  ASSUME NEW c \in Calls
  PROVE  /\ handler[c] \in {"idle", "picked"} => stageOf[c] = "new"
         /\ handler[c] = "waiting" => stageOf[c] = "open"
         /\ handler[c] = "leaving" => stageOf[c] = "leaving"
<1>1. stageOf[c] = StageAt[handler[c]]
  BY DEF stageOf
<1> QED
  BY <1>1 DEF StageAt

----------------------------------------------------------------------------
(* The refinement, one lemma for each kind of step.                        *)

(* A reroute launches, and a launch has decided nothing.                   *)
LEMMA RerouteRefines ==
  ASSUME TypeOK, RerouteFrom
  PROVE  UNCHANGED clientState
<1>1. PICK jobs \in SUBSET Victims : \E target \in [jobs -> Workers] :
         /\ att' = [c \in Calls |->
                      IF c \in jobs THEN Append(att[c], Launch(target[c])) ELSE att[c]]
         /\ UNCHANGED <<handlerVars, claimed, result>>
  BY RerouteShape
<1> PICK target \in [jobs -> Workers] :
         /\ att' = [c \in Calls |->
                      IF c \in jobs THEN Append(att[c], Launch(target[c])) ELSE att[c]]
         /\ UNCHANGED <<handlerVars, claimed, result>>
  BY <1>1
<1>2. ASSUME NEW c \in Calls
      PROVE  decidedOf'[c] = decidedOf[c]
  <2>1. CASE c \notin jobs
    BY <2>1, SameAttempts
  <2>2. CASE c \in jobs
    <3>1. att[c] \in Seq(Attempt) /\ att'[c] = Append(att[c], Launch(target[c])) /\ target[c] \in Workers
      BY <2>2 DEF TypeOK
    <3> QED
      BY <3>1, LaunchDecidesNothing
  <2> QED
    BY <2>1, <2>2
<1>3. decidedOf' = decidedOf
  BY <1>2, SameDecisions
<1> QED
  BY <1>3 DEF clientState, stageOf, handlerVars

(* The handler's steps before and after the race.                          *)
LEMMA HandlerRefines ==
  ASSUME TypeOK, RacesOK, TrackerHoldsOpenCalls, NEW c \in Calls, HandlerStep(c), ~Register(c),
         UNCHANGED att
  PROVE  [FW!Next]_clientState
<1>0. decidedOf' = decidedOf
  BY SameAttempts, SameDecisions
<1>1. ASSUME NEW kind \in RefusalKinds, Refuse(c, kind), handler[c] \in {"idle", "picked"}
      PROVE  FW!Next
  <2>1. stageOf[c] = "new" /\ StageBecomes(c, "closed")
    BY <1>1, StageIs, StageMoves DEF Refuse, MovesTo
  <2>2. answer' = [answer EXCEPT ![c] = Refusal(kind)] /\ UNCHANGED requests
    BY <1>1 DEF Refuse
  <2>3. FW!Refuse(c)
    BY <1>0, <2>1, <2>2 DEF FW!Refuse, StageBecomes
  <2> QED
    BY <2>3 DEF FW!Next
<1>2. CASE GenerateWithoutId(c) \/ GenerateWithoutWorkers(c) \/ RegisterDuplicate(c)
  BY <1>1, <1>2 DEF GenerateWithoutId, GenerateWithoutWorkers, RegisterDuplicate, RefusalKinds
<1>3. CASE PickWorker(c)
  <2>1. handler[c] = "idle" /\ handler' = [handler EXCEPT ![c] = "picked"]
    BY <1>3 DEF PickWorker
  <2>2. stageOf' = stageOf
    BY <2>1 DEF TypeOK, stageOf, StageAt
  <2> QED
    BY <1>0, <1>3, <2>2 DEF PickWorker, clientState
<1>4. CASE Receive(c)
  <2>1. stageOf[c] = "open" /\ StageBecomes(c, "leaving")
    BY <1>4, StageIs, StageMoves DEF Receive, MovesTo
  <2>2. result[c] # NoResult /\ answer' = [answer EXCEPT ![c] = result[c]] /\ UNCHANGED requests
    BY <1>4 DEF Receive
  <2>3. result[c].kind \in Outcomes
    BY <2>2 DEF TypeOK, attemptResult
  <2>4. PICK k \in DOMAIN att[c] : att[c][k].pc = "won" /\ result[c] = Verdict(c, k)
    BY <2>3 DEF RacesOK, RaceOK
  <2>5. result[c] \in decidedOf[c]
    BY <2>4 DEF decidedOf, Winner
  <2>6. FW!Deliver(c)
    BY <1>0, <2>1, <2>2, <2>5 DEF FW!Deliver, StageBecomes
  <2> QED
    BY <2>6 DEF FW!Next
<1>5. CASE GiveUp(c)
  <2>1. stageOf[c] = "open" /\ StageBecomes(c, "leaving")
    BY <1>5, StageIs, StageMoves DEF GiveUp, MovesTo
  <2>2. FW!Abandon(c)
    BY <1>0, <1>5, <2>1 DEF GiveUp, RefusalKinds, FW!Abandon, StageBecomes
  <2> QED
    BY <2>2 DEF FW!Next
<1>6. CASE Unregister(c)
  <2>1. stageOf[c] = "leaving" /\ StageBecomes(c, "closed")
    BY <1>6, StageIs, StageMoves DEF Unregister, MovesTo
  <2>2. requests[RequestId[c]] = c
    BY <1>6 DEF Unregister, TrackerHoldsOpenCalls, Tracked
  <2>3. requests' = [requests EXCEPT ![RequestId[c]] = NoCall] /\ UNCHANGED answer
    BY <1>6 DEF Unregister
  <2>4. FW!Close(c)
    BY <1>0, <2>1, <2>2, <2>3 DEF FW!Close, StageBecomes
  <2> QED
    BY <2>4 DEF FW!Next
<1> QED
  BY <1>2, <1>3, <1>4, <1>5, <1>6 DEF HandlerStep, BeginGenerate, Registration

(* A registration admits, with nothing decided yet.                        *)
LEMMA RegisterRefines ==
  ASSUME TypeOK, RacesOK, NEW c \in Calls, Register(c)
  PROVE  FW!Next
<1>1. /\ handler[c] = "picked" /\ handler' = [handler EXCEPT ![c] = "waiting"]
      /\ requests[RequestId[c]] = NoCall
      /\ requests' = [requests EXCEPT ![RequestId[c]] = c]
      /\ att' = [att EXCEPT ![c] = <<Launch(picked[c])>>]
      /\ UNCHANGED answer
  BY DEF Register
<1>2. RequestId[c] \in ReqIds
  BY <1>1 DEF TypeOK
<1>3. stageOf[c] = "new" /\ StageBecomes(c, "open")
  BY <1>1, StageIs, StageMoves DEF MovesTo
<1>4. ASSUME NEW d \in Calls
      PROVE  decidedOf'[d] = decidedOf[d]
  <2>1. CASE d # c
    BY <1>1, <2>1, SameAttempts DEF TypeOK
  <2>2. CASE d = c
    <3>1. att'[c] = <<Launch(picked[c])>> /\ att[c] = << >>
      BY <1>1 DEF TypeOK, RacesOK, RaceOK
    <3>2. DOMAIN att'[c] = {1} /\ att'[c][1].pc = "rpc"
      BY <3>1 DEF Launch
    <3> QED
      BY <2>2, <3>1, <3>2, SameDecision DEF Winner
  <2> QED
    BY <2>1, <2>2
<1>5. decidedOf' = decidedOf
  BY <1>4, SameDecisions
<1>6. FW!Admit(c)
  BY <1>1, <1>2, <1>3, <1>5 DEF FW!Admit, StageBecomes
<1> QED
  BY <1>6 DEF FW!Next

(* A fast-path replacement retires an attempt that has won nothing.        *)
LEMMA ReplaceRefines ==
  ASSUME TypeOK, NEW c \in Calls, NEW k \in DOMAIN att[c], ReplaceAttempt(c, k)
  PROVE  UNCHANGED clientState
<1>1. PICK w \in Workers :
        /\ Retired(c, k) \in Seq(Attempt) /\ Len(Retired(c, k)) = Len(att[c])
        /\ Retired(c, k)[k].pc = "over"
        /\ \A j \in DOMAIN att[c] : j # k => Retired(c, k)[j] = att[c][j]
        /\ att' = [att EXCEPT ![c] = Append(Retired(c, k), Launch(w))]
  BY ReplaceBecomes
<1>2. ~Winner(c, k) /\ UNCHANGED handlerVars
  BY DEF ReplaceAttempt, Winner
<1>3. ASSUME NEW d \in Calls
      PROVE  decidedOf'[d] = decidedOf[d]
  <2>1. CASE d # c
    <3>1. att'[d] = att[d]
      BY <1>1, <2>1 DEF TypeOK
    <3> QED
      BY <3>1, SameAttempts
  <2>2. CASE d = c
    <3>1. att[c] \in Seq(Attempt) /\ att'[c] = Append(Retired(c, k), Launch(w))
      BY <1>1 DEF TypeOK
    <3>2. \A j \in DOMAIN att[c] : Retired(c, k)[j] = att[c][j]
                                   \/ (~Winner(c, j) /\ Retired(c, k)[j].pc = "over")
      BY <1>1, <1>2
    <3> QED
      BY <1>1, <2>2, <3>1, <3>2, LaunchDecidesNothing
  <2> QED
    BY <2>1, <2>2
<1>4. decidedOf' = decidedOf
  BY <1>3, SameDecisions
<1> QED
  BY <1>2, <1>4 DEF clientState, stageOf, handlerVars

(* An attempt whose step neither joins nor leaves the winners, and changes *)
(* no winner's verdict, leaves every decision as it was.                   *)
LEMMA UndecidedStep ==
  ASSUME TypeOK, NEW c \in Calls, NEW k \in DOMAIN att[c], NEW a \in Attempt, Becomes(c, k, a),
         Winner(c, k) <=> a.pc \in {"sending", "won"},
         Winner(c, k) => a.res = att[c][k].res /\ a.worker = att[c][k].worker
  PROVE  decidedOf' = decidedOf
<1>1. /\ DOMAIN att'[c] = DOMAIN att[c]
      /\ att'[c][k] = a
      /\ \A j \in DOMAIN att[c] : j # k => att'[c][j] = att[c][j]
      /\ \A d \in Calls : d # c => att'[d] = att[d]
  BY BecomesTyped
<1>2. \A j \in DOMAIN att[c] : Winner(c, j)' <=> Winner(c, j)
  BY <1>1 DEF Winner
<1>3. \A j \in DOMAIN att[c] : Winner(c, j) => Verdict(c, j)' = Verdict(c, j)
  BY <1>1 DEF Verdict
<1>4. decidedOf'[c] = decidedOf[c]
  BY <1>1, <1>2, <1>3, SameDecision
<1>5. \A d \in Calls : decidedOf'[d] = decidedOf[d]
  BY <1>1, <1>4, SameAttempts
<1> QED
  BY <1>5, SameDecisions

(* settle decides the call if its latch is open, and nothing otherwise.    *)
LEMMA SettleRefines ==
  ASSUME TypeOK, RacesOK, NEW c \in Calls, NEW k \in DOMAIN att[c], NEW kind \in Outcomes,
         settle(c, k, kind), ~Winner(c, k), UNCHANGED handlerVars
  PROVE  [FW!Next]_clientState
<1> DEFINE a == [att[c][k] EXCEPT !.pc = IF claimed[c] THEN "over" ELSE "sending", !.res = kind]
<1>1. a \in Attempt /\ Becomes(c, k, a)
  BY SettleBecomes
<1>2. att[c] \in Seq(Attempt) /\ att[c][k] \in Attempt
  BY DEF TypeOK
<1>3. /\ a.pc = IF claimed[c] THEN "over" ELSE "sending"
      /\ a.res = kind /\ a.worker \in Workers
  BY <1>2 DEF Attempt
<1> HIDE DEF a
<1>4. UNCHANGED <<stageOf, requests, answer>>
  BY DEF handlerVars, stageOf
<1>5. CASE claimed[c]
  <2>1. a.pc \notin {"sending", "won"}
    BY <1>3, <1>5
  <2>2. decidedOf' = decidedOf
    BY <1>1, <2>1, UndecidedStep
  <2> QED
    BY <1>4, <2>2 DEF clientState
<1>6. CASE ~claimed[c]
  <2>1. /\ DOMAIN att'[c] = DOMAIN att[c]
        /\ att'[c][k] = a
        /\ \A j \in DOMAIN att[c] : j # k => att'[c][j] = att[c][j]
        /\ \A d \in Calls : d # c => att'[d] = att[d]
    BY <1>1, BecomesTyped
  <2>2. \A j \in DOMAIN att[c] : ~Winner(c, j)
    BY <1>6 DEF RacesOK, RaceOK
  <2>3. \A j \in DOMAIN att'[c] : Winner(c, j)' <=> j = k
    BY <1>3, <1>6, <2>1, <2>2 DEF Winner
  <2> DEFINE v == [kind |-> kind, worker |-> a.worker]
  <2>4. v \in attemptResult /\ Verdict(c, k)' = v
    BY <1>3, <2>1 DEF attemptResult, Verdict
  <2> HIDE DEF v
  <2>5. decidedOf[c] = {}
    BY <2>2 DEF decidedOf
  <2>6. decidedOf'[c] = {v}
    <3>1. decidedOf'[c] = {Verdict(c, j)' : j \in {i \in DOMAIN att'[c] : Winner(c, i)'}}
      BY DEF decidedOf
    <3>2. {i \in DOMAIN att'[c] : Winner(c, i)'} = {k}
      BY <2>1, <2>3
    <3> QED
      BY <2>4, <3>1, <3>2
  <2>7. \A d \in Calls : d # c => decidedOf'[d] = decidedOf[d]
    BY <2>1, SameAttempts
  <2>8. decidedOf' = [decidedOf EXCEPT ![c] = {v}]
    <3>1. decidedOf' = [d \in Calls |-> decidedOf'[d]]
      BY DEF decidedOf
    <3>2. decidedOf = [d \in Calls |-> decidedOf[d]]
      BY DEF decidedOf
    <3> QED
      BY <2>6, <2>7, <3>1, <3>2
  <2>9. stageOf[c] # "new"
    <3>1. handler[c] \in {"waiting", "leaving", "returned"}
      BY <1>2 DEF RacesOK, RaceOK, TypeOK
    <3> QED
      BY <3>1 DEF stageOf, StageAt
  <2>10. FW!Decide(c)
    BY <1>4, <2>4, <2>5, <2>8, <2>9 DEF FW!Decide
  <2> QED
    BY <2>10 DEF FW!Next
<1> QED
  BY <1>5, <1>6

(* An attempt's step decides the call or changes nothing for its client.   *)
LEMMA AttemptRefines ==
  ASSUME TypeOK, RacesOK, NEW c \in Calls, NEW k \in DOMAIN att[c], AttemptStep(c, k),
         UNCHANGED handlerVars
  PROVE  [FW!Next]_clientState
<1>1. UNCHANGED <<stageOf, requests, answer>>
  BY DEF handlerVars, stageOf
<1>2. CASE AttemptSucceeds(c, k)
  <2>1. settle(c, k, "ok") /\ "ok" \in Outcomes /\ ~Winner(c, k)
    BY <1>2 DEF AttemptSucceeds, Outcomes, Winner
  <2> QED
    BY <2>1, SettleRefines
<1>3. CASE SettleError(c, k)
  <2>1. att[c][k] \in Attempt
    BY DEF TypeOK
  <2>2. settle(c, k, att[c][k].res) /\ att[c][k].res \in Outcomes /\ ~Winner(c, k)
    BY <1>3, <2>1 DEF SettleError, Attempt, Winner
  <2> QED
    BY <2>2, SettleRefines
<1>4. CASE SendResult(c, k)
  <2> DEFINE a == [att[c][k] EXCEPT !.pc = "won"]
  <2>1. a \in Attempt /\ Becomes(c, k, a)
    BY <1>4, SendBecomes
  <2>2. Winner(c, k)
    BY <1>4 DEF SendResult, Winner
  <2>3. a.pc = "won" /\ a.res = att[c][k].res /\ a.worker = att[c][k].worker
    <3>1. att[c][k] \in Attempt
      BY DEF TypeOK
    <3> QED
      BY <3>1 DEF Attempt
  <2> HIDE DEF a
  <2>4. decidedOf' = decidedOf
    BY <2>1, <2>2, <2>3, UndecidedStep
  <2> QED
    BY <1>1, <2>4 DEF clientState
<1>5. CASE QuietStep(c, k)
  <2>1. PICK a \in Attempt : Becomes(c, k, a) /\ a.pc \notin {"sending", "won"}
    BY <1>5, QuietBecomes
  <2>2. ~Winner(c, k)
    BY <1>5 DEF QuietStep, AttemptFails, SnapshotCandidates, DropAttempt, Winner
  <2>3. decidedOf' = decidedOf
    BY <2>1, <2>2, UndecidedStep
  <2> QED
    BY <1>1, <2>3 DEF clientState
<1>6. CASE ReplaceAttempt(c, k)
  BY <1>6, ReplaceRefines
<1> QED
  BY <1>2, <1>3, <1>4, <1>5, <1>6 DEF AttemptStep, QuietStep

(* Every step of the gateway maps to a step of FirstWins or to a stutter.  *)
LEMMA StepRefines ==
  ASSUME TypeOK, RacesOK, TrackerHoldsOpenCalls, [Next]_vars
  PROVE  [FW!Next]_clientState
<1>1. CASE UNCHANGED <<handlerVars, dispatched, claimed, result, att>>
  <2>1. decidedOf' = decidedOf
    BY <1>1, SameAttempts, SameDecisions
  <2> QED
    BY <1>1, <2>1 DEF clientState, stageOf, handlerVars
<1>2. CASE RerouteFrom
  BY <1>2, RerouteRefines
<1>3. CASE \E c \in Calls : HandlerStep(c) /\ ~Register(c) /\ UNCHANGED <<dispatched, claimed, att>>
  BY <1>3, HandlerRefines
<1>4. CASE \E c \in Calls : Register(c)
  BY <1>4, RegisterRefines
<1>5. CASE \E c \in Calls : \E k \in DOMAIN att[c] :
             ReplaceAttempt(c, k) /\ UNCHANGED <<handlerVars, claimed, result>>
  BY <1>5, ReplaceRefines
<1>6. CASE \E c \in Calls : \E k \in DOMAIN att[c] : \E a \in Attempt :
             /\ Becomes(c, k, a)
             /\ UNCHANGED <<handlerVars, dispatched>>
             /\ AttemptStep(c, k)
  BY <1>6, AttemptRefines
<1> QED
  BY <1>1, <1>2, <1>3, <1>4, <1>5, <1>6, StepShapes

(* The gateway starts where FirstWins does: nobody is admitted.            *)
LEMMA InitRefines == Init => FW!Init
<1> SUFFICES ASSUME Init PROVE FW!Init
  OBVIOUS
<1>1. stageOf = [c \in Calls |-> "new"]
  BY DEF Init, stageOf, StageAt
<1>2. decidedOf = [c \in Calls |-> {}]
  BY DEF Init, decidedOf
<1> QED
  BY <1>1, <1>2 DEF Init, FW!Init

(* Whatever workers and polls do to its attempts, the gateway's clients    *)
(* see FirstWins: refused, or admitted alone under their id, decided at    *)
(* most once and told that decision.                                       *)
THEOREM GatewayImplementsFirstWins == Spec => ImplementsFirstWins
<1>1. TypeOK /\ RacesOK /\ TrackerHoldsOpenCalls /\ [Next]_vars => [FW!Next]_(FW!vars)
  BY StepRefines DEF clientState, FW!vars
<1> QED
  BY <1>1, InitRefines, TypeCorrect, RacesHold, TrackerAgrees, PTL
  DEF Spec, FW!Spec, ImplementsFirstWins

----------------------------------------------------------------------------
(* What FirstWins is good for.                                             *)

Refused == {Refusal(kind) : kind \in RefusalKinds}

\* a call is decided once at most and not before its admission, its client is
\* told nothing while it waits and the decision or a refusal when it goes, and
\* its id is its own until then
Promise ==
  \A c \in Calls :
    /\ \A u, v \in decidedOf[c] : u = v
    /\ stageOf[c] = "new" => decidedOf[c] = {}
    /\ IF stageOf[c] \in {"new", "open"} THEN answer[c] = NoResult
       ELSE answer[c] \in decidedOf[c] \cup Refused
    /\ stageOf[c] \in {"open", "leaving"} =>
         RequestId[c] \in ReqIds /\ requests[RequestId[c]] = c

\* neither the decision nor what a client has been told changes any more
Settled ==
  \A c \in Calls :
    /\ decidedOf[c] \subseteq decidedOf'[c]
    /\ stageOf[c] \in {"leaving", "closed"} => UNCHANGED answer[c]

Shaped == DOMAIN answer = Calls /\ DOMAIN requests = ReqIds

(* Every step of FirstWins keeps what it has promised.                     *)
LEMMA PromiseStep ==
  ASSUME Promise, Shaped, [FW!Next]_clientState
  PROVE  Promise' /\ Shaped' /\ Settled
<1>0. /\ stageOf = [c \in Calls |-> stageOf[c]] /\ stageOf' = [c \in Calls |-> stageOf'[c]]
      /\ decidedOf = [c \in Calls |-> decidedOf[c]] /\ decidedOf' = [c \in Calls |-> decidedOf'[c]]
  BY DEF stageOf, decidedOf
<1>1. CASE UNCHANGED clientState
  BY <1>1 DEF clientState, Promise, Shaped, Settled
<1>2. ASSUME NEW d \in Calls, FW!Refuse(d)
      PROVE  Promise' /\ Shaped' /\ Settled
  BY <1>0, <1>2 DEF FW!Refuse, Promise, Shaped, Settled, Refused
<1>3. ASSUME NEW d \in Calls, FW!Admit(d)
      PROVE  Promise' /\ Shaped' /\ Settled
  BY <1>0, <1>3, GatewayAssumption DEF FW!Admit, Promise, Shaped, Settled, Refused
<1>4. ASSUME NEW d \in Calls, FW!Decide(d)
      PROVE  Promise' /\ Shaped' /\ Settled
  BY <1>0, <1>4 DEF FW!Decide, Promise, Shaped, Settled, Refused
<1>5. ASSUME NEW d \in Calls, FW!Deliver(d)
      PROVE  Promise' /\ Shaped' /\ Settled
  BY <1>0, <1>5 DEF FW!Deliver, Promise, Shaped, Settled, Refused
<1>6. ASSUME NEW d \in Calls, FW!Abandon(d)
      PROVE  Promise' /\ Shaped' /\ Settled
  BY <1>0, <1>6 DEF FW!Abandon, Promise, Shaped, Settled, Refused
<1>7. ASSUME NEW d \in Calls, FW!Close(d)
      PROVE  Promise' /\ Shaped' /\ Settled
  BY <1>0, <1>7 DEF FW!Close, Promise, Shaped, Settled, Refused
<1> QED
  BY <1>1, <1>2, <1>3, <1>4, <1>5, <1>6, <1>7 DEF FW!Next

(* Whoever implements FirstWins tells each client once, the decision or a  *)
(* refusal, and never takes either back.                                   *)
THEOREM FirstWinsIsFinal == ImplementsFirstWins => []Promise /\ [][Settled]_clientState
<1>1. FW!Init => Promise /\ Shaped
  BY DEF FW!Init, Promise, Shaped
<1> QED
  BY <1>1, PromiseStep, PTL DEF ImplementsFirstWins, FW!Spec, FW!vars, clientState

=============================================================================

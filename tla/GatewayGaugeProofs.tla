------------------------- MODULE GatewayGaugeProofs -------------------------
(***************************************************************************)
(* Theorems about the gauge of Gateway: inflight.attempts against the      *)
(* attempts that really are in the air, and what a waiting handler and the *)
(* exhaustion error owe to it, for every value of the constants.           *)
(***************************************************************************)
EXTENDS GatewayProofs, FiniteSetTheorems

----------------------------------------------------------------------------
(* How many attempts are in the air.                                       *)

LiveCount(c) == Cardinality(Live(c))

\* the attempts of a list that are in the air
LiveIn(s) == {j \in DOMAIN s : InTheAir(s[j])}

(* A list of attempts has finitely many in the air, so counting them means *)
(* something.                                                              *)
LEMMA LiveInIsFinite ==
  ASSUME NEW s \in Seq(Attempt)
  PROVE  IsFiniteSet(LiveIn(s)) /\ Cardinality(LiveIn(s)) \in Nat
<1>1. LiveIn(s) \in SUBSET (1..Len(s)) /\ Len(s) \in Int
  BY DEF LiveIn
<1>2. IsFiniteSet(1..Len(s))
  BY <1>1, FS_Interval
<1>3. IsFiniteSet(LiveIn(s))
  BY <1>1, <1>2, FS_Subset
<1> QED
  BY <1>3, FS_CardinalityType

(* The same for a call, now and after a step.                              *)
LEMMA LiveIsFinite ==
  ASSUME NEW c \in Calls
  PROVE  /\ Live(c) = LiveIn(att[c]) /\ Live(c)' = LiveIn(att'[c])
         /\ att[c] \in Seq(Attempt) => IsFiniteSet(Live(c)) /\ LiveCount(c) \in Nat
         /\ att'[c] \in Seq(Attempt) => IsFiniteSet(Live(c)') /\ LiveCount(c)' \in Nat
<1>1. Live(c) = LiveIn(att[c]) /\ Live(c)' = LiveIn(att'[c])
  BY DEF Live, LiveIn, InTheAir
<1> QED
  BY <1>1, LiveInIsFinite DEF LiveCount

(* Attempt k of call c has become a: it is in the air if a is, and nobody  *)
(* else has moved.                                                         *)
LEMMA LiveBecomes ==
  ASSUME TypeOK, NEW c \in Calls, NEW k \in DOMAIN att[c], NEW a \in Attempt, Becomes(c, k, a)
  PROVE  /\ Live(c)' = IF InTheAir(a) THEN Live(c) \cup {k} ELSE Live(c) \ {k}
         /\ LiveCount(c)' = LiveCount(c) + (IF InTheAir(a) THEN 1 ELSE 0) - (IF k \in Live(c) THEN 1 ELSE 0)
         /\ LiveCount(c) \in Nat
         /\ \A d \in Calls : d # c => att'[d] = att[d] /\ LiveCount(d)' = LiveCount(d)
<1>1. /\ DOMAIN att'[c] = DOMAIN att[c]
      /\ att'[c][k] = a
      /\ \A j \in DOMAIN att[c] : j # k => att'[c][j] = att[c][j]
      /\ \A d \in Calls : d # c => att'[d] = att[d]
  BY BecomesTyped
<1>2. Live(c)' = IF InTheAir(a) THEN Live(c) \cup {k} ELSE Live(c) \ {k}
  <2> DEFINE L == IF InTheAir(a) THEN Live(c) \cup {k} ELSE Live(c) \ {k}
  <2>1. \A j \in DOMAIN att[c] : InTheAir(att'[c][j]) <=> IF j = k THEN InTheAir(a) ELSE InTheAir(att[c][j])
    BY <1>1
  <2>2. Live(c)' = {j \in DOMAIN att[c] : InTheAir(att'[c][j])}
    BY <1>1 DEF Live, InTheAir
  <2> QED
    BY <2>1, <2>2 DEF Live
<1>3. IsFiniteSet(Live(c)) /\ LiveCount(c) \in Nat
  BY LiveIsFinite DEF TypeOK
<1>4. LiveCount(c)' = LiveCount(c) + (IF InTheAir(a) THEN 1 ELSE 0) - (IF k \in Live(c) THEN 1 ELSE 0)
  <2>1. /\ Cardinality(Live(c) \cup {k}) = IF k \in Live(c) THEN LiveCount(c) ELSE LiveCount(c) + 1
        /\ Cardinality(Live(c) \ {k}) = IF k \in Live(c) THEN LiveCount(c) - 1 ELSE LiveCount(c)
    BY <1>3, FS_AddElement, FS_RemoveElement DEF LiveCount
  <2>2. LiveCount(c)' = Cardinality(IF InTheAir(a) THEN Live(c) \cup {k} ELSE Live(c) \ {k})
    BY <1>2 DEF LiveCount
  <2> HIDE DEF LiveCount
  <2> QED
    BY <1>3, <2>1, <2>2
<1>5. \A d \in Calls : d # c => LiveCount(d)' = LiveCount(d)
  BY <1>1 DEF LiveCount, Live, InTheAir
<1> QED
  BY <1>1, <1>2, <1>3, <1>4, <1>5

(* A launch puts one more attempt in the air than there were before it.    *)
LEMMA LiveAppend ==
  ASSUME NEW c \in Calls, NEW s \in Seq(Attempt), NEW w \in Workers,
         att'[c] = Append(s, Launch(w))
  PROVE  /\ Live(c)' = LiveIn(s) \cup {Len(s) + 1}
         /\ Cardinality(LiveIn(s)) \in Nat
         /\ LiveCount(c)' = Cardinality(LiveIn(s)) + 1
<1> DEFINE S == LiveIn(s)
<1>1. /\ DOMAIN att'[c] = 1..(Len(s) + 1) /\ DOMAIN s = 1..Len(s) /\ Len(s) \in Nat
      /\ \A j \in DOMAIN s : att'[c][j] = s[j]
      /\ att'[c][Len(s) + 1] = Launch(w)
  BY AppendAttempt
<1>2. InTheAir(Launch(w))
  BY DEF InTheAir, Launch
<1>3. Live(c)' = {j \in DOMAIN att'[c] : InTheAir(att'[c][j])}
  BY DEF Live, InTheAir
<1>4. Live(c)' = S \cup {Len(s) + 1} /\ Len(s) + 1 \notin S
  BY <1>1, <1>2, <1>3 DEF LiveIn
<1>5. IsFiniteSet(S) /\ Cardinality(S) \in Nat
  BY LiveInIsFinite
<1> QED
  BY <1>4, <1>5, FS_AddElement DEF LiveCount

----------------------------------------------------------------------------
(* What a step does to the count and to the gauge of one call.             *)

(* A reroute launches one attempt for a stranded call, and counts it.      *)
LEMMA RerouteCounts ==
  ASSUME TypeOK, RerouteFrom, NEW c \in Calls
  PROVE  \/ UNCHANGED <<att[c], attempts[c], assigned[c]>>
         \/ /\ Tracked(c) /\ assigned[c] \in departed
            /\ \E w \in Workers : /\ w \in healthyExcept(departed)
                                 /\ assigned'[c] = w /\ att'[c] = Append(att[c], Launch(w))
            /\ LiveCount(c)' = LiveCount(c) + 1
            /\ attempts'[c] = attempts[c] + 1
<1> DEFINE healthy == healthyExcept(departed)
           jobs    == IF healthy = {} THEN {} ELSE Victims
<1>1. PICK target \in [jobs -> healthy] :
        /\ assigned' = [d \in Calls |-> IF d \in jobs THEN target[d] ELSE assigned[d]]
        /\ attempts' = Bump(attempts, jobs)
        /\ att' = [d \in Calls |->
                     IF d \in jobs THEN Append(att[d], Launch(target[d])) ELSE att[d]]
  BY DEF RerouteFrom
<1>2. healthy \subseteq Workers /\ att[c] \in Seq(Attempt)
  BY DEF healthyExcept, TypeOK
<1>3. CASE c \notin jobs
  BY <1>1, <1>3 DEF Bump
<1>4. CASE c \in jobs
  <2>1. Tracked(c) /\ assigned[c] \in departed
    BY <1>4 DEF Victims
  <2>2. /\ target[c] \in Workers /\ target[c] \in healthy /\ assigned'[c] = target[c]
        /\ att'[c] = Append(att[c], Launch(target[c]))
    BY <1>1, <1>2, <1>4
  <2>3. attempts'[c] = attempts[c] + 1
    BY <1>1, <1>4 DEF Bump
  <2>4. LiveCount(c)' = LiveCount(c) + 1
    BY <1>2, <2>2, LiveAppend, LiveIsFinite DEF LiveCount
  <2> QED
    BY <2>1, <2>2, <2>3, <2>4
<1> QED
  BY <1>3, <1>4

(* A replacement is counted as the attempt it replaces.                    *)
LEMMA ReplaceCounts ==
  ASSUME TypeOK, NEW c \in Calls, NEW k \in DOMAIN att[c], ReplaceAttempt(c, k)
  PROVE  /\ LiveCount(c)' = LiveCount(c)
         /\ \A d \in Calls : d # c => att'[d] = att[d]
         /\ UNCHANGED <<attempts, claimed, handler, result>>
<1>1. PICK w \in Workers :
        /\ Retired(c, k) \in Seq(Attempt)
        /\ Len(Retired(c, k)) = Len(att[c])
        /\ Retired(c, k)[k].pc = "over"
        /\ \A j \in DOMAIN att[c] : j # k => Retired(c, k)[j] = att[c][j]
        /\ att' = [att EXCEPT ![c] = Append(Retired(c, k), Launch(w))]
  BY ReplaceBecomes
<1>2. att[c] \in Seq(Attempt) /\ att[c][k].pc = "snapped"
  BY DEF TypeOK, ReplaceAttempt
<1>3. k \in Live(c)
  BY <1>2 DEF Live, InTheAir
<1>4. LiveIn(Retired(c, k)) = Live(c) \ {k}
  <2>1. DOMAIN Retired(c, k) = DOMAIN att[c]
    BY <1>1, <1>2
  <2>2. ~InTheAir(Retired(c, k)[k])
    BY <1>1 DEF InTheAir
  <2> QED
    BY <1>1, <2>1, <2>2 DEF Live, LiveIn
<1>5. att'[c] = Append(Retired(c, k), Launch(w)) /\ \A d \in Calls : d # c => att'[d] = att[d]
  BY <1>1 DEF TypeOK
<1>6. LiveCount(c)' = Cardinality(LiveIn(Retired(c, k))) + 1
  BY <1>1, <1>5, LiveAppend
<1>7. Cardinality(Live(c) \ {k}) = LiveCount(c) - 1 /\ LiveCount(c) \in Nat
  BY <1>2, <1>3, LiveIsFinite, FS_RemoveElement DEF LiveCount
<1>8. UNCHANGED <<attempts, claimed, handler, result>>
  BY DEF ReplaceAttempt, handlerVars
<1>9. LiveCount(c)' = LiveCount(c)
  BY <1>4, <1>6, <1>7
<1> QED
  BY <1>5, <1>8, <1>9

(* Register starts one attempt, and the gauge at one.                      *)
LEMMA RegisterCounts ==
  ASSUME TypeOK, NEW c \in Calls, Register(c)
  PROVE  /\ LiveCount(c)' = 1 /\ attempts'[c] = 1 /\ handler[c] = "picked"
         /\ Live(c)' = {1}
         /\ \A d \in Calls : d # c => UNCHANGED <<att[d], attempts[d]>>
         /\ UNCHANGED claimed
<1>1. att'[c] = <<Launch(picked[c])>> /\ \A d \in Calls : d # c => att'[d] = att[d]
  BY DEF Register, TypeOK
<1>2. Live(c)' = {1}
  BY <1>1 DEF Live, InTheAir, Launch
<1>3. LiveCount(c)' = 1
  BY <1>2, FS_Singleton DEF LiveCount
<1> QED
  BY <1>1, <1>2, <1>3 DEF Register, TypeOK

(* An attempt's own step: it leaves the air together with the gauge, or    *)
(* behind a latch that is or gets closed, or not at all.                   *)
LEMMA AttemptCounts ==
  ASSUME TypeOK, NEW c \in Calls, NEW k \in DOMAIN att[c], AttemptStep(c, k), ~ReplaceAttempt(c, k)
  PROVE  /\ \/ /\ LiveCount(c)' = LiveCount(c)
               /\ attempts'[c] = attempts[c] /\ claimed'[c] = claimed[c]
            \/ /\ LiveCount(c)' = LiveCount(c) - 1
               /\ attempts'[c] = attempts[c] - 1 /\ claimed'[c] = claimed[c]
            \/ /\ LiveCount(c)' \in {LiveCount(c), LiveCount(c) - 1}
               /\ attempts'[c] = attempts[c] /\ claimed'[c] = TRUE
         /\ \A d \in Calls : d # c =>
              /\ LiveCount(d)' = LiveCount(d)
              /\ UNCHANGED <<att[d], attempts[d], claimed[d]>>
<1>0. att[c] \in Seq(Attempt) /\ att[c][k] \in Attempt /\ claimed \in [Calls -> BOOLEAN]
  BY DEF TypeOK
<1>1. k \in Live(c) <=> InTheAir(att[c][k])
  BY DEF Live
<1>2. ASSUME NEW kind \in Outcomes, settle(c, k, kind)
      PROVE  /\ LiveCount(c)' \in {LiveCount(c), LiveCount(c) - 1}
             /\ claimed'[c] = TRUE
             /\ \A d \in Calls : d # c =>
                  LiveCount(d)' = LiveCount(d) /\ UNCHANGED <<att[d], claimed[d]>>
  <2> DEFINE a == [att[c][k] EXCEPT !.pc = IF claimed[c] THEN "over" ELSE "sending", !.res = kind]
  <2>1. a \in Attempt /\ Becomes(c, k, a)
    BY <1>2, SettleBecomes
  <2>2. a.pc \in {"over", "sending"}
    BY <1>0 DEF Attempt
  <2> HIDE DEF a
  <2>3. ~InTheAir(a)
    BY <2>2 DEF InTheAir
  <2>4. /\ LiveCount(c)' = LiveCount(c) - (IF k \in Live(c) THEN 1 ELSE 0)
        /\ LiveCount(c) \in Nat
        /\ \A d \in Calls : d # c => att'[d] = att[d] /\ LiveCount(d)' = LiveCount(d)
    BY <2>1, <2>3, LiveBecomes
  <2>5. claimed' = [claimed EXCEPT ![c] = TRUE]
    BY <1>2 DEF settle
  <2> QED
    BY <1>0, <2>4, <2>5
<1>3. CASE AttemptSucceeds(c, k)
  <2>1. settle(c, k, "ok") /\ "ok" \in Outcomes /\ UNCHANGED attempts
    BY <1>3 DEF AttemptSucceeds, guardedVars, Outcomes
  <2> QED
    BY <1>2, <2>1
<1>4. CASE SettleError(c, k)
  <2>1. settle(c, k, att[c][k].res) /\ att[c][k].res \in Outcomes /\ UNCHANGED attempts
    BY <1>0, <1>4 DEF SettleError, guardedVars, Attempt
  <2> QED
    BY <1>2, <2>1
<1>5. ASSUME NEW err \in ErrorCodes, AttemptFails(c, k, err)
      PROVE  /\ \/ LiveCount(c)' = LiveCount(c)
                \/ LiveCount(c)' = LiveCount(c) - 1 /\ claimed[c]
             /\ UNCHANGED <<attempts, claimed>>
             /\ \A d \in Calls : d # c => att'[d] = att[d] /\ LiveCount(d)' = LiveCount(d)
  <2>1. PICK a \in Attempt :
          /\ Becomes(c, k, a)
          /\ \/ claimed[c] /\ a.pc = "over"
             \/ ~claimed[c] /\ a.pc = "retry"
             \/ ~claimed[c] /\ a.pc = "settling" /\ a.res = "terminal"
    BY <1>5, FailBecomes
  <2>2. att[c][k].pc = "rpc" /\ UNCHANGED <<attempts, claimed>>
    BY <1>5 DEF AttemptFails, guardedVars
  <2>3. k \in Live(c)
    BY <1>1, <2>2 DEF InTheAir
  <2>4. InTheAir(a) \/ (~InTheAir(a) /\ claimed[c])
    BY <2>1 DEF InTheAir
  <2>5. /\ LiveCount(c)' = LiveCount(c) + (IF InTheAir(a) THEN 1 ELSE 0) - 1
        /\ LiveCount(c) \in Nat
        /\ \A d \in Calls : d # c => att'[d] = att[d] /\ LiveCount(d)' = LiveCount(d)
    BY <2>1, <2>3, LiveBecomes
  <2> QED
    BY <2>2, <2>4, <2>5
<1>6. CASE SnapshotCandidates(c, k)
  <2>1. PICK a \in Attempt : Becomes(c, k, a) /\ a.pc = "snapped"
    BY <1>6, SnapshotBecomes
  <2>2. att[c][k].pc = "retry" /\ UNCHANGED <<attempts, claimed>>
    BY <1>6 DEF SnapshotCandidates, guardedVars
  <2>3. k \in Live(c) /\ InTheAir(a)
    BY <1>1, <2>1, <2>2 DEF InTheAir
  <2>4. /\ LiveCount(c)' = LiveCount(c) + 1 - 1 /\ LiveCount(c) \in Nat
        /\ \A d \in Calls : d # c => att'[d] = att[d] /\ LiveCount(d)' = LiveCount(d)
    BY <2>1, <2>3, LiveBecomes
  <2> QED
    BY <2>2, <2>4
<1>7. CASE DropAttempt(c, k)
  <2>1. PICK a \in Attempt :
          /\ Becomes(c, k, a)
          /\ (a.pc = "settling" /\ a.res = "exhausted") \/ a.pc = "over"
    BY <1>7, DropBecomes
  <2>2. /\ att[c][k].pc = "snapped" /\ UNCHANGED claimed
        /\ attempts' = [attempts EXCEPT ![c] = attempts[c] - 1]
    BY <1>7 DEF DropAttempt
  <2>3. k \in Live(c) /\ ~InTheAir(a)
    BY <1>1, <2>1, <2>2 DEF InTheAir
  <2>4. /\ LiveCount(c)' = LiveCount(c) + 0 - 1 /\ LiveCount(c) \in Nat
        /\ \A d \in Calls : d # c => att'[d] = att[d] /\ LiveCount(d)' = LiveCount(d)
    BY <2>1, <2>3, LiveBecomes
  <2>5. attempts'[c] = attempts[c] - 1 /\ \A d \in Calls : d # c => attempts'[d] = attempts[d]
    BY <2>2 DEF TypeOK
  <2> QED
    BY <2>2, <2>4, <2>5
<1>8. CASE SendResult(c, k)
  <2> DEFINE a == [att[c][k] EXCEPT !.pc = "won"]
  <2>1. a \in Attempt /\ Becomes(c, k, a)
    BY <1>8, SendBecomes
  <2>2. att[c][k].pc = "sending" /\ UNCHANGED <<attempts, claimed>>
    BY <1>8 DEF SendResult, guardedVars
  <2>3. a.pc = "won"
    BY <1>0 DEF Attempt
  <2> HIDE DEF a
  <2>4. k \notin Live(c) /\ ~InTheAir(a)
    BY <1>1, <2>2, <2>3 DEF InTheAir
  <2>5. /\ LiveCount(c)' = LiveCount(c) + 0 - 0 /\ LiveCount(c) \in Nat
        /\ \A d \in Calls : d # c => att'[d] = att[d] /\ LiveCount(d)' = LiveCount(d)
    BY <2>1, <2>4, LiveBecomes
  <2> QED
    BY <2>2, <2>5
<1> HIDE DEF LiveCount
<1> QED
  BY <1>0, <1>3, <1>4, <1>5, <1>6, <1>7, <1>8 DEF AttemptStep

(* What a handler does before and after its registration touches no gauge. *)
LEMMA HandlerKeepsGauges ==
  ASSUME NEW c \in Calls, HandlerStep(c), ~Register(c)
  PROVE  UNCHANGED <<guardedVars, claimed, att>>
BY DEF HandlerStep, BeginGenerate, Registration, GenerateWithoutId, GenerateWithoutWorkers,
       PickWorker, RegisterDuplicate, Refuse, Receive, GiveUp, Unregister

\* what any step does to the count and to the gauge of call c
Counted(c) ==
  \/ /\ LiveCount(c)' = LiveCount(c)
     /\ attempts'[c] = attempts[c] /\ claimed'[c] = claimed[c]
  \/ /\ LiveCount(c)' = LiveCount(c) + 1
     /\ attempts'[c] = attempts[c] + 1 /\ claimed'[c] = claimed[c]
     /\ Tracked(c) /\ assigned[c] \in departed
  \/ LiveCount(c)' = 1 /\ attempts'[c] = 1 /\ handler[c] = "picked"
  \/ /\ LiveCount(c)' = LiveCount(c) - 1
     /\ attempts'[c] = attempts[c] - 1 /\ claimed'[c] = claimed[c]
  \/ /\ LiveCount(c)' \in {LiveCount(c), LiveCount(c) - 1}
     /\ attempts'[c] = attempts[c] /\ claimed'[c] = TRUE

(* Every step does one of these to every call.                             *)
LEMMA CountSteps ==
  ASSUME TypeOK, [Next]_vars, NEW c \in Calls
  PROVE  Counted(c)
<1>0. ASSUME UNCHANGED <<att[c], attempts[c], claimed[c]>>
      PROVE  Counted(c)
  BY <1>0 DEF Counted, LiveCount, Live, InTheAir
<1>1. CASE UNCHANGED vars \/ \E fresh \in SUBSET Workers : PollOnce(fresh)
  BY <1>0, <1>1 DEF vars, guardedVars, PollOnce
<1>2. CASE RerouteFrom
  <2>1. UNCHANGED claimed
    BY <1>2 DEF RerouteFrom
  <2> QED
    BY <1>0, <1>2, <2>1, RerouteCounts DEF Counted
<1>3. ASSUME NEW d \in Calls, HandlerStep(d)
      PROVE  Counted(c)
  <2>1. CASE ~Register(d)
    BY <1>0, <1>3, <2>1, HandlerKeepsGauges DEF guardedVars
  <2>2. CASE Register(d) /\ d # c
    BY <1>0, <2>2, RegisterCounts
  <2>3. CASE Register(d) /\ d = c
    BY <2>3, RegisterCounts DEF Counted
  <2> QED
    BY <2>1, <2>2, <2>3
<1>4. ASSUME NEW d \in Calls, NEW k \in DOMAIN att[d], AttemptStep(d, k)
      PROVE  Counted(c)
  <2>1. CASE ReplaceAttempt(d, k) /\ d # c
    BY <1>0, <2>1, ReplaceCounts
  <2>2. CASE ReplaceAttempt(d, k) /\ d = c
    BY <2>2, ReplaceCounts DEF Counted
  <2>3. CASE ~ReplaceAttempt(d, k) /\ d # c
    BY <1>0, <1>4, <2>3, AttemptCounts
  <2>4. CASE ~ReplaceAttempt(d, k) /\ d = c
    BY <1>4, <2>4, AttemptCounts DEF Counted
  <2> QED
    BY <2>1, <2>2, <2>3, <2>4
<1> QED
  BY <1>1, <1>2, <1>3, <1>4 DEF Next, PollStep

----------------------------------------------------------------------------
(* The gauge.                                                              *)

(* Every step keeps the gauge: an attempt that leaves the air without      *)
(* taking itself off the gauge leaves it too high, and has closed the      *)
(* latch or met it closed.                                                 *)
LEMMA GaugeStep == TypeOK /\ GaugeCountsLiveAttempts /\ [Next]_vars => GaugeCountsLiveAttempts'
<1> SUFFICES ASSUME TypeOK, GaugeCountsLiveAttempts, [Next]_vars, NEW c \in Calls
             PROVE  /\ attempts'[c] >= LiveCount(c)'
                    /\ ~claimed'[c] => attempts'[c] = LiveCount(c)'
  BY DEF GaugeCountsLiveAttempts, LiveCount
<1>1. attempts[c] >= LiveCount(c) /\ (~claimed[c] => attempts[c] = LiveCount(c))
  BY DEF GaugeCountsLiveAttempts, LiveCount
<1>2. LiveCount(c) \in Nat /\ attempts[c] \in Int
  BY LiveIsFinite DEF TypeOK
<1>3. Counted(c)
  BY CountSteps
<1> QED
  BY <1>1, <1>2, <1>3 DEF Counted

(* inflight.attempts never drops below the number of attempts in the air,  *)
(* and is that number until the race is decided: the code's "nobody is     *)
(* left to answer" is what a zero means.                                   *)
THEOREM GaugeIsRight == Spec => []GaugeCountsLiveAttempts
<1>1. Init => GaugeCountsLiveAttempts
  <2> SUFFICES ASSUME Init, NEW c \in Calls
               PROVE  attempts[c] = 0 /\ Cardinality(Live(c)) = 0
    BY DEF GaugeCountsLiveAttempts
  <2>1. Live(c) = {}
    BY DEF Init, Live
  <2> QED
    BY <2>1, FS_EmptySet DEF Init
<1> QED
  BY <1>1, TypeCorrect, GaugeStep, PTL DEF Spec

(* Whatever the attempts of a request do, nothing but a registration or    *)
(* the departure of its assigned worker adds to the attempts in the air.   *)
THEOREM DuplicatesNeedDeparture == Spec => OnlyDepartureDuplicates
<1>1. ASSUME TypeOK, [Next]_vars, NEW c \in Calls, Cardinality(Live(c)') > Cardinality(Live(c))
      PROVE  handler[c] = "picked" \/ (Tracked(c) /\ assigned[c] \in departed)
  <2>1. LiveCount(c)' > LiveCount(c)
    BY <1>1 DEF LiveCount
  <2>2. LiveCount(c) \in Nat
    BY <1>1, LiveIsFinite DEF TypeOK
  <2>3. Counted(c)
    BY <1>1, CountSteps
  <2> QED
    BY <2>1, <2>2, <2>3 DEF Counted
<1>2. TypeOK /\ [Next]_vars =>
        [\A c \in Calls : Cardinality(Live(c)') > Cardinality(Live(c)) =>
           handler[c] = "picked" \/ (Tracked(c) /\ assigned[c] \in departed)]_vars
  BY <1>1
<1> QED
  BY <1>2, TypeCorrect, PTL DEF Spec, OnlyDepartureDuplicates

----------------------------------------------------------------------------
(* The exhaustion error.                                                   *)

(* The only way into settling with exhaustion is a drop by the last        *)
(* attempt on the gauge.                                                   *)
LEMMA ExhaustionIsADrop ==
  ASSUME TypeOK, RacesOK, [Next]_vars, NEW c \in Calls, NEW k \in DOMAIN att[c],
         att[c][k].pc # "settling", att'[c][k].pc = "settling", att'[c][k].res = "exhausted"
  PROVE  DropAttempt(c, k) /\ LastInTheAir(c)
<1>0. att'[c][k] # att[c][k] /\ att[c] \in Seq(Attempt) /\ att[c][k] \in Attempt
  BY DEF TypeOK
<1>1. CASE UNCHANGED vars \/ \E fresh \in SUBSET Workers : PollOnce(fresh)
  BY <1>0, <1>1 DEF vars, PollOnce
<1>2. CASE RerouteFrom
  <2>1. PICK w \in Workers : att'[c] = Append(att[c], Launch(w))
    BY <1>0, <1>2, RerouteCounts
  <2>2. Append(att[c], Launch(w))[k] = att[c][k]
    BY <1>0
  <2> QED
    BY <1>0, <2>1, <2>2
<1>3. ASSUME NEW d \in Calls, HandlerStep(d)
      PROVE  FALSE
  <2>1. Register(d)
    BY <1>0, <1>3, HandlerKeepsGauges
  <2>2. d = c
    BY <1>0, <2>1, RegisterCounts
  <2>3. att[c] = << >>
    BY <2>1, <2>2, RegisterCounts DEF RacesOK, RaceOK
  <2> QED
    BY <2>3
<1>4. ASSUME NEW d \in Calls, NEW j \in DOMAIN att[d], AttemptStep(d, j)
      PROVE  DropAttempt(c, k) /\ LastInTheAir(c)
  <2>1. CASE d # c
    <3>1. att'[c] = att[c]
      BY <1>4, <2>1, ReplaceCounts, AttemptCounts
    <3> QED
      BY <1>0, <3>1
  <2>2. CASE d = c /\ ReplaceAttempt(c, j)
    <3>1. PICK w \in Workers :
            /\ Retired(c, j) \in Seq(Attempt) /\ Len(Retired(c, j)) = Len(att[c])
            /\ Retired(c, j)[j].pc = "over"
            /\ \A i \in DOMAIN att[c] : i # j => Retired(c, j)[i] = att[c][i]
            /\ att' = [att EXCEPT ![c] = Append(Retired(c, j), Launch(w))]
      BY <1>4, <2>2, ReplaceBecomes
    <3>2. att'[c] = Append(Retired(c, j), Launch(w))
      BY <3>1 DEF TypeOK
    <3>3. att'[c][k] = Retired(c, j)[k]
      BY <1>0, <3>1, <3>2
    <3> QED
      BY <1>0, <3>1, <3>3
  <2>3. CASE d = c /\ ~ReplaceAttempt(c, j)
    <3>0. j \in DOMAIN att[c]
      BY <1>4, <2>3
    <3>1. ASSUME NEW a \in Attempt, Becomes(c, j, a)
          PROVE  j = k /\ a.pc = "settling" /\ a.res = "exhausted"
      <4>1. att'[c][j] = a /\ \A i \in DOMAIN att[c] : i # j => att'[c][i] = att[c][i]
        BY <3>0, <3>1, BecomesTyped
      <4> QED
        BY <1>0, <4>1
    <3>2. ASSUME NEW kind \in Outcomes, settle(c, j, kind)
          PROVE  FALSE
      <4> DEFINE a == [att[c][j] EXCEPT !.pc = IF claimed[c] THEN "over" ELSE "sending", !.res = kind]
      <4>1. a \in Attempt /\ Becomes(c, j, a)
        BY <3>0, <3>2, SettleBecomes
      <4>2. a.pc \in {"over", "sending"}
        BY <1>0, <3>0 DEF Attempt, TypeOK
      <4> HIDE DEF a
      <4> QED
        BY <3>1, <4>1, <4>2
    <3>3. CASE AttemptSucceeds(c, j)
      BY <3>2, <3>3 DEF AttemptSucceeds, Outcomes
    <3>4. CASE SettleError(c, j)
      <4>1. att[c][j] \in Attempt /\ att[c][j].pc = "settling" /\ settle(c, j, att[c][j].res)
        BY <1>0, <3>0, <3>4 DEF SettleError
      <4> QED
        BY <3>2, <4>1 DEF Attempt
    <3>5. ASSUME NEW err \in ErrorCodes, AttemptFails(c, j, err)
          PROVE  FALSE
      BY <3>0, <3>1, <3>5, FailBecomes
    <3>6. CASE SnapshotCandidates(c, j)
      BY <3>0, <3>1, <3>6, SnapshotBecomes
    <3>7. CASE SendResult(c, j)
      <4> DEFINE a == [att[c][j] EXCEPT !.pc = "won"]
      <4>1. a \in Attempt /\ Becomes(c, j, a)
        BY <3>0, <3>7, SendBecomes
      <4>2. att[c][j] \in Attempt
        BY <1>0, <3>0
      <4>3. a.pc = "won"
        BY <4>2 DEF Attempt
      <4> HIDE DEF a
      <4> QED
        BY <3>1, <4>1, <4>3
    <3>8. CASE DropAttempt(c, j)
      <4>1. PICK a \in Attempt :
              /\ Becomes(c, j, a)
              /\ (LastInTheAir(c) /\ a.pc = "settling") \/ a.pc = "over"
        BY <3>0, <3>8, DropBecomes
      <4>2. j = k /\ a.pc = "settling"
        BY <3>1, <4>1
      <4> QED
        BY <3>8, <4>1, <4>2
    <3> QED
      BY <1>4, <2>3, <3>3, <3>4, <3>5, <3>6, <3>7, <3>8 DEF AttemptStep
  <2> QED
    BY <1>4, <2>1, <2>2, <2>3
<1> QED
  BY <1>1, <1>2, <1>3, <1>4 DEF Next, PollStep

(* "Nobody is left to answer": attemptFailed decides on the exhaustion     *)
(* error at a moment when no attempt of the request is in the air.         *)
THEOREM ExhaustionIsSilent == Spec => ExhaustionNeedsSilence
<1>1. ASSUME TypeOK, RacesOK, GaugeCountsLiveAttempts, [Next]_vars,
             NEW c \in Calls, NEW k \in DOMAIN att[c],
             att[c][k].pc # "settling", att'[c][k].pc = "settling", att'[c][k].res = "exhausted"
      PROVE  Live(c)' = {}
  <2>1. DropAttempt(c, k) /\ LastInTheAir(c)
    BY <1>1, ExhaustionIsADrop
  <2>2. attempts'[c] = 0
    BY <1>1, <2>1 DEF DropAttempt, LastInTheAir, TypeOK
  <2>3. GaugeCountsLiveAttempts' /\ TypeOK'
    BY <1>1, GaugeStep, TypeOKStep
  <2>4. IsFiniteSet(Live(c)') /\ LiveCount(c)' \in Nat
    BY <2>3, LiveIsFinite DEF TypeOK
  <2>5. Cardinality(Live(c)') = 0
    BY <2>2, <2>3, <2>4 DEF GaugeCountsLiveAttempts, LiveCount
  <2> QED
    BY <2>4, <2>5, FS_EmptySet
<1>2. TypeOK /\ RacesOK /\ GaugeCountsLiveAttempts /\ [Next]_vars =>
        [\A c \in Calls : \A k \in DOMAIN att[c] :
           /\ att[c][k].pc # "settling"
           /\ att'[c][k].pc = "settling"
           /\ att'[c][k].res = "exhausted"
           => Live(c)' = {}]_vars
  BY <1>1
<1> QED
  BY <1>2, TypeCorrect, RacesHold, GaugeIsRight, PTL DEF Spec, ExhaustionNeedsSilence

----------------------------------------------------------------------------
(* The waiting handler.                                                    *)

\* before the decision somebody is left: in the air or about to settle
SomeoneIsLeft(c) ==
  ~claimed[c] /\ att[c] # << >> =>
    Live(c) # {} \/ \E k \in DOMAIN att[c] : att[c][k].pc = "settling"

\* the handler waits for attempts, and a result that was sent waits for it
WaitIsFounded(c) ==
  handler[c] = "waiting" =>
    /\ att[c] # << >>
    /\ \A k \in DOMAIN att[c] : att[c][k].pc = "won" => result[c] # NoResult

ServiceOK == \A c \in Calls : SomeoneIsLeft(c) /\ WaitIsFounded(c)

(* Leaving a call's variables alone leaves its service alone.              *)
LEMMA ServiceFrame ==
  ASSUME NEW c \in Calls, SomeoneIsLeft(c), WaitIsFounded(c),
         UNCHANGED <<att[c], claimed[c]>>,
         handler'[c] = "waiting" => handler[c] = "waiting" /\ result'[c] = result[c]
  PROVE  (SomeoneIsLeft(c) /\ WaitIsFounded(c))'
BY DEF SomeoneIsLeft, WaitIsFounded, Live, InTheAir

(* A launch leaves at least the launched attempt in the air.               *)
LEMMA ServiceLaunch ==
  ASSUME NEW c \in Calls, WaitIsFounded(c), att[c] \in Seq(Attempt),
         NEW s \in Seq(Attempt), NEW w \in Workers, Len(s) = Len(att[c]),
         \A j \in DOMAIN att[c] : s[j] = att[c][j] \/ s[j].pc = "over",
         att'[c] = Append(s, Launch(w)), UNCHANGED <<handler[c], result[c]>>
  PROVE  (SomeoneIsLeft(c) /\ WaitIsFounded(c))'
<1>1. Live(c)' # {}
  BY LiveAppend
<1>2. /\ DOMAIN att'[c] = DOMAIN att[c] \cup {Len(att[c]) + 1}
      /\ \A j \in DOMAIN att[c] : att'[c][j] = s[j]
      /\ att'[c][Len(att[c]) + 1] = Launch(w)
  BY AppendAttempt
<1>3. \A j \in DOMAIN att'[c] : att'[c][j].pc = "won" => j \in DOMAIN att[c] /\ att[c][j].pc = "won"
  <2>1. att'[c][Len(att[c]) + 1].pc = "rpc"
    BY <1>2 DEF Launch
  <2> SUFFICES ASSUME NEW j \in DOMAIN att'[c], att'[c][j].pc = "won"
               PROVE  j \in DOMAIN att[c] /\ att[c][j].pc = "won"
    OBVIOUS
  <2>2. j \in DOMAIN att[c]
    BY <1>2, <2>1
  <2>3. s[j].pc = "won"
    BY <1>2, <2>2
  <2> QED
    BY <2>2, <2>3
<1>4. att'[c] # << >>
  BY <1>2
<1> QED
  BY <1>1, <1>3, <1>4 DEF SomeoneIsLeft, WaitIsFounded

(* A step of an attempt: whoever leaves the air before the decision leaves *)
(* another one there, or goes on to settle; whoever has won has sent.      *)
LEMMA ServiceAttempt ==
  ASSUME TypeOK, GaugeCountsLiveAttempts, RacesOK, ServiceOK, [Next]_vars,
         NEW c \in Calls, NEW k \in DOMAIN att[c], AttemptStep(c, k), ~ReplaceAttempt(c, k)
  PROVE  (SomeoneIsLeft(c) /\ WaitIsFounded(c))'
<1>0. /\ att[c] \in Seq(Attempt) /\ att[c][k] \in Attempt /\ claimed \in [Calls -> BOOLEAN]
      /\ WaitIsFounded(c) /\ RaceOK(c) /\ GaugeCountsLiveAttempts'
  BY GaugeStep DEF TypeOK, ServiceOK, RacesOK
<1>1. ASSUME NEW a \in Attempt, Becomes(c, k, a), UNCHANGED handler,
             InTheAir(a) \/ a.pc = "settling" \/ claimed'[c] = TRUE \/ Live(c)' # {},
             IF a.pc = "won" THEN result'[c] # NoResult ELSE UNCHANGED result
      PROVE  (SomeoneIsLeft(c) /\ WaitIsFounded(c))'
  <2>1. /\ DOMAIN att'[c] = DOMAIN att[c]
        /\ att'[c][k] = a
        /\ \A j \in DOMAIN att[c] : j # k => att'[c][j] = att[c][j]
    BY <1>1, BecomesTyped
  <2>2. SomeoneIsLeft(c)'
    <3>1. InTheAir(a) => k \in Live(c)'
      BY <1>1, LiveBecomes
    <3>2. a.pc = "settling" => k \in DOMAIN att'[c] /\ att'[c][k].pc = "settling"
      BY <2>1
    <3> QED
      BY <1>1, <3>1, <3>2 DEF SomeoneIsLeft
  <2>3. WaitIsFounded(c)'
    <3>1. att'[c] # << >>
      BY <1>0, <2>1
    <3>2. ASSUME handler[c] = "waiting", NEW j \in DOMAIN att[c], att'[c][j].pc = "won"
          PROVE  result'[c] # NoResult
      <4>1. CASE a.pc = "won"
        BY <1>1, <4>1
      <4>2. CASE a.pc # "won"
        <5>1. j # k /\ att[c][j].pc = "won"
          BY <2>1, <3>2, <4>2
        <5> QED
          BY <1>0, <1>1, <3>2, <4>2, <5>1 DEF WaitIsFounded
      <4> QED
        BY <4>1, <4>2
    <3> QED
      BY <1>1, <2>1, <3>1, <3>2 DEF WaitIsFounded
  <2> QED
    BY <2>2, <2>3
<1>2. ASSUME NEW kind \in Outcomes, settle(c, k, kind), UNCHANGED <<handler, result>>
      PROVE  (SomeoneIsLeft(c) /\ WaitIsFounded(c))'
  <2> DEFINE a == [att[c][k] EXCEPT !.pc = IF claimed[c] THEN "over" ELSE "sending", !.res = kind]
  <2>1. a \in Attempt /\ Becomes(c, k, a)
    BY <1>2, SettleBecomes
  <2>2. a.pc \in {"over", "sending"}
    BY <1>0 DEF Attempt
  <2>3. claimed'[c] = TRUE
    BY <1>0, <1>2 DEF settle
  <2> HIDE DEF a
  <2> QED
    BY <1>1, <1>2, <2>1, <2>2, <2>3
<1>3. CASE AttemptSucceeds(c, k)
  BY <1>2, <1>3 DEF AttemptSucceeds, handlerVars, Outcomes
<1>4. CASE SettleError(c, k)
  <2>1. att[c][k].res \in Outcomes
    BY <1>0, <1>4 DEF SettleError, Attempt
  <2> QED
    BY <1>2, <1>4, <2>1 DEF SettleError, handlerVars
<1>5. ASSUME NEW err \in ErrorCodes, AttemptFails(c, k, err)
      PROVE  (SomeoneIsLeft(c) /\ WaitIsFounded(c))'
  <2>1. PICK a \in Attempt :
          /\ Becomes(c, k, a)
          /\ (claimed[c] /\ a.pc = "over") \/ a.pc = "retry" \/ a.pc = "settling"
    BY <1>5, FailBecomes
  <2>2. UNCHANGED <<handler, result, claimed>>
    BY <1>5 DEF AttemptFails, handlerVars
  <2> QED
    BY <1>0, <1>1, <2>1, <2>2 DEF InTheAir
<1>6. CASE SnapshotCandidates(c, k)
  <2>1. PICK a \in Attempt : Becomes(c, k, a) /\ a.pc = "snapped"
    BY <1>6, SnapshotBecomes
  <2>2. UNCHANGED <<handler, result>>
    BY <1>6 DEF SnapshotCandidates, handlerVars
  <2> QED
    BY <1>1, <2>1, <2>2 DEF InTheAir
<1>7. CASE DropAttempt(c, k)
  <2>1. PICK a \in Attempt :
          /\ Becomes(c, k, a)
          /\ a.pc = "settling" \/ (~LastInTheAir(c) /\ a.pc = "over")
    BY <1>7, DropBecomes
  <2>2. UNCHANGED <<handler, result, claimed>> /\ attempts'[c] = attempts[c] - 1
    BY <1>7 DEF DropAttempt, handlerVars, TypeOK
  <2>3. ~LastInTheAir(c) /\ ~claimed'[c] => Live(c)' # {}
    <3>1. ~claimed'[c] => attempts'[c] = Cardinality(Live(c)')
      BY <1>0 DEF GaugeCountsLiveAttempts
    <3>2. ~LastInTheAir(c) => attempts'[c] # 0
      BY <2>2 DEF LastInTheAir
    <3> QED
      BY <3>1, <3>2, FS_EmptySet
  <2>4. claimed'[c] = TRUE \/ ~claimed'[c]
    BY <1>0, <2>2
  <2> QED
    BY <1>1, <2>1, <2>2, <2>3, <2>4
<1>8. CASE SendResult(c, k)
  <2> DEFINE a == [att[c][k] EXCEPT !.pc = "won"]
  <2>1. a \in Attempt /\ Becomes(c, k, a)
    BY <1>8, SendBecomes
  <2>2. a.pc = "won"
    BY <1>0 DEF Attempt
  <2>3. att[c][k].res \in Outcomes
    BY <1>0, <1>8 DEF SendResult, Attempt
  <2>4. result'[c].kind = att[c][k].res /\ UNCHANGED <<handler, claimed>>
    BY <1>8 DEF SendResult, handlerVars, TypeOK
  <2>5. result'[c] # NoResult
    BY <2>3, <2>4 DEF NoResult, Outcomes
  <2>6. Winner(c, k)
    BY <1>8 DEF SendResult, Winner
  <2>7. claimed'[c] = TRUE
    BY <1>0, <2>4, <2>6 DEF RaceOK
  <2> HIDE DEF a
  <2> QED
    BY <1>1, <2>1, <2>2, <2>4, <2>5, <2>7
<1> QED
  BY <1>3, <1>4, <1>5, <1>6, <1>7, <1>8 DEF AttemptStep

(* Every step keeps every waiting handler served.                          *)
LEMMA ServiceStep ==
  TypeOK /\ GaugeCountsLiveAttempts /\ RacesOK /\ ServiceOK /\ [Next]_vars => ServiceOK'
<1> SUFFICES ASSUME TypeOK, GaugeCountsLiveAttempts, RacesOK, ServiceOK, [Next]_vars, NEW c \in Calls
             PROVE  (SomeoneIsLeft(c) /\ WaitIsFounded(c))'
  BY DEF ServiceOK
<1>0. SomeoneIsLeft(c) /\ WaitIsFounded(c) /\ att[c] \in Seq(Attempt)
  BY DEF ServiceOK, TypeOK
<1>1. CASE UNCHANGED vars \/ \E fresh \in SUBSET Workers : PollOnce(fresh)
  BY <1>0, <1>1, ServiceFrame DEF vars, handlerVars, PollOnce
<1>2. CASE RerouteFrom
  <2>1. UNCHANGED <<handler, result, claimed>>
    BY <1>2 DEF RerouteFrom, handlerVars
  <2>2. CASE att'[c] = att[c]
    BY <1>0, <2>1, <2>2, ServiceFrame
  <2>3. CASE \E w \in Workers : att'[c] = Append(att[c], Launch(w))
    BY <1>0, <2>1, <2>3, ServiceLaunch
  <2> QED
    BY <1>2, <2>2, <2>3, RerouteCounts
<1>3. ASSUME NEW d \in Calls, HandlerStep(d), ~Register(d)
      PROVE  (SomeoneIsLeft(c) /\ WaitIsFounded(c))'
  <2>1. UNCHANGED <<att, claimed>>
    BY <1>3, HandlerKeepsGauges
  <2>2. handler'[c] = "waiting" => handler[c] = "waiting" /\ result'[c] = result[c]
    BY <1>3 DEF TypeOK, HandlerStep, BeginGenerate, Registration, GenerateWithoutId,
                GenerateWithoutWorkers, PickWorker, RegisterDuplicate, Refuse, Receive, GiveUp,
                Unregister
  <2> QED
    BY <1>0, <2>1, <2>2, ServiceFrame
<1>4. ASSUME NEW d \in Calls, Register(d)
      PROVE  (SomeoneIsLeft(c) /\ WaitIsFounded(c))'
  <2>1. UNCHANGED <<claimed, result>> /\ (d # c => UNCHANGED <<handler[c], att[c]>>)
    BY <1>4, RegisterCounts DEF Register, TypeOK
  <2>2. CASE d # c
    BY <1>0, <2>1, <2>2, ServiceFrame
  <2>3. CASE d = c
    <3>1. att'[c] = <<Launch(picked[c])>> /\ Live(c)' = {1}
      BY <1>4, <2>3, RegisterCounts DEF Register, TypeOK
    <3>2. att'[c] # << >> /\ \A k \in DOMAIN att'[c] : att'[c][k].pc = "rpc"
      BY <3>1 DEF Launch
    <3> QED
      BY <3>1, <3>2 DEF SomeoneIsLeft, WaitIsFounded
  <2> QED
    BY <2>2, <2>3
<1>5. ASSUME NEW d \in Calls, NEW k \in DOMAIN att[d], ReplaceAttempt(d, k)
      PROVE  (SomeoneIsLeft(c) /\ WaitIsFounded(c))'
  <2>1. UNCHANGED <<handler, result, claimed>> /\ (d # c => att'[c] = att[c])
    BY <1>5, ReplaceCounts
  <2>2. CASE d # c
    BY <1>0, <2>1, <2>2, ServiceFrame
  <2>3. CASE d = c
    <3>1. PICK w \in Workers :
            /\ Retired(c, k) \in Seq(Attempt) /\ Len(Retired(c, k)) = Len(att[c])
            /\ Retired(c, k)[k].pc = "over"
            /\ \A j \in DOMAIN att[c] : j # k => Retired(c, k)[j] = att[c][j]
            /\ att' = [att EXCEPT ![c] = Append(Retired(c, k), Launch(w))]
      BY <1>5, <2>3, ReplaceBecomes
    <3>2. att'[c] = Append(Retired(c, k), Launch(w))
      BY <3>1 DEF TypeOK
    <3> QED
      BY <1>0, <2>1, <3>1, <3>2, ServiceLaunch
  <2> QED
    BY <2>2, <2>3
<1>6. ASSUME NEW d \in Calls, NEW k \in DOMAIN att[d], AttemptStep(d, k), ~ReplaceAttempt(d, k)
      PROVE  (SomeoneIsLeft(c) /\ WaitIsFounded(c))'
  <2>1. CASE d = c
    BY <1>6, <2>1, ServiceAttempt
  <2>2. CASE d # c
    <3>1. UNCHANGED <<att[c], claimed[c]>>
      BY <1>6, <2>2, AttemptCounts
    <3>2. UNCHANGED handler
      BY <1>6 DEF AttemptStep, AttemptSucceeds, AttemptFails, SnapshotCandidates, DropAttempt,
                  SettleError, SendResult, handlerVars
    <3>3. result'[c] = result[c]
      BY <1>6, <2>2 DEF AttemptStep, AttemptSucceeds, AttemptFails, SnapshotCandidates,
                  DropAttempt, SettleError, SendResult, TypeOK
    <3> QED
      BY <1>0, <3>1, <3>2, <3>3, ServiceFrame
  <2> QED
    BY <2>1, <2>2
<1> QED
  BY <1>1, <1>2, <1>3, <1>4, <1>5, <1>6 DEF Next, PollStep

(* A parked Generate is never abandoned: an attempt is running or about to *)
(* settle, or the result is in the channel or on its way there.            *)
THEOREM WaitersAreServed == Spec => []WaiterIsServed
<1>1. Init => ServiceOK
  BY DEF Init, ServiceOK, SomeoneIsLeft, WaitIsFounded
<1>2. RacesOK /\ ServiceOK => WaiterIsServed
  <2> SUFFICES ASSUME RacesOK, ServiceOK, NEW c \in Calls, handler[c] = "waiting"
               PROVE  IF claimed[c]
                      THEN result[c] # NoResult \/ \E k \in DOMAIN att[c] : att[c][k].pc = "sending"
                      ELSE \E k \in DOMAIN att[c] : InTheAir(att[c][k]) \/ att[c][k].pc = "settling"
    BY DEF WaiterIsServed
  <2>1. CASE claimed[c]
    <3>1. PICK k \in DOMAIN att[c] : Winner(c, k)
      BY <2>1 DEF RacesOK, RaceOK
    <3> QED
      BY <2>1, <3>1 DEF Winner, ServiceOK, WaitIsFounded
  <2>2. CASE ~claimed[c]
    BY <2>2 DEF ServiceOK, SomeoneIsLeft, WaitIsFounded, Live
  <2> QED
    BY <2>1, <2>2
<1> QED
  BY <1>1, <1>2, TypeCorrect, GaugeIsRight, RacesHold, ServiceStep, PTL DEF Spec

----------------------------------------------------------------------------
(* A request that has been answered stays on the gauge.                    *)

Answered(c) == \E k \in DOMAIN att[c] : Winner(c, k) /\ att[c][k].res = "ok"

\* an attempt that answers is not taken off the gauge, so whoever fails later
\* never takes itself for the last one; errors are all that attemptFailed has
\* to settle with
AnswerCounts(c) ==
  /\ Answered(c) => attempts[c] > LiveCount(c)
  /\ \A k \in DOMAIN att[c] : att[c][k].pc = "settling" => att[c][k].res # "ok"

AnswersCount == \A c \in Calls : AnswerCounts(c)

(* A step that answers nothing leaves the gauge of an answered request     *)
(* ahead: it moves count and gauge together, or the count down.            *)
LEMMA StaysAhead ==
  ASSUME TypeOK, RacesOK, [Next]_vars, NEW c \in Calls, AnswerCounts(c),
         Answered(c)' => Answered(c)
  PROVE  Answered(c)' => attempts'[c] > LiveCount(c)'
<1> SUFFICES ASSUME Answered(c)
             PROVE  attempts'[c] > LiveCount(c)'
  OBVIOUS
<1>1. attempts[c] > LiveCount(c) /\ LiveCount(c) \in Nat /\ attempts[c] \in Int
  BY LiveIsFinite DEF AnswerCounts, TypeOK
<1>2. handler[c] # "picked"
  BY DEF Answered, RacesOK, RaceOK
<1>3. Counted(c)
  BY CountSteps
<1> QED
  BY <1>1, <1>2, <1>3 DEF Counted

(* Launching an attempt, in addition or in the place of one, answers       *)
(* nothing.                                                                *)
LEMMA LaunchAnswersNothing ==
  ASSUME NEW c \in Calls, AnswerCounts(c), att[c] \in Seq(Attempt),
         NEW s \in Seq(Attempt), NEW w \in Workers, Len(s) = Len(att[c]),
         \A j \in DOMAIN att[c] : s[j] = att[c][j] \/ s[j].pc = "over",
         att'[c] = Append(s, Launch(w))
  PROVE  /\ Answered(c)' => Answered(c)
         /\ \A k \in DOMAIN att'[c] : att'[c][k].pc = "settling" => att'[c][k].res # "ok"
<1>1. /\ DOMAIN att'[c] = DOMAIN att[c] \cup {Len(att[c]) + 1}
      /\ \A j \in DOMAIN att[c] : att'[c][j] = att[c][j] \/ att'[c][j].pc = "over"
      /\ att'[c][Len(att[c]) + 1].pc = "rpc"
  BY AppendAttempt DEF Launch
<1>2. ASSUME NEW k \in DOMAIN att'[c], att'[c][k].pc \in {"settling", "sending", "won"}
      PROVE  k \in DOMAIN att[c] /\ att'[c][k] = att[c][k]
  BY <1>1, <1>2
<1>3. Answered(c)' => Answered(c)
  BY <1>2 DEF Answered, Winner
<1> QED
  BY <1>2, <1>3 DEF AnswerCounts

(* The step of an attempt of this call.                                    *)
LEMMA AnswerCountsAttempt ==
  ASSUME TypeOK, RacesOK, GaugeCountsLiveAttempts, [Next]_vars,
         NEW c \in Calls, AnswerCounts(c), NEW k \in DOMAIN att[c],
         AttemptStep(c, k), ~ReplaceAttempt(c, k)
  PROVE  AnswerCounts(c)'
<1>0. att[c] \in Seq(Attempt) /\ att[c][k] \in Attempt /\ claimed \in [Calls -> BOOLEAN]
  BY DEF TypeOK
<1>1. ASSUME NEW a \in Attempt, Becomes(c, k, a), a.pc = "settling" => a.res # "ok",
             a.pc \in {"sending", "won"} /\ a.res = "ok" => Answered(c)
      PROVE  AnswerCounts(c)'
  <2>1. /\ DOMAIN att'[c] = DOMAIN att[c]
        /\ att'[c][k] = a
        /\ \A j \in DOMAIN att[c] : j # k => att'[c][j] = att[c][j]
    BY <1>1, BecomesTyped
  <2>2. Answered(c)' => Answered(c)
    BY <1>1, <2>1 DEF Answered, Winner
  <2>3. \A j \in DOMAIN att'[c] : att'[c][j].pc = "settling" => att'[c][j].res # "ok"
    BY <1>1, <2>1 DEF AnswerCounts
  <2> QED
    BY <2>2, <2>3, StaysAhead DEF AnswerCounts
<1>2. CASE AttemptSucceeds(c, k)
  <2> DEFINE a == [att[c][k] EXCEPT !.pc = IF claimed[c] THEN "over" ELSE "sending", !.res = "ok"]
  <2>1. settle(c, k, "ok") /\ "ok" \in Outcomes /\ att[c][k].pc = "rpc" /\ UNCHANGED attempts
    BY <1>2 DEF AttemptSucceeds, Outcomes, guardedVars
  <2>2. a \in Attempt /\ Becomes(c, k, a)
    BY <2>1, SettleBecomes
  <2>3. a.pc = IF claimed[c] THEN "over" ELSE "sending"
    BY <1>0 DEF Attempt
  <2> HIDE DEF a
  <2>4. CASE claimed[c]
    BY <1>1, <2>2, <2>3, <2>4
  <2>5. CASE ~claimed[c]
    <3>1. k \in Live(c) /\ ~InTheAir(a) /\ a.pc # "settling"
      BY <2>1, <2>3, <2>5 DEF Live, InTheAir
    <3>2. LiveCount(c)' = LiveCount(c) - 1 /\ LiveCount(c) \in Nat
      BY <2>2, <3>1, LiveBecomes
    <3>3. attempts'[c] = LiveCount(c)
      BY <2>1, <2>5 DEF GaugeCountsLiveAttempts, LiveCount
    <3>4. \A j \in DOMAIN att'[c] : att'[c][j].pc = "settling" => att'[c][j].res # "ok"
      BY <2>2, <3>1, BecomesTyped DEF AnswerCounts
    <3> HIDE DEF LiveCount
    <3> QED
      BY <3>2, <3>3, <3>4 DEF AnswerCounts
  <2> QED
    BY <2>4, <2>5
<1>3. CASE SettleError(c, k)
  <2> DEFINE a == [att[c][k] EXCEPT !.pc = IF claimed[c] THEN "over" ELSE "sending", !.res = att[c][k].res]
  <2>1. settle(c, k, att[c][k].res) /\ att[c][k].res \in Outcomes /\ att[c][k].pc = "settling"
    BY <1>0, <1>3 DEF SettleError, Attempt
  <2>2. a \in Attempt /\ Becomes(c, k, a)
    BY <2>1, SettleBecomes
  <2>3. a.pc # "settling" /\ a.res # "ok"
    BY <1>0, <2>1 DEF Attempt, AnswerCounts
  <2> HIDE DEF a
  <2> QED
    BY <1>1, <2>2, <2>3
<1>4. CASE SendResult(c, k)
  <2> DEFINE a == [att[c][k] EXCEPT !.pc = "won"]
  <2>1. a \in Attempt /\ Becomes(c, k, a)
    BY <1>4, SendBecomes
  <2>2. a.pc = "won" /\ a.res = att[c][k].res /\ Winner(c, k)
    BY <1>0, <1>4 DEF Attempt, SendResult, Winner
  <2> HIDE DEF a
  <2> QED
    BY <1>1, <2>1, <2>2 DEF Answered
<1>5. CASE \E err \in ErrorCodes : AttemptFails(c, k, err)
  <2>1. PICK a \in Attempt :
          /\ Becomes(c, k, a)
          /\ a.pc \in {"over", "retry"} \/ (a.pc = "settling" /\ a.res = "terminal")
    BY <1>5, FailBecomes
  <2> QED
    BY <1>1, <2>1
<1>6. CASE SnapshotCandidates(c, k)
  BY <1>1, <1>6, SnapshotBecomes
<1>7. CASE DropAttempt(c, k)
  <2>1. PICK a \in Attempt :
          /\ Becomes(c, k, a)
          /\ a.pc = "over" \/ (a.pc = "settling" /\ a.res = "exhausted")
    BY <1>7, DropBecomes
  <2> QED
    BY <1>1, <2>1
<1> QED
  BY <1>2, <1>3, <1>4, <1>5, <1>6, <1>7 DEF AttemptStep

(* Every step keeps the answered requests on the gauge.                    *)
LEMMA AnswersCountStep ==
  TypeOK /\ RacesOK /\ GaugeCountsLiveAttempts /\ AnswersCount /\ [Next]_vars => AnswersCount'
<1> SUFFICES ASSUME TypeOK, RacesOK, GaugeCountsLiveAttempts, AnswersCount, [Next]_vars, NEW c \in Calls
             PROVE  AnswerCounts(c)'
  BY DEF AnswersCount
<1>0. AnswerCounts(c) /\ att[c] \in Seq(Attempt)
  BY DEF AnswersCount, TypeOK
<1>1. ASSUME att'[c] = att[c] PROVE AnswerCounts(c)'
  <2>1. Answered(c)' => Answered(c)
    BY <1>1 DEF Answered, Winner
  <2> QED
    BY <1>0, <1>1, <2>1, StaysAhead DEF AnswerCounts
<1>2. CASE RerouteFrom
  <2>1. CASE \E w \in Workers : att'[c] = Append(att[c], Launch(w))
    BY <1>0, <2>1, LaunchAnswersNothing, StaysAhead DEF AnswerCounts
  <2> QED
    BY <1>1, <1>2, <2>1, RerouteCounts
<1>3. ASSUME NEW d \in Calls, Register(d)
      PROVE  AnswerCounts(c)'
  <2>1. CASE d = c
    <3>1. att'[c] = <<Launch(picked[c])>>
      BY <1>3, <2>1 DEF Register, TypeOK
    <3>2. \A k \in DOMAIN att'[c] : att'[c][k].pc = "rpc"
      BY <3>1 DEF Launch
    <3> QED
      BY <3>2 DEF AnswerCounts, Answered, Winner
  <2> QED
    BY <1>1, <1>3, <2>1, RegisterCounts
<1>4. ASSUME NEW d \in Calls, NEW k \in DOMAIN att[d], ReplaceAttempt(d, k)
      PROVE  AnswerCounts(c)'
  <2>1. CASE d = c
    <3>1. PICK w \in Workers :
            /\ Retired(c, k) \in Seq(Attempt) /\ Len(Retired(c, k)) = Len(att[c])
            /\ Retired(c, k)[k].pc = "over"
            /\ \A j \in DOMAIN att[c] : j # k => Retired(c, k)[j] = att[c][j]
            /\ att' = [att EXCEPT ![c] = Append(Retired(c, k), Launch(w))]
      BY <1>4, <2>1, ReplaceBecomes
    <3>2. att'[c] = Append(Retired(c, k), Launch(w))
      BY <3>1 DEF TypeOK
    <3>3. /\ Answered(c)' => Answered(c)
          /\ \A j \in DOMAIN att'[c] : att'[c][j].pc = "settling" => att'[c][j].res # "ok"
      BY <1>0, <3>1, <3>2, LaunchAnswersNothing
    <3> QED
      BY <1>0, <3>3, StaysAhead DEF AnswerCounts
  <2> QED
    BY <1>1, <1>4, <2>1, ReplaceCounts
<1>5. ASSUME NEW d \in Calls, NEW k \in DOMAIN att[d], AttemptStep(d, k), ~ReplaceAttempt(d, k)
      PROVE  AnswerCounts(c)'
  <2>1. CASE d = c
    BY <1>0, <1>5, <2>1, AnswerCountsAttempt
  <2> QED
    BY <1>1, <1>5, <2>1, AttemptCounts
<1>6. CASE UNCHANGED att
  BY <1>1, <1>6
<1> QED
  BY <1>2, <1>3, <1>4, <1>5, <1>6, StepShapes

(* A request that some attempt has answered can never be found exhausted:  *)
(* the attempt that answered is still on the gauge.                        *)
THEOREM AnsweredIsCounted == Spec => []AnswersCount
<1>1. Init => AnswersCount
  BY DEF Init, AnswersCount, AnswerCounts, Answered
<1> QED
  BY <1>1, TypeCorrect, RacesHold, GaugeIsRight, AnswersCountStep, PTL DEF Spec

=============================================================================

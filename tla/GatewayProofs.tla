--------------------------- MODULE GatewayProofs ---------------------------
(***************************************************************************)
(* Theorems of Gateway, for every set of workers, calls and request ids,   *)
(* every sharing of ids and every attempt budget.                          *)
(***************************************************************************)
EXTENDS Gateway, TLAPS

----------------------------------------------------------------------------
(* Typing.                                                                 *)

(* An attempt put in the place of another leaves a list of attempts.       *)
LEMMA UpdateAttempt ==
  ASSUME NEW s \in Seq(Attempt), NEW k \in DOMAIN s, NEW a \in Attempt
  PROVE  /\ [s EXCEPT ![k] = a] \in Seq(Attempt)
         /\ Len([s EXCEPT ![k] = a]) = Len(s)
         /\ DOMAIN [s EXCEPT ![k] = a] = DOMAIN s
  OBVIOUS

(* A launched attempt appended to a list of attempts leaves one.           *)
LEMMA AppendAttempt ==
  ASSUME NEW s \in Seq(Attempt), NEW w \in Workers
  PROVE  /\ Launch(w) \in Attempt
         /\ Append(s, Launch(w)) \in Seq(Attempt)
         /\ Len(Append(s, Launch(w))) = Len(s) + 1
  BY DEF Launch, Attempt, Phases, Outcomes

(* A registered call starts with one attempt.                              *)
LEMMA FirstAttempt ==
  ASSUME NEW w \in Workers
  PROVE  <<Launch(w)>> \in Seq(Attempt) /\ Len(<<Launch(w)>>) = 1
  BY DEF Launch, Attempt, Phases, Outcomes

(* What an attempt's own step does to the list of its call: attempt k has  *)
(* become another attempt a, and nothing else has changed.                 *)
Becomes(c, k, a) == att' = [att EXCEPT ![c] = [att[c] EXCEPT ![k] = a]]

(* Such a step keeps the type of att and the identity of every other       *)
(* attempt.                                                                *)
LEMMA BecomesTyped ==
  ASSUME TypeOK, NEW c \in Calls, NEW k \in DOMAIN att[c], NEW a \in Attempt, Becomes(c, k, a)
  PROVE  /\ att' \in [Calls -> Seq(Attempt)]
         /\ \A d \in Calls : d # c => att'[d] = att[d]
         /\ DOMAIN att'[c] = DOMAIN att[c]
         /\ Len(att'[c]) = Len(att[c])
         /\ att'[c][k] = a
         /\ \A j \in DOMAIN att[c] : j # k => att'[c][j] = att[c][j]
<1>1. att[c] \in Seq(Attempt)
  BY DEF TypeOK
<1>2. [att[c] EXCEPT ![k] = a] \in Seq(Attempt)
  BY <1>1, UpdateAttempt
<1> QED
  BY <1>1, <1>2, UpdateAttempt DEF TypeOK, Becomes

(* The attempts' steps in that form: which attempt k becomes.              *)
LEMMA SettleBecomes ==
  ASSUME TypeOK, NEW c \in Calls, NEW k \in DOMAIN att[c], NEW kind \in Outcomes,
         settle(c, k, kind)
  PROVE  LET a == [att[c][k] EXCEPT !.pc = IF claimed[c] THEN "over" ELSE "sending",
                                    !.res = kind]
         IN  a \in Attempt /\ Becomes(c, k, a)
<1>1. att[c] \in Seq(Attempt) /\ att[c][k] \in Attempt
  BY DEF TypeOK
<1> DEFINE p == IF claimed[c] THEN "over" ELSE "sending"
           a == [att[c][k] EXCEPT !.pc = p, !.res = kind]
<1>2. a \in Attempt
  BY <1>1 DEF TypeOK, Attempt, Phases, Outcomes
<1>3. att' = [att EXCEPT ![c] = [att[c] EXCEPT ![k] = a]]
  BY <1>1 DEF TypeOK, settle
<1> QED
  BY <1>2, <1>3 DEF Becomes

(* settle keeps the type of att.                                           *)
LEMMA SettleTyped ==
  ASSUME TypeOK, NEW c \in Calls, NEW k \in DOMAIN att[c], NEW kind \in Outcomes,
         settle(c, k, kind)
  PROVE  att' \in [Calls -> Seq(Attempt)]
<1> DEFINE a == [att[c][k] EXCEPT !.pc = IF claimed[c] THEN "over" ELSE "sending",
                                  !.res = kind]
<1>1. a \in Attempt /\ Becomes(c, k, a)
  BY SettleBecomes
<1> HIDE DEF a
<1> QED
  BY <1>1, BecomesTyped

(* SendResult: an attempt that was sending has won, with its own outcome.  *)
LEMMA SendBecomes ==
  ASSUME TypeOK, NEW c \in Calls, NEW k \in DOMAIN att[c], SendResult(c, k)
  PROVE  LET a == [att[c][k] EXCEPT !.pc = "won"]
         IN  a \in Attempt /\ a.res \in Outcomes /\ Becomes(c, k, a)
<1>1. att[c] \in Seq(Attempt) /\ att[c][k] \in Attempt /\ att[c][k].pc = "sending"
  BY DEF TypeOK, SendResult
<1> DEFINE a == [att[c][k] EXCEPT !.pc = "won"]
<1>2. a \in Attempt /\ a.res \in Outcomes
  BY <1>1 DEF Attempt, Phases, Outcomes
<1>3. att' = [att EXCEPT ![c] = [att[c] EXCEPT ![k] = a]]
  BY <1>1 DEF TypeOK, SendResult
<1> QED
  BY <1>2, <1>3 DEF Becomes

(* AttemptFails: behind a closed latch the attempt is over; before that, a *)
(* retryable error keeps it in the air and any other one is terminal.      *)
LEMMA FailBecomes ==
  ASSUME TypeOK, NEW c \in Calls, NEW k \in DOMAIN att[c], NEW err \in ErrorCodes,
         AttemptFails(c, k, err)
  PROVE  \E a \in Attempt :
           /\ Becomes(c, k, a) /\ a.worker = att[c][k].worker
           /\ \/ claimed[c] /\ a.pc = "over"
              \/ ~claimed[c] /\ retryable(err) /\ a.pc = "retry"
              \/ ~claimed[c] /\ ~retryable(err) /\ a.pc = "settling" /\ a.res = "terminal"
<1>1. att[c] \in Seq(Attempt) /\ att[c][k] \in Attempt /\ att \in [Calls -> Seq(Attempt)]
  BY DEF TypeOK
<1> DEFINE over  == [att[c][k] EXCEPT !.pc = "over"]
           retry == [att[c][k] EXCEPT !.pc = "retry"]
           fail  == [att[c][k] EXCEPT !.pc = "settling", !.res = "terminal"]
<1>2. over \in Attempt /\ retry \in Attempt /\ fail \in Attempt
  BY <1>1 DEF Attempt, Phases, Outcomes
<1>3. /\ over.pc = "over" /\ retry.pc = "retry" /\ fail.pc = "settling" /\ fail.res = "terminal"
      /\ \A a \in {over, retry, fail} : a.worker = att[c][k].worker
  BY <1>1 DEF Attempt
<1>4. \/ claimed[c] /\ att' = [att EXCEPT ![c][k].pc = "over"]
      \/ ~claimed[c] /\ retryable(err) /\ att' = [att EXCEPT ![c][k].pc = "retry"]
      \/ /\ ~claimed[c] /\ ~retryable(err)
         /\ att' = [att EXCEPT ![c][k].pc = "settling", ![c][k].res = "terminal"]
  BY DEF AttemptFails
<1>5. CASE claimed[c] /\ att' = [att EXCEPT ![c][k].pc = "over"]
  <2>1. Becomes(c, k, over)
    BY <1>1, <1>5 DEF Becomes
  <2> QED
    BY <1>2, <1>3, <1>5, <2>1
<1>6. CASE ~claimed[c] /\ retryable(err) /\ att' = [att EXCEPT ![c][k].pc = "retry"]
  <2>1. Becomes(c, k, retry)
    BY <1>1, <1>6 DEF Becomes
  <2> QED
    BY <1>2, <1>3, <1>6, <2>1
<1>7. CASE /\ ~claimed[c] /\ ~retryable(err)
           /\ att' = [att EXCEPT ![c][k].pc = "settling", ![c][k].res = "terminal"]
  <2>1. Becomes(c, k, fail)
    BY <1>1, <1>7 DEF Becomes
  <2> QED
    BY <1>2, <1>3, <1>7, <2>1
<1> QED
  BY <1>4, <1>5, <1>6, <1>7

(* SnapshotCandidates: the attempt holds its snapshot.                     *)
LEMMA SnapshotBecomes ==
  ASSUME TypeOK, NEW c \in Calls, NEW k \in DOMAIN att[c], SnapshotCandidates(c, k)
  PROVE  \E a \in Attempt : /\ Becomes(c, k, a) /\ a.worker = att[c][k].worker
                            /\ a.pc = "snapped" /\ a.cands = healthyExcept({a.worker})
<1>1. att[c] \in Seq(Attempt) /\ att[c][k] \in Attempt /\ att \in [Calls -> Seq(Attempt)]
  BY DEF TypeOK
<1> DEFINE a == [att[c][k] EXCEPT !.pc = "snapped", !.cands = healthyExcept({att[c][k].worker})]
<1>2. /\ a \in Attempt /\ a.worker = att[c][k].worker
      /\ a.pc = "snapped" /\ a.cands = healthyExcept({a.worker})
  BY <1>1 DEF TypeOK, Attempt, Phases, healthyExcept
<1>3. att' = [att EXCEPT ![c][k].pc = "snapped",
                         ![c][k].cands = healthyExcept({att[c][k].worker})]
  BY DEF SnapshotCandidates
<1>4. Becomes(c, k, a)
  BY <1>1, <1>3 DEF Becomes
<1> QED
  BY <1>2, <1>4

(* DropAttempt: the last in the air reports exhaustion, any other is over. *)
LEMMA DropBecomes ==
  ASSUME TypeOK, NEW c \in Calls, NEW k \in DOMAIN att[c], DropAttempt(c, k)
  PROVE  \E a \in Attempt :
           /\ Becomes(c, k, a) /\ a.worker = att[c][k].worker
           /\ \/ LastInTheAir(c) /\ a.pc = "settling" /\ a.res = "exhausted"
              \/ ~LastInTheAir(c) /\ a.pc = "over"
<1>1. att[c] \in Seq(Attempt) /\ att[c][k] \in Attempt /\ att \in [Calls -> Seq(Attempt)]
  BY DEF TypeOK
<1> DEFINE last == [att[c][k] EXCEPT !.pc = "settling", !.cands = {}, !.res = "exhausted"]
           over == [att[c][k] EXCEPT !.pc = "over", !.cands = {}]
<1>2. /\ last \in Attempt /\ last.pc = "settling" /\ last.res = "exhausted"
      /\ over \in Attempt /\ over.pc = "over"
      /\ last.worker = att[c][k].worker /\ over.worker = att[c][k].worker
  BY <1>1 DEF Attempt, Phases, Outcomes
<1>3. CASE LastInTheAir(c)
  <2>1. att' = [att EXCEPT ![c][k].pc = "settling", ![c][k].cands = {}, ![c][k].res = "exhausted"]
    BY <1>3 DEF DropAttempt
  <2>2. Becomes(c, k, last)
    BY <1>1, <2>1 DEF Becomes
  <2> QED
    BY <1>2, <1>3, <2>2
<1>4. CASE ~LastInTheAir(c)
  <2>1. att' = [att EXCEPT ![c][k].pc = "over", ![c][k].cands = {}]
    BY <1>4 DEF DropAttempt
  <2>2. Becomes(c, k, over)
    BY <1>1, <2>1 DEF Becomes
  <2> QED
    BY <1>2, <1>4, <2>2
<1> QED
  BY <1>3, <1>4

\* the steps of attempt k that neither launch an attempt nor touch the latch
QuietStep(c, k) ==
  (\E err \in ErrorCodes : AttemptFails(c, k, err)) \/ SnapshotCandidates(c, k) \/ DropAttempt(c, k)

(* A failure, a snapshot or a drop leaves attempt k a non-winner.          *)
LEMMA QuietBecomes ==
  ASSUME TypeOK, NEW c \in Calls, NEW k \in DOMAIN att[c], QuietStep(c, k)
  PROVE  \E a \in Attempt : Becomes(c, k, a) /\ a.pc \notin {"sending", "won"}
<1>1. CASE \E err \in ErrorCodes : AttemptFails(c, k, err)
  BY <1>1, FailBecomes
<1>2. CASE SnapshotCandidates(c, k)
  BY <1>2, SnapshotBecomes
<1>3. CASE DropAttempt(c, k)
  BY <1>3, DropBecomes
<1> QED
  BY <1>1, <1>2, <1>3 DEF QuietStep

(* A fast-path replacement: attempt k is over, and one is launched at w.   *)
Retired(c, k) == [att[c] EXCEPT ![k] = [att[c][k] EXCEPT !.pc = "over", !.cands = {}]]

LEMMA ReplaceBecomes ==
  ASSUME TypeOK, NEW c \in Calls, NEW k \in DOMAIN att[c], ReplaceAttempt(c, k)
  PROVE  \E w \in Workers :
           /\ Retired(c, k) \in Seq(Attempt)
           /\ Len(Retired(c, k)) = Len(att[c])
           /\ w \in Eligible(c, k)
           /\ Retired(c, k)[k].pc = "over" /\ Retired(c, k)[k].worker = att[c][k].worker
           /\ \A j \in DOMAIN att[c] : j # k => Retired(c, k)[j] = att[c][j]
           /\ Append(Retired(c, k), Launch(w)) \in Seq(Attempt)
           /\ assigned' = [assigned EXCEPT ![c] = w]
           /\ att' = [att EXCEPT ![c] = Append(Retired(c, k), Launch(w))]
<1>1. att[c] \in Seq(Attempt) /\ att[c][k] \in Attempt
  BY DEF TypeOK
<1> DEFINE a == [att[c][k] EXCEPT !.pc = "over", !.cands = {}]
<1>2. PICK w \in Eligible(c, k) :
        /\ assigned' = [assigned EXCEPT ![c] = w]
        /\ att' = [att EXCEPT ![c] = Append([@ EXCEPT ![k].pc = "over", ![k].cands = {}], Launch(w))]
  BY DEF ReplaceAttempt
<1>3. w \in Workers
  BY <1>1, <1>2 DEF Eligible, Attempt
<1>4. a \in Attempt /\ a.pc = "over" /\ a.worker = att[c][k].worker
  BY <1>1 DEF Attempt, Phases
<1>5. /\ Retired(c, k) \in Seq(Attempt) /\ Len(Retired(c, k)) = Len(att[c])
      /\ Retired(c, k)[k] = a
      /\ \A j \in DOMAIN att[c] : j # k => Retired(c, k)[j] = att[c][j]
  BY <1>1, <1>4, UpdateAttempt DEF Retired
<1>6. [att[c] EXCEPT ![k].pc = "over", ![k].cands = {}] = Retired(c, k)
  BY <1>1 DEF Retired
<1>7. att' = [att EXCEPT ![c] = Append(Retired(c, k), Launch(w))]
  BY <1>2, <1>6 DEF TypeOK
<1>8. Append(Retired(c, k), Launch(w)) \in Seq(Attempt)
  BY <1>3, <1>5, AppendAttempt
<1> QED
  BY <1>2, <1>3, <1>4, <1>5, <1>7, <1>8

(* What a reroute does to the records of the requests it rescues.          *)
LEMMA RerouteShape ==
  ASSUME TypeOK, RerouteFrom
  PROVE  \E jobs \in SUBSET Victims : \E target \in [jobs -> Workers] :
           /\ dispatched' = Bump(dispatched, jobs)
           /\ att' = [c \in Calls |->
                        IF c \in jobs THEN Append(att[c], Launch(target[c])) ELSE att[c]]
           /\ UNCHANGED <<handlerVars, claimed, result>>
<1> DEFINE healthy == healthyExcept(departed)
           jobs    == IF healthy = {} THEN {} ELSE Victims
<1>1. PICK target \in [jobs -> healthy] :
         /\ dispatched' = Bump(dispatched, jobs)
         /\ att' = [c \in Calls |->
                      IF c \in jobs THEN Append(att[c], Launch(target[c])) ELSE att[c]]
         /\ UNCHANGED <<handlerVars, claimed, result>>
  BY DEF RerouteFrom
<1>2. healthy \subseteq Workers
  BY DEF healthyExcept, TypeOK
<1>3. jobs \in SUBSET Victims /\ target \in [jobs -> Workers]
  BY <1>2
<1> QED
  BY <1>1, <1>3

(* Every step is one of six kinds, by what it does to the attempts.        *)
LEMMA StepShapes ==
  ASSUME TypeOK, [Next]_vars
  PROVE  \/ UNCHANGED <<handlerVars, dispatched, claimed, result, att>>
         \/ RerouteFrom
         \/ \E c \in Calls : HandlerStep(c) /\ ~Register(c)
                             /\ UNCHANGED <<dispatched, claimed, att>>
         \/ \E c \in Calls : Register(c)
         \/ \E c \in Calls : \E k \in DOMAIN att[c] :
              ReplaceAttempt(c, k) /\ UNCHANGED <<handlerVars, claimed, result>>
         \/ \E c \in Calls : \E k \in DOMAIN att[c] : \E a \in Attempt :
              /\ Becomes(c, k, a)
              /\ UNCHANGED <<handlerVars, dispatched>>
              /\ AttemptStep(c, k)
<1> USE DEF pollVars, handlerVars, guardedVars
<1>1. ASSUME NEW fresh \in SUBSET Workers, PollOnce(fresh)
      PROVE  UNCHANGED <<handlerVars, dispatched, claimed, result, att>>
  BY <1>1 DEF PollOnce
<1>2. ASSUME NEW c \in Calls, HandlerStep(c)
      PROVE  Register(c) \/ (~Register(c) /\ UNCHANGED <<dispatched, claimed, att>>)
  BY <1>2 DEF HandlerStep, BeginGenerate, Registration,
              GenerateWithoutId, GenerateWithoutWorkers, PickWorker,
              RegisterDuplicate, Refuse, Receive, GiveUp, Unregister
<1>3. ASSUME NEW c \in Calls, NEW k \in DOMAIN att[c], AttemptStep(c, k)
      PROVE  \/ ReplaceAttempt(c, k) /\ UNCHANGED <<handlerVars, claimed, result>>
             \/ \E a \in Attempt : Becomes(c, k, a) /\ UNCHANGED <<handlerVars, dispatched>>
  <2>1. CASE AttemptSucceeds(c, k)
    <3>1. settle(c, k, "ok") /\ "ok" \in Outcomes
      BY <2>1 DEF AttemptSucceeds, Outcomes
    <3> QED
      BY <2>1, <3>1, SettleBecomes DEF AttemptSucceeds
  <2>2. CASE SettleError(c, k)
    <3>1. att[c][k] \in Attempt
      BY DEF TypeOK
    <3>2. settle(c, k, att[c][k].res) /\ att[c][k].res \in Outcomes
      BY <2>2, <3>1 DEF SettleError, Attempt
    <3> QED
      BY <2>2, <3>2, SettleBecomes DEF SettleError
  <2>3. CASE SendResult(c, k)
    <3>1. UNCHANGED <<handlerVars, dispatched>>
      BY <2>3 DEF SendResult
    <3> QED
      BY <2>3, <3>1, SendBecomes
  <2>4. CASE QuietStep(c, k)
    <3>1. UNCHANGED <<handlerVars, dispatched>>
      BY <2>4 DEF QuietStep, AttemptFails, SnapshotCandidates, DropAttempt
    <3> QED
      BY <2>4, <3>1, QuietBecomes
  <2>5. CASE ReplaceAttempt(c, k)
    BY <2>5 DEF ReplaceAttempt
  <2> QED
    BY <1>3, <2>1, <2>2, <2>3, <2>4, <2>5 DEF AttemptStep, QuietStep
<1>4. CASE UNCHANGED vars
  BY <1>4 DEF vars
<1>5. CASE PollStep
  BY <1>1, <1>5 DEF PollStep
<1>6. CASE \E c \in Calls : HandlerStep(c)
  BY <1>2, <1>6
<1>7. CASE \E c \in Calls : \E k \in DOMAIN att[c] : AttemptStep(c, k)
  BY <1>3, <1>7
<1> QED
  BY <1>4, <1>5, <1>6, <1>7 DEF Next

(* Every step keeps the variables' types (TypeOK).                         *)
LEMMA TypeOKStep == TypeOK /\ [Next]_vars => TypeOK'
<1> SUFFICES ASSUME TypeOK, [Next]_vars PROVE TypeOK'
  OBVIOUS
<1> USE GatewayAssumption
<1>1. ASSUME NEW fresh \in SUBSET Workers, PollOnce(fresh) PROVE TypeOK'
  BY <1>1 DEF TypeOK, PollOnce, departedIDs, handlerVars, guardedVars
<1>2. CASE RerouteFrom
  <2> DEFINE healthy == healthyExcept(departed)
             jobs    == IF healthy = {} THEN {} ELSE Victims
  <2>1. PICK target \in [jobs -> healthy] :
           /\ assigned' = [c \in Calls |-> IF c \in jobs THEN target[c] ELSE assigned[c]]
           /\ attempts' = Bump(attempts, jobs)
           /\ dispatched' = Bump(dispatched, jobs)
           /\ att' = [c \in Calls |->
                        IF c \in jobs THEN Append(att[c], Launch(target[c])) ELSE att[c]]
    BY <1>2 DEF RerouteFrom
  <2>2. healthy \subseteq Workers
    BY DEF healthyExcept, TypeOK
  <2>3. \A c \in jobs : c \in Calls /\ dispatched[c] < MaxAttempts /\ target[c] \in Workers
    BY <2>2 DEF Victims
  <2>4. assigned' \in [Calls -> Workers \cup {NoWorker}]
    BY <2>1, <2>3 DEF TypeOK
  <2>5. attempts' \in [Calls -> Int] /\ dispatched' \in [Calls -> 0..MaxAttempts]
    BY <2>1, <2>3 DEF TypeOK, Bump
  <2>6. ASSUME NEW c \in Calls
        PROVE  (IF c \in jobs THEN Append(att[c], Launch(target[c])) ELSE att[c]) \in Seq(Attempt)
    BY <2>3, AppendAttempt DEF TypeOK
  <2>7. att' \in [Calls -> Seq(Attempt)]
    BY <2>1, <2>6
  <2> QED
    BY <1>2, <2>4, <2>5, <2>7 DEF TypeOK, RerouteFrom, handlerVars
<1>3. ASSUME NEW c \in Calls, HandlerStep(c) PROVE TypeOK'
  <2> USE DEF TypeOK, pollVars, handlerVars, guardedVars, Refusal, RefusalKinds
  <2>1. CASE GenerateWithoutId(c)
    BY <2>1 DEF GenerateWithoutId, Refuse
  <2>2. CASE GenerateWithoutWorkers(c)
    BY <2>2 DEF GenerateWithoutWorkers, Refuse
  <2>3. CASE PickWorker(c)
    BY <2>3 DEF PickWorker
  <2>4. CASE RegisterDuplicate(c)
    BY <2>4 DEF RegisterDuplicate, Refuse
  <2>5. CASE Register(c)
    <3>1. picked[c] \in Workers => <<Launch(picked[c])>> \in Seq(Attempt)
      BY FirstAttempt
    <3>2. picked[c] \in Workers
      BY <2>5 DEF Register
    <3> QED
      BY <2>5, <3>1, <3>2 DEF Register
  <2>6. CASE Receive(c)
    BY <2>6 DEF Receive, attemptResult, NoResult
  <2>7. CASE GiveUp(c)
    BY <2>7 DEF GiveUp
  <2>8. CASE Unregister(c)
    BY <2>8 DEF Unregister
  <2> QED
    BY <1>3, <2>1, <2>2, <2>3, <2>4, <2>5, <2>6, <2>7, <2>8 DEF HandlerStep, BeginGenerate, Registration
<1>4. ASSUME NEW c \in Calls, NEW k \in DOMAIN att[c], AttemptStep(c, k) PROVE TypeOK'
  <2> USE DEF TypeOK, pollVars, handlerVars, guardedVars
  <2>0. att[c][k] \in Attempt /\ att[c][k].worker \in Workers
    <3>1. att[c][k] \in Attempt
      OBVIOUS
    <3> QED
      BY <3>1 DEF Attempt
  <2>1. CASE AttemptSucceeds(c, k)
    <3>1. settle(c, k, "ok") /\ "ok" \in Outcomes
      BY <2>1 DEF AttemptSucceeds, Outcomes
    <3>2. att' \in [Calls -> Seq(Attempt)]
      BY <3>1, SettleTyped
    <3>3. claimed' \in [Calls -> BOOLEAN]
      BY <3>1 DEF settle
    <3>4. UNCHANGED <<pollVars, handlerVars, guardedVars, result>>
      BY <2>1 DEF AttemptSucceeds
    <3> QED
      BY <3>2, <3>3, <3>4
  <2>2. CASE SettleError(c, k)
    <3>1. settle(c, k, att[c][k].res) /\ att[c][k].res \in Outcomes
      BY <2>0, <2>2 DEF SettleError, Attempt
    <3>2. att' \in [Calls -> Seq(Attempt)]
      BY <3>1, SettleTyped
    <3>3. claimed' \in [Calls -> BOOLEAN]
      BY <3>1 DEF settle
    <3>4. UNCHANGED <<pollVars, handlerVars, guardedVars, result>>
      BY <2>2 DEF SettleError
    <3> QED
      BY <3>2, <3>3, <3>4
  <2>3. CASE SendResult(c, k)
    <3>1. att' \in [Calls -> Seq(Attempt)]
      BY <2>3, SendBecomes, BecomesTyped
    <3>2. [kind |-> att[c][k].res, worker |-> att[c][k].worker] \in attemptResult
      <4>1. att[c][k].res \in Outcomes
        BY <2>0, <2>3 DEF SendResult, Attempt
      <4> QED
        BY <2>0, <4>1 DEF attemptResult
    <3> QED
      BY <2>3, <3>1, <3>2 DEF SendResult
  <2>4. CASE QuietStep(c, k)
    <3>1. att' \in [Calls -> Seq(Attempt)]
      BY <2>4, QuietBecomes, BecomesTyped
    <3>2. /\ UNCHANGED <<pollVars, handlerVars, assigned, dispatched, claimed, result>>
          /\ tried' \in [Calls -> SUBSET Workers]
          /\ attempts' \in [Calls -> Int]
      <4>1. ASSUME NEW err \in ErrorCodes, AttemptFails(c, k, err)
            PROVE  UNCHANGED <<pollVars, handlerVars, guardedVars, claimed, result>>
        BY <4>1 DEF AttemptFails
      <4>2. CASE SnapshotCandidates(c, k)
        BY <4>2 DEF SnapshotCandidates
      <4>3. CASE DropAttempt(c, k)
        BY <2>0, <4>3 DEF DropAttempt
      <4> QED
        BY <2>4, <4>1, <4>2, <4>3 DEF QuietStep
    <3> QED
      BY <3>1, <3>2
  <2>5. CASE ReplaceAttempt(c, k)
    <3>1. att' \in [Calls -> Seq(Attempt)] /\ assigned' \in [Calls -> Workers \cup {NoWorker}]
      <4>1. PICK w \in Workers :
              /\ Append(Retired(c, k), Launch(w)) \in Seq(Attempt)
              /\ assigned' = [assigned EXCEPT ![c] = w]
              /\ att' = [att EXCEPT ![c] = Append(Retired(c, k), Launch(w))]
        BY <2>5, ReplaceBecomes
      <4> QED
        BY <4>1
    <3>2. tried' \in [Calls -> SUBSET Workers]
      <4>1. tried' = [tried EXCEPT ![c] = tried[c] \cup {att[c][k].worker}]
        BY <2>5 DEF ReplaceAttempt
      <4> QED
        BY <2>0, <4>1
    <3>3. dispatched' \in [Calls -> 0..MaxAttempts]
      <4>1. dispatched[c] < MaxAttempts /\ dispatched' = [dispatched EXCEPT ![c] = dispatched[c] + 1]
        BY <2>5 DEF ReplaceAttempt, Eligible
      <4> QED
        BY <4>1
    <3>4. UNCHANGED <<pollVars, handlerVars, attempts, claimed, result>>
      BY <2>5 DEF ReplaceAttempt
    <3> QED
      BY <3>1, <3>2, <3>3, <3>4
  <2> QED
    BY <1>4, <2>1, <2>2, <2>3, <2>4, <2>5 DEF AttemptStep, QuietStep
<1>5. CASE UNCHANGED vars
  BY <1>5 DEF TypeOK, vars, pollVars, handlerVars, guardedVars
<1> QED
  BY <1>1, <1>2, <1>3, <1>4, <1>5 DEF Next, PollStep

(* TypeOK, for every instance: in particular the latch, the channel and    *)
(* the attempts always have the values Generate and settle can handle.     *)
THEOREM TypeCorrect == Spec => []TypeOK
<1>1. Init => TypeOK
  BY GatewayAssumption DEF Init, TypeOK, NoResult
<1> QED
  BY <1>1, TypeOKStep, PTL DEF Spec

----------------------------------------------------------------------------
(* The dispatch budget.                                                    *)

(* Every step keeps dispatched equal to the number of launches.            *)
LEMMA BudgetStep == TypeOK /\ BudgetBoundsLaunches /\ [Next]_vars => BudgetBoundsLaunches'
<1> SUFFICES ASSUME TypeOK, BudgetBoundsLaunches, [Next]_vars PROVE BudgetBoundsLaunches'
  OBVIOUS
<1> USE GatewayAssumption
<1>1. ASSUME NEW d \in Calls
      PROVE  /\ att[d] \in Seq(Attempt) /\ dispatched[d] \in Nat
             /\ dispatched[d] = Len(att[d]) /\ Len(att[d]) <= MaxAttempts
  BY DEF TypeOK, BudgetBoundsLaunches
<1>2. CASE UNCHANGED <<dispatched, att>>
  BY <1>2 DEF BudgetBoundsLaunches
<1>3. CASE RerouteFrom
  <2>1. PICK jobs \in SUBSET Victims : \E target \in [jobs -> Workers] :
           /\ dispatched' = Bump(dispatched, jobs)
           /\ att' = [c \in Calls |->
                        IF c \in jobs THEN Append(att[c], Launch(target[c])) ELSE att[c]]
    BY <1>3, RerouteShape
  <2> PICK target \in [jobs -> Workers] :
           /\ dispatched' = Bump(dispatched, jobs)
           /\ att' = [c \in Calls |->
                        IF c \in jobs THEN Append(att[c], Launch(target[c])) ELSE att[c]]
    BY <2>1
  <2>2. SUFFICES ASSUME NEW c \in Calls
                 PROVE  dispatched'[c] = Len(att'[c]) /\ Len(att'[c]) <= MaxAttempts
    BY DEF BudgetBoundsLaunches
  <2>3. CASE c \in jobs
    <3>1. target[c] \in Workers /\ dispatched[c] < MaxAttempts
      BY <2>3 DEF Victims
    <3> QED
      BY <1>1, <2>1, <2>3, <3>1, AppendAttempt DEF Bump
  <2>4. CASE c \notin jobs
    BY <1>1, <2>1, <2>4 DEF Bump
  <2> QED
    BY <2>3, <2>4
<1>4. ASSUME NEW c \in Calls, Register(c) PROVE BudgetBoundsLaunches'
  <2>1. picked[c] \in Workers
    BY <1>4 DEF TypeOK, Register
  <2>2. /\ dispatched' = [dispatched EXCEPT ![c] = 1]
        /\ att' = [att EXCEPT ![c] = <<Launch(picked[c])>>]
    BY <1>4 DEF Register
  <2>3. Len(<<Launch(picked[c])>>) = 1
    BY <2>1, FirstAttempt
  <2> QED
    BY <1>1, <2>2, <2>3 DEF TypeOK, BudgetBoundsLaunches
<1>5. ASSUME NEW c \in Calls, NEW k \in DOMAIN att[c], NEW a \in Attempt, Becomes(c, k, a),
             UNCHANGED dispatched
      PROVE  BudgetBoundsLaunches'
  BY <1>1, <1>5, BecomesTyped DEF BudgetBoundsLaunches
<1>6. ASSUME NEW c \in Calls, NEW k \in DOMAIN att[c], ReplaceAttempt(c, k)
      PROVE  BudgetBoundsLaunches'
  <2>1. PICK w \in Workers :
          /\ Retired(c, k) \in Seq(Attempt) /\ Len(Retired(c, k)) = Len(att[c])
          /\ att' = [att EXCEPT ![c] = Append(Retired(c, k), Launch(w))]
    BY <1>6, ReplaceBecomes
  <2>2. dispatched[c] < MaxAttempts /\ dispatched' = [dispatched EXCEPT ![c] = dispatched[c] + 1]
    BY <1>6 DEF ReplaceAttempt, Eligible
  <2>3. Len(Append(Retired(c, k), Launch(w))) = Len(att[c]) + 1
    BY <2>1, AppendAttempt
  <2> QED
    BY <1>1, <2>1, <2>2, <2>3 DEF TypeOK, BudgetBoundsLaunches
<1> QED
  BY <1>2, <1>3, <1>4, <1>5, <1>6, StepShapes

(* maxAttempts bounds the launches of one request over both failure paths, *)
(* for every budget, fleet and history of the view (tracker.go, "only      *)
(* maxAttempts terminates").                                               *)
THEOREM BudgetHolds == Spec => []BudgetBoundsLaunches
<1>1. Init => BudgetBoundsLaunches
  BY GatewayAssumption DEF Init, BudgetBoundsLaunches
<1> QED
  BY <1>1, TypeCorrect, BudgetStep, PTL DEF Spec

----------------------------------------------------------------------------
(* The tracker's map.                                                      *)

(* Every step keeps the map in agreement with the handlers.                *)
LEMMA TrackerStep == TypeOK /\ TrackerHoldsOpenCalls /\ [Next]_vars => TrackerHoldsOpenCalls'
<1> SUFFICES ASSUME TypeOK, TrackerHoldsOpenCalls, [Next]_vars PROVE TrackerHoldsOpenCalls'
  OBVIOUS
<1> USE GatewayAssumption DEF TrackerHoldsOpenCalls, Tracked
<1>1. CASE UNCHANGED <<handler, requests>>
  BY <1>1
<1>2. ASSUME NEW c \in Calls, HandlerStep(c) PROVE TrackerHoldsOpenCalls'
  <2>1. CASE GenerateWithoutId(c)
    BY <2>1 DEF TypeOK, GenerateWithoutId, Refuse
  <2>2. CASE GenerateWithoutWorkers(c)
    BY <2>2 DEF TypeOK, GenerateWithoutWorkers, Refuse
  <2>3. CASE PickWorker(c)
    BY <2>3 DEF TypeOK, PickWorker
  <2>4. CASE RegisterDuplicate(c)
    BY <2>4 DEF TypeOK, RegisterDuplicate, Refuse
  <2>5. CASE Register(c)
    BY <2>5 DEF TypeOK, Register
  <2>6. CASE Receive(c)
    BY <2>6 DEF TypeOK, Receive
  <2>7. CASE GiveUp(c)
    BY <2>7 DEF TypeOK, GiveUp
  <2>8. CASE Unregister(c)
    BY <2>8 DEF TypeOK, Unregister
  <2> QED
    BY <1>2, <2>1, <2>2, <2>3, <2>4, <2>5, <2>6, <2>7, <2>8 DEF HandlerStep, BeginGenerate, Registration
<1>3. RerouteFrom => UNCHANGED <<handler, requests>>
  BY DEF RerouteFrom, handlerVars
<1>4. \A c \in Calls : Register(c) => HandlerStep(c)
  BY DEF HandlerStep, Registration, Register
<1>5. (\E c \in Calls : HandlerStep(c)) \/ UNCHANGED <<handler, requests>>
  BY StepShapes, <1>3, <1>4 DEF handlerVars
<1> QED
  BY <1>1, <1>2, <1>5

(* The map holds exactly the calls that wait or leave: an id is reserved   *)
(* by one call at a time, and the duplicate that register turns away never *)
(* disturbs the reservation.                                               *)
THEOREM TrackerAgrees == Spec => []TrackerHoldsOpenCalls
<1>1. Init => TrackerHoldsOpenCalls
  BY GatewayAssumption DEF Init, TrackerHoldsOpenCalls, Tracked
<1> QED
  BY <1>1, TypeCorrect, TrackerStep, PTL DEF Spec

----------------------------------------------------------------------------
(* First-wins.                                                             *)

(* The inductive invariant, for one call.  Beyond the two properties it    *)
(* says that a record nobody has registered is blank: without that,        *)
(* Register could start a race whose latch is already closed.              *)
RaceOK(c) ==
  /\ claimed[c] <=> \E k \in DOMAIN att[c] : Winner(c, k)
  /\ \A j, k \in DOMAIN att[c] : Winner(c, j) /\ Winner(c, k) => j = k
  /\ \A r \in {result[c], answer[c]} :
       r.kind \in Outcomes => \E k \in DOMAIN att[c] : att[c][k].pc = "won" /\ r = Verdict(c, k)
  /\ handler[c] \in {"idle", "picked"} => att[c] = << >> /\ ~claimed[c] /\ result[c] = NoResult

RacesOK == \A c \in Calls : RaceOK(c)

(* A call's race is untouched by a step that leaves its variables alone.   *)
LEMMA RaceFrame ==
  ASSUME NEW c \in Calls, RaceOK(c),
         handler'[c] = handler[c], att'[c] = att[c], claimed'[c] = claimed[c],
         result'[c] = result[c], answer'[c] = answer[c]
  PROVE  RaceOK(c)'
  BY DEF RaceOK, Winner, Verdict

(* A launch adds an attempt that has won nothing.                          *)
LEMMA RaceLaunch ==
  ASSUME TypeOK, NEW c \in Calls, RaceOK(c), handler[c] \notin {"idle", "picked"},
         NEW s \in Seq(Attempt), NEW w \in Workers, Len(s) = Len(att[c]),
         \A j \in DOMAIN att[c] : s[j] = att[c][j] \/ (~Winner(c, j) /\ s[j].pc = "over"),
         att'[c] = Append(s, Launch(w)),
         handler'[c] = handler[c], claimed'[c] = claimed[c],
         result'[c] = result[c], answer'[c] = answer[c]
  PROVE  RaceOK(c)'
<1>1. att[c] \in Seq(Attempt)
  BY DEF TypeOK
<1>2. DOMAIN att'[c] = DOMAIN att[c] \cup {Len(att[c]) + 1}
  BY <1>1, AppendAttempt
<1>3. \A j \in DOMAIN att[c] : att'[c][j] = s[j]
  BY <1>1, AppendAttempt
<1>4. att'[c][Len(att[c]) + 1].pc = "rpc"
  BY AppendAttempt DEF Launch
<1>5. \A j \in DOMAIN att'[c] : Winner(c, j)' => j \in DOMAIN att[c] /\ Winner(c, j) /\ att'[c][j] = att[c][j]
  BY <1>2, <1>3, <1>4 DEF Winner
<1>6. \A j \in DOMAIN att[c] : Winner(c, j) => j \in DOMAIN att'[c] /\ att'[c][j] = att[c][j]
  BY <1>2, <1>3 DEF Winner
<1>7. /\ claimed'[c] <=> \E k \in DOMAIN att'[c] : Winner(c, k)'
      /\ \A j, k \in DOMAIN att'[c] : Winner(c, j)' /\ Winner(c, k)' => j = k
  <2>1. \A j \in DOMAIN att[c] : Winner(c, j) => Winner(c, j)'
    BY <1>6 DEF Winner
  <2> QED
    BY <1>5, <1>6, <2>1 DEF RaceOK
<1>8. \A r \in {result'[c], answer'[c]} : r.kind \in Outcomes =>
        \E k \in DOMAIN att'[c] : att'[c][k].pc = "won" /\ r = Verdict(c, k)'
  <2> SUFFICES ASSUME NEW r \in {result[c], answer[c]}, r.kind \in Outcomes
               PROVE  \E k \in DOMAIN att'[c] : att'[c][k].pc = "won" /\ r = Verdict(c, k)'
    OBVIOUS
  <2>1. PICK k \in DOMAIN att[c] : att[c][k].pc = "won" /\ r = Verdict(c, k)
    BY DEF RaceOK
  <2> QED
    BY <1>6, <2>1 DEF Winner, Verdict
<1> QED
  BY <1>7, <1>8 DEF RaceOK

(* A step of attempt k, which has won nothing yet, to attempt a.           *)
LEMMA RaceAttempt ==
  ASSUME TypeOK, NEW c \in Calls, RaceOK(c), NEW k \in DOMAIN att[c], NEW a \in Attempt,
         Becomes(c, k, a), ~Winner(c, k),
         IF a.pc \in {"sending", "won"} THEN ~claimed[c] /\ claimed'[c] ELSE claimed'[c] = claimed[c],
         handler'[c] = handler[c], result'[c] = result[c], answer'[c] = answer[c]
  PROVE  RaceOK(c)'
<1>1. /\ DOMAIN att'[c] = DOMAIN att[c]
      /\ att'[c][k] = a
      /\ \A j \in DOMAIN att[c] : j # k => att'[c][j] = att[c][j]
  BY BecomesTyped
<1>2. att[c] # << >>
  BY DEF TypeOK
<1>3. \A j \in DOMAIN att[c] : j # k => (Winner(c, j)' <=> Winner(c, j))
  BY <1>1 DEF Winner
<1>4. Winner(c, k)' <=> a.pc \in {"sending", "won"}
  BY <1>1 DEF Winner
<1>5. \A j \in DOMAIN att[c] : att[c][j].pc = "won" => att'[c][j] = att[c][j]
  BY <1>1 DEF Winner
<1>6. /\ claimed'[c] <=> \E j \in DOMAIN att'[c] : Winner(c, j)'
      /\ \A i, j \in DOMAIN att'[c] : Winner(c, i)' /\ Winner(c, j)' => i = j
  BY <1>1, <1>3, <1>4 DEF RaceOK
<1>7. ASSUME NEW r \in {result[c], answer[c]}, r.kind \in Outcomes
      PROVE  \E j \in DOMAIN att'[c] : att'[c][j].pc = "won" /\ r = Verdict(c, j)'
  <2>1. PICK j \in DOMAIN att[c] : att[c][j].pc = "won" /\ r = Verdict(c, j)
    BY <1>7 DEF RaceOK
  <2> QED
    BY <1>1, <1>5, <2>1 DEF Verdict
<1>8. handler[c] \notin {"idle", "picked"}
  BY <1>2 DEF RaceOK
<1> QED
  BY <1>6, <1>7, <1>8 DEF RaceOK

(* Every step keeps every race in order.                                   *)
LEMMA RacesStep == TypeOK /\ TrackerHoldsOpenCalls /\ RacesOK /\ [Next]_vars => RacesOK'
<1> SUFFICES ASSUME TypeOK, TrackerHoldsOpenCalls, RacesOK, [Next]_vars PROVE RacesOK'
  OBVIOUS
<1>0. \A c \in Calls : RaceOK(c)
  BY DEF RacesOK
<1>1. CASE UNCHANGED <<handlerVars, dispatched, claimed, result, att>>
  BY <1>0, <1>1, RaceFrame DEF RacesOK, handlerVars
<1>2. CASE RerouteFrom
  <2>1. PICK jobs \in SUBSET Victims : \E target \in [jobs -> Workers] :
           /\ att' = [c \in Calls |->
                        IF c \in jobs THEN Append(att[c], Launch(target[c])) ELSE att[c]]
           /\ UNCHANGED <<handlerVars, claimed, result>>
    BY <1>2, RerouteShape
  <2> PICK target \in [jobs -> Workers] :
           /\ att' = [c \in Calls |->
                        IF c \in jobs THEN Append(att[c], Launch(target[c])) ELSE att[c]]
           /\ UNCHANGED <<handlerVars, claimed, result>>
    BY <2>1
  <2> SUFFICES ASSUME NEW c \in Calls PROVE RaceOK(c)'
    BY DEF RacesOK
  <2>2. CASE c \in jobs
    <3>1. handler[c] \notin {"idle", "picked"} /\ target[c] \in Workers
      BY <2>2 DEF Victims, TrackerHoldsOpenCalls
    <3>2. att[c] \in Seq(Attempt) /\ att'[c] = Append(att[c], Launch(target[c]))
      BY <2>2 DEF TypeOK
    <3> QED
      BY <1>0, <3>1, <3>2, RaceLaunch DEF handlerVars
  <2>3. CASE c \notin jobs
    BY <1>0, <2>3, RaceFrame DEF handlerVars
  <2> QED
    BY <2>2, <2>3
<1>3. ASSUME NEW c \in Calls, HandlerStep(c), UNCHANGED <<dispatched, claimed, att>>, ~Register(c)
      PROVE  RacesOK'
  <2> SUFFICES ASSUME NEW d \in Calls PROVE RaceOK(d)'
    BY DEF RacesOK
  <2>1. CASE d # c
    <3>1. handler'[d] = handler[d] /\ answer'[d] = answer[d] /\ result'[d] = result[d]
      BY <1>3, <2>1 DEF TypeOK, HandlerStep, BeginGenerate, Registration,
              GenerateWithoutId, GenerateWithoutWorkers, PickWorker,
           RegisterDuplicate, Refuse, Receive, GiveUp, Unregister
    <3> QED
      BY <1>0, <1>3, <3>1, RaceFrame
  <2>2. CASE d = c
    <3>1. /\ result'[c] = result[c] \/ result'[c] = NoResult
          /\ answer'[c] = answer[c] \/ answer'[c] = result[c]
             \/ \E kind \in RefusalKinds : answer'[c] = Refusal(kind)
          /\ handler'[c] \notin {"idle", "picked"} \/ (handler[c] = "idle" /\ result'[c] = result[c])
      BY <1>3 DEF TypeOK, HandlerStep, BeginGenerate, Registration,
              GenerateWithoutId, GenerateWithoutWorkers, PickWorker,
           RegisterDuplicate, Refuse, Receive, GiveUp, Unregister, RefusalKinds
    <3>2. NoResult.kind \notin Outcomes /\ \A kind \in RefusalKinds : Refusal(kind).kind \notin Outcomes
      BY DEF NoResult, Refusal, RefusalKinds, Outcomes
    <3>3. \A r \in {result'[c], answer'[c]} : r.kind \in Outcomes => r \in {result[c], answer[c]}
      BY <3>1, <3>2
    <3> QED
      BY <1>0, <1>3, <2>2, <3>1, <3>3 DEF RaceOK, Winner, Verdict
  <2> QED
    BY <2>1, <2>2
<1>4. ASSUME NEW c \in Calls, Register(c) PROVE RacesOK'
  <2> SUFFICES ASSUME NEW d \in Calls PROVE RaceOK(d)'
    BY DEF RacesOK
  <2>1. /\ att' = [att EXCEPT ![c] = <<Launch(picked[c])>>]
        /\ handler[c] = "picked" /\ handler' = [handler EXCEPT ![c] = "waiting"]
        /\ UNCHANGED <<answer, claimed, result>>
    BY <1>4 DEF Register
  <2>2. CASE d # c
    BY <1>0, <2>1, <2>2, RaceFrame DEF TypeOK
  <2>3. CASE d = c
    <3>1. att'[c] = <<Launch(picked[c])>> /\ handler'[c] = "waiting"
      BY <2>1 DEF TypeOK
    <3>2. DOMAIN att'[c] = {1} /\ att'[c][1].pc = "rpc"
      BY <3>1 DEF Launch
    <3>3. \A r \in {result[c], answer[c]} : r.kind \notin Outcomes
      BY <1>0, <2>1 DEF RaceOK
    <3>4. ~claimed[c]
      BY <1>0, <2>1 DEF RaceOK
    <3> QED
      BY <2>1, <2>3, <3>1, <3>2, <3>3, <3>4 DEF RaceOK, Winner
  <2> QED
    BY <2>2, <2>3
<1>5. ASSUME NEW c \in Calls, NEW k \in DOMAIN att[c], ReplaceAttempt(c, k)
      PROVE  RacesOK'
  <2> SUFFICES ASSUME NEW d \in Calls PROVE RaceOK(d)'
    BY DEF RacesOK
  <2>1. PICK w \in Workers :
          /\ Retired(c, k) \in Seq(Attempt) /\ Len(Retired(c, k)) = Len(att[c])
          /\ Retired(c, k)[k].pc = "over"
          /\ \A j \in DOMAIN att[c] : j # k => Retired(c, k)[j] = att[c][j]
          /\ att' = [att EXCEPT ![c] = Append(Retired(c, k), Launch(w))]
    BY <1>5, ReplaceBecomes
  <2>2. ~Winner(c, k) /\ handler[c] \notin {"idle", "picked"}
    BY <1>0, <1>5 DEF ReplaceAttempt, Winner, RaceOK
  <2>5. UNCHANGED <<handlerVars, claimed, result>>
    BY <1>5 DEF ReplaceAttempt
  <2>3. CASE d = c
    <3>1. att'[c] = Append(Retired(c, k), Launch(w))
      BY <2>1 DEF TypeOK
    <3> QED
      BY <1>0, <2>1, <2>2, <2>3, <2>5, <3>1, RaceLaunch DEF handlerVars
  <2>4. CASE d # c
    <3>1. att'[d] = att[d]
      BY <2>1, <2>4 DEF TypeOK
    <3> QED
      BY <1>0, <2>5, <3>1, RaceFrame DEF handlerVars
  <2> QED
    BY <2>3, <2>4
<1>6. ASSUME NEW c \in Calls, NEW k \in DOMAIN att[c], AttemptStep(c, k), ~ReplaceAttempt(c, k),
             UNCHANGED handlerVars
      PROVE  RacesOK'
  <2> SUFFICES ASSUME NEW d \in Calls PROVE RaceOK(d)'
    BY DEF RacesOK
  <2>0. att[c] \in Seq(Attempt) /\ att[c][k] \in Attempt
    BY DEF TypeOK
  <2>1. ASSUME NEW kind \in Outcomes, settle(c, k, kind), att[c][k].pc \in {"rpc", "settling"},
               UNCHANGED result
        PROVE  RaceOK(d)'
    <3> DEFINE a == [att[c][k] EXCEPT !.pc = IF claimed[c] THEN "over" ELSE "sending", !.res = kind]
    <3>1. a \in Attempt /\ Becomes(c, k, a)
      BY <2>1, SettleBecomes
    <3>2. claimed' = [claimed EXCEPT ![c] = TRUE] /\ claimed[c] \in BOOLEAN /\ claimed'[c] = TRUE
      BY <2>1 DEF settle, TypeOK
    <3>3. a.pc = IF claimed[c] THEN "over" ELSE "sending"
      BY <2>0 DEF Attempt
    <3>4. ~Winner(c, k)
      BY <2>1 DEF Winner
    <3>5. claimed'[c] /\ (d # c => claimed'[d] = claimed[d])
      BY <3>2 DEF TypeOK
    <3> HIDE DEF a
    <3>6. IF a.pc \in {"sending", "won"} THEN ~claimed[c] /\ claimed'[c] ELSE claimed'[c] = claimed[c]
      <4>1. CASE claimed[c]
        <5>1. a.pc = "over" /\ claimed'[c] = claimed[c]
          BY <3>2, <3>3, <4>1
        <5> QED
          BY <5>1
      <4>2. CASE ~claimed[c]
        <5>1. a.pc = "sending"
          BY <3>3, <4>2
        <5> QED
          BY <3>2, <4>2, <5>1
      <4> QED
        BY <4>1, <4>2
    <3>7. CASE d = c
      BY <1>0, <1>6, <2>1, <3>1, <3>4, <3>6, <3>7, RaceAttempt DEF handlerVars
    <3>8. CASE d # c
      <4>1. att'[d] = att[d]
        BY <3>1, <3>8, BecomesTyped
      <4> QED
        BY <1>0, <1>6, <2>1, <3>5, <3>8, <4>1, RaceFrame DEF handlerVars
    <3> QED
      BY <3>7, <3>8
  <2>2. CASE AttemptSucceeds(c, k)
    BY <2>1, <2>2 DEF AttemptSucceeds, Outcomes
  <2>3. CASE SettleError(c, k)
    <3>1. att[c][k].res \in Outcomes
      BY <2>0, <2>3 DEF SettleError, Attempt
    <3> QED
      BY <2>1, <2>3, <3>1 DEF SettleError
  <2>4. CASE QuietStep(c, k)
    <3>1. PICK a \in Attempt : Becomes(c, k, a) /\ a.pc \notin {"sending", "won"}
      BY <2>4, QuietBecomes
    <3>2. ~Winner(c, k) /\ UNCHANGED <<claimed, result>>
      BY <2>4 DEF QuietStep, AttemptFails, SnapshotCandidates, DropAttempt, Winner
    <3>3. CASE d = c
      BY <1>0, <1>6, <3>1, <3>2, <3>3, RaceAttempt DEF handlerVars
    <3>4. CASE d # c
      <4>1. att'[d] = att[d]
        BY <3>1, <3>4, BecomesTyped
      <4> QED
        BY <1>0, <1>6, <3>2, <4>1, RaceFrame DEF handlerVars
    <3> QED
      BY <3>3, <3>4
  <2>5. CASE SendResult(c, k)
    <3> DEFINE a == [att[c][k] EXCEPT !.pc = "won"]
    <3>1. a \in Attempt /\ Becomes(c, k, a)
      BY <2>5, SendBecomes
    <3>2. a.pc = "won" /\ a.res = att[c][k].res /\ a.worker = att[c][k].worker
      BY <2>0 DEF Attempt
    <3>3. /\ att[c][k].pc = "sending"
          /\ result' = [result EXCEPT ![c] = [kind |-> att[c][k].res, worker |-> att[c][k].worker]]
          /\ UNCHANGED claimed
      BY <2>5 DEF SendResult
    <3> HIDE DEF a
    <3>4. /\ DOMAIN att'[c] = DOMAIN att[c]
          /\ att'[c][k] = a
          /\ \A j \in DOMAIN att[c] : j # k => att'[c][j] = att[c][j]
          /\ d # c => att'[d] = att[d]
      BY <3>1, BecomesTyped
    <3>5. CASE d = c
      <4>1. \A j \in DOMAIN att[c] : Winner(c, j)' <=> Winner(c, j)
        BY <3>2, <3>3, <3>4 DEF Winner
      <4>2. result'[c] = Verdict(c, k)' /\ att'[c][k].pc = "won"
        BY <3>2, <3>3, <3>4 DEF Verdict, TypeOK
      <4>3. \A j \in DOMAIN att[c] : att[c][j].pc = "won" => att'[c][j] = att[c][j]
        BY <3>3, <3>4
      <4>4. answer'[c] = answer[c] /\ handler'[c] = handler[c] /\ claimed'[c] = claimed[c]
        BY <1>6, <3>3 DEF handlerVars
      <4>5. handler[c] \notin {"idle", "picked"}
        BY <1>0, <2>0 DEF RaceOK
      <4>6. /\ claimed'[c] <=> \E j \in DOMAIN att'[c] : Winner(c, j)'
            /\ \A i, j \in DOMAIN att'[c] : Winner(c, i)' /\ Winner(c, j)' => i = j
        BY <1>0, <3>4, <4>1, <4>4 DEF RaceOK
      <4>7. ASSUME NEW r \in {result'[c], answer'[c]}, r.kind \in Outcomes
            PROVE  \E j \in DOMAIN att'[c] : att'[c][j].pc = "won" /\ r = Verdict(c, j)'
        <5>1. CASE r = result'[c]
          BY <3>4, <4>2, <5>1
        <5>2. CASE r = answer[c]
          <6>1. PICK j \in DOMAIN att[c] : att[c][j].pc = "won" /\ r = Verdict(c, j)
            BY <1>0, <4>7, <5>2 DEF RaceOK
          <6> QED
            BY <3>4, <4>3, <6>1 DEF Verdict
        <5> QED
          BY <4>4, <4>7, <5>1, <5>2
      <4> QED
        BY <3>5, <4>4, <4>5, <4>6, <4>7 DEF RaceOK
    <3>6. CASE d # c
      <4>1. result'[d] = result[d]
        BY <3>3, <3>6 DEF TypeOK
      <4> QED
        BY <1>0, <1>6, <3>3, <3>4, <3>6, <4>1, RaceFrame DEF handlerVars
    <3> QED
      BY <3>5, <3>6
  <2> QED
    BY <1>6, <2>2, <2>3, <2>4, <2>5 DEF AttemptStep, QuietStep
<1> QED
  BY <1>1, <1>2, <1>3, <1>4, <1>5, <1>6, StepShapes

(* The race of every request is in order in every state: the inductive     *)
(* invariant behind the theorems on winners and answers.                   *)
THEOREM RacesHold == Spec => []RacesOK
<1>1. Init => RacesOK
  BY DEF Init, RacesOK, RaceOK, NoResult, Outcomes
<1> QED
  BY <1>1, TypeCorrect, TrackerAgrees, RacesStep, PTL DEF Spec

(* At most one attempt per request ever wins the latch, the latch is       *)
(* closed exactly when one has, and the winner finds the channel empty.    *)
THEOREM OneWinner == Spec => []ExactlyOneWinner
<1>1. TypeOK /\ RacesOK => ExactlyOneWinner
  <2> SUFFICES ASSUME TypeOK, RacesOK, NEW c \in Calls
               PROVE  /\ claimed[c] <=> \E k \in DOMAIN att[c] : Winner(c, k)
                      /\ \A j, k \in DOMAIN att[c] : Winner(c, j) /\ Winner(c, k) => j = k
                      /\ \A k \in DOMAIN att[c] : att[c][k].pc = "sending" => result[c] = NoResult
    BY DEF ExactlyOneWinner
  <2>1. result[c] # NoResult => result[c].kind \in Outcomes
    BY DEF TypeOK, attemptResult
  <2> QED
    BY <2>1 DEF RacesOK, RaceOK, Winner
<1> QED
  BY <1>1, TypeCorrect, RacesHold, PTL

(* What the channel holds and what Generate returns is the outcome of the  *)
(* attempt that won.                                                       *)
THEOREM AnswersAreWinners == Spec => []AnswerIsTheWinners
<1>1. RacesOK => AnswerIsTheWinners
  BY DEF RacesOK, RaceOK, AnswerIsTheWinners
<1> QED
  BY <1>1, RacesHold, PTL

=============================================================================

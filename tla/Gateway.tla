------------------------------ MODULE Gateway ------------------------------
(***************************************************************************)
(* The data-plane gateway of internal/gateway: the Generate handlers, the  *)
(* attempt goroutines they and the reroute path launch, the RequestTracker *)
(* with its inflight records, and the single poll-loop goroutine.          *)
(*                                                                         *)
(* One action is one critical section or one atomic operation of the code; *)
(* what a goroutine does between two of them is local to it.  The worker   *)
(* list a poll returns is arbitrary here: nothing in this package relies   *)
(* on how the control plane computes it.                                   *)
(***************************************************************************)
EXTENDS Integers, Sequences, FiniteSets

CONSTANTS
  Workers,      \* worker ids
  Calls,        \* client invocations of Generate; each makes one inflight
  ReqIds,       \* non-empty request ids
  RequestId,    \* the request id that each call carries
  MaxAttempts,  \* maxAttempts, the dispatch budget of one request
  NoWorker,     \* the zero value of a worker id
  NoCall,       \* "no entry" in the tracker's map
  NoId          \* the empty request id

ASSUME GatewayAssumption ==
  /\ RequestId \in [Calls -> ReqIds \cup {NoId}]
  /\ MaxAttempts \in Nat \ {0}
  /\ NoWorker \notin Workers
  /\ NoCall \notin Calls
  /\ NoId \notin ReqIds

VARIABLES
  view,         \* Gateway.workers, as a set of ids
  departed,     \* the poll loop's local set, from the diff to the reroute
  handler,      \* where each Generate handler is
  picked,       \* the worker a handler picked and has not registered yet
  answer,       \* what each Generate returned
  requests,     \* RequestTracker.requests
  assigned,     \* inflight.assigned      } one inflight record per call,
  attempts,     \* inflight.attempts      } reached by its goroutines through
  dispatched,   \* inflight.dispatched    } a pointer, so it outlives its
  tried,        \* inflight.tried         } entry in the map
  claimed,      \* inflight.claimed       }
  result,       \* inflight.result, a channel of capacity one
  att           \* every attempt ever launched for a call, in launch order

pollVars     == <<view, departed>>
handlerVars  == <<handler, picked, answer, requests>>
guardedVars  == <<assigned, attempts, dispatched, tried>>
vars == <<pollVars, handlerVars, guardedVars, claimed, result, att>>

----------------------------------------------------------------------------
(* Values.                                                                 *)

\* The status codes a worker RPC is seen to fail with; two are retryable.
ErrorCodes == {"Unavailable", "DeadlineExceeded", "Internal"}

\* What an attempt can settle with: a response, a terminal error, or the
\* Unavailable error that reports exhaustion.
Outcomes == {"ok", "terminal", "exhausted"}

\* What Generate can answer besides an attempt's outcome.
RefusalKinds == {"InvalidArgument", "NoHealthyWorkers", "AlreadyExists", "GaveUp"}

NoResult == [kind |-> "none", worker |-> NoWorker]

Refusal(kind) == [kind |-> kind, worker |-> NoWorker]

attemptResult == [kind : Outcomes, worker : Workers]

(* A goroutine running attempt() is                                        *)
(*   "rpc"       inside g.dispatch                                         *)
(*   "retry"     in attemptFailed, past the latch check and retryable()    *)
(*   "snapped"   holding its candidate snapshot, before the tracker lock   *)
(*   "settling"  about to call settle with an error                        *)
(*   "sending"   past a won CompareAndSwap, before the channel send        *)
(*   "won"       finished, its result sent                                 *)
(*   "over"      finished, without an answer                               *)
Phases == {"rpc", "retry", "snapped", "settling", "sending", "won", "over"}

Attempt ==
  {a \in [worker : Workers, pc : Phases, cands : SUBSET Workers, res : Outcomes \cup {"none"}] :
     a.pc \in {"settling", "sending", "won"} => a.res \in Outcomes}

Launch(w) == [worker |-> w, pc |-> "rpc", cands |-> {}, res |-> "none"]

\* attempts that may still answer and have not been taken off the gauge
InTheAir(a) ==
  \/ a.pc \in {"rpc", "retry", "snapped"}
  \/ a.pc = "settling" /\ a.res = "terminal"

Live(c) == {k \in DOMAIN att[c] : InTheAir(att[c][k])}

Tracked(c) == RequestId[c] \in ReqIds /\ requests[RequestId[c]] = c

----------------------------------------------------------------------------
(* New and NewRequestTracker; the view is blank until the first poll.      *)
Init ==
  /\ view       = {}
  /\ departed   = {}
  /\ handler    = [c \in Calls |-> "idle"]
  /\ picked     = [c \in Calls |-> NoWorker]
  /\ answer     = [c \in Calls |-> NoResult]
  /\ requests   = [i \in ReqIds |-> NoCall]
  /\ assigned   = [c \in Calls |-> NoWorker]
  /\ attempts   = [c \in Calls |-> 0]
  /\ dispatched = [c \in Calls |-> 0]
  /\ tried      = [c \in Calls |-> {}]
  /\ claimed    = [c \in Calls |-> FALSE]
  /\ result     = [c \in Calls |-> NoResult]
  /\ att        = [c \in Calls |-> << >>]

----------------------------------------------------------------------------
(* The poll loop.                                                          *)

healthyExcept(exclude) == view \ exclude

departedIDs(old, fresh) == old \ fresh

\* pollOnce up to the end of its critical section.  A failed ListWorkers
\* changes nothing, and the loop never polls again before rerouteFrom returns.
PollOnce(fresh) ==
  /\ departed = {}
  /\ departed' = departedIDs(view, fresh)
  /\ view' = fresh
  /\ UNCHANGED <<handlerVars, guardedVars, claimed, result, att>>

\* mutant of Victims: the budget only gates the fast path
VictimsWithoutBudget == {c \in Calls : Tracked(c) /\ assigned[c] \in departed}

\* mutant of Victims: every tracked request is taken for a stranded one
VictimsAnywhere == {c \in Calls : Tracked(c) /\ dispatched[c] < MaxAttempts}

\* phase 2's selection, under the tracker lock
Victims ==
  {c \in Calls : Tracked(c) /\ assigned[c] \in departed /\ dispatched[c] < MaxAttempts}

\* one entry of phase 2's loop body applied to every call of a set
Bump(counter, S) == [c \in Calls |-> IF c \in S THEN counter[c] + 1 ELSE counter[c]]

\* mutant of RerouteFrom: the new attempt replaces the old one on the gauge
RerouteAsReplacement ==
  /\ departed # {}
  /\ LET healthy == healthyExcept(departed)
         jobs    == IF healthy = {} THEN {} ELSE Victims
     IN  \E target \in [jobs -> healthy] :
           /\ assigned' = [c \in Calls |-> IF c \in jobs THEN target[c] ELSE assigned[c]]
           /\ attempts' = attempts
           /\ dispatched' = Bump(dispatched, jobs)
           /\ att' = [c \in Calls |->
                        IF c \in jobs THEN Append(att[c], Launch(target[c])) ELSE att[c]]
  /\ departed' = {}
  /\ UNCHANGED <<view, handlerVars, tried, claimed, result>>

\* rerouteFrom.  Only this goroutine writes the view, so the phase-1 snapshot
\* is still the view when phase 2 takes the tracker lock; phase 3 only spawns.
RerouteFrom ==
  /\ departed # {}
  /\ LET healthy == healthyExcept(departed)
         jobs    == IF healthy = {} THEN {} ELSE Victims
     IN  \E target \in [jobs -> healthy] :
           /\ assigned' = [c \in Calls |-> IF c \in jobs THEN target[c] ELSE assigned[c]]
           /\ attempts' = Bump(attempts, jobs)
           /\ dispatched' = Bump(dispatched, jobs)
           /\ att' = [c \in Calls |->
                        IF c \in jobs THEN Append(att[c], Launch(target[c])) ELSE att[c]]
  /\ departed' = {}
  /\ UNCHANGED <<view, handlerVars, tried, claimed, result>>

----------------------------------------------------------------------------
(* The Generate handler.                                                   *)

\* a return before anything was registered
Refuse(c, kind) ==
  /\ handler' = [handler EXCEPT ![c] = "returned"]
  /\ answer' = [answer EXCEPT ![c] = Refusal(kind)]
  /\ picked' = [picked EXCEPT ![c] = NoWorker]
  /\ UNCHANGED <<pollVars, requests, guardedVars, claimed, result, att>>

GenerateWithoutId(c) ==
  /\ handler[c] = "idle"
  /\ RequestId[c] = NoId
  /\ Refuse(c, "InvalidArgument")

GenerateWithoutWorkers(c) ==
  /\ handler[c] = "idle"
  /\ RequestId[c] # NoId
  /\ view = {}
  /\ Refuse(c, "NoHealthyWorkers")

PickWorker(c) ==
  /\ handler[c] = "idle"
  /\ RequestId[c] # NoId
  /\ \E w \in view : picked' = [picked EXCEPT ![c] = w]
  /\ handler' = [handler EXCEPT ![c] = "picked"]
  /\ UNCHANGED <<pollVars, answer, requests, guardedVars, claimed, result, att>>

\* Generate up to its pick, with the three outcomes of that stretch
BeginGenerate(c) ==
  /\ handler[c] = "idle"
  /\ GenerateWithoutId(c) \/ GenerateWithoutWorkers(c) \/ PickWorker(c)

\* mutant of RegisterDuplicate: unregister is deferred before register's
\* error is looked at
RegisterDuplicateUnregisters(c) ==
  /\ handler[c] = "picked"
  /\ requests[RequestId[c]] # NoCall
  /\ handler' = [handler EXCEPT ![c] = "returned"]
  /\ answer' = [answer EXCEPT ![c] = Refusal("AlreadyExists")]
  /\ picked' = [picked EXCEPT ![c] = NoWorker]
  /\ requests' = [requests EXCEPT ![RequestId[c]] = NoCall]
  /\ UNCHANGED <<pollVars, guardedVars, claimed, result, att>>

RegisterDuplicate(c) ==
  /\ handler[c] = "picked"
  /\ requests[RequestId[c]] # NoCall
  /\ Refuse(c, "AlreadyExists")

\* register admits the request, and the handler spawns its first attempt
Register(c) ==
  /\ handler[c] = "picked"
  /\ requests[RequestId[c]] = NoCall
  /\ requests'   = [requests EXCEPT ![RequestId[c]] = c]
  /\ assigned'   = [assigned EXCEPT ![c] = picked[c]]
  /\ attempts'   = [attempts EXCEPT ![c] = 1]
  /\ dispatched' = [dispatched EXCEPT ![c] = 1]
  /\ tried'      = [tried EXCEPT ![c] = {}]
  /\ att'        = [att EXCEPT ![c] = <<Launch(picked[c])>>]
  /\ handler'    = [handler EXCEPT ![c] = "waiting"]
  /\ picked'     = [picked EXCEPT ![c] = NoWorker]
  /\ UNCHANGED <<pollVars, answer, claimed, result>>

\* the tracker's verdict on the request
Registration(c) ==
  /\ handler[c] = "picked"
  /\ RegisterDuplicate(c) \/ Register(c)

\* the select's first case: the receive empties the channel's only slot
Receive(c) ==
  /\ handler[c] = "waiting"
  /\ result[c] # NoResult
  /\ answer'  = [answer EXCEPT ![c] = result[c]]
  /\ result'  = [result EXCEPT ![c] = NoResult]
  /\ handler' = [handler EXCEPT ![c] = "leaving"]
  /\ UNCHANGED <<pollVars, picked, requests, guardedVars, claimed, att>>

\* its second case: the client's context ends; nothing tells the attempts
GiveUp(c) ==
  /\ handler[c] = "waiting"
  /\ answer'  = [answer EXCEPT ![c] = Refusal("GaveUp")]
  /\ handler' = [handler EXCEPT ![c] = "leaving"]
  /\ UNCHANGED <<pollVars, picked, requests, guardedVars, claimed, result, att>>

\* the deferred unregister
Unregister(c) ==
  /\ handler[c] = "leaving"
  /\ requests' = [requests EXCEPT ![RequestId[c]] = NoCall]
  /\ handler'  = [handler EXCEPT ![c] = "returned"]
  /\ UNCHANGED <<pollVars, picked, answer, guardedVars, claimed, result, att>>

----------------------------------------------------------------------------
(* The attempt goroutines; k is an attempt of call c.                      *)

\* mutant of settle: the channel's buffer slot is the token, not the latch
settleBySlot(c, k, kind) ==
  /\ claimed' = [claimed EXCEPT ![c] = TRUE]
  /\ att' = [att EXCEPT ![c][k].pc  = IF result[c] # NoResult THEN "over" ELSE "sending",
                        ![c][k].res = kind]

\* the latch of inflight.settle: CompareAndSwap(false, true)
settle(c, k, kind) ==
  /\ claimed' = [claimed EXCEPT ![c] = TRUE]
  /\ att' = [att EXCEPT ![c][k].pc  = IF claimed[c] THEN "over" ELSE "sending",
                        ![c][k].res = kind]

\* dispatch returns a response, and attempt settles with it
AttemptSucceeds(c, k) ==
  /\ att[c][k].pc = "rpc"
  /\ settle(c, k, "ok")
  /\ UNCHANGED <<pollVars, handlerVars, guardedVars, result>>

\* mutant of SendResult: the result names the worker last assigned
SendAssigned(c, k) ==
  /\ att[c][k].pc = "sending"
  /\ result[c] = NoResult
  /\ result' = [result EXCEPT ![c] = [kind |-> att[c][k].res, worker |-> assigned[c]]]
  /\ att' = [att EXCEPT ![c][k].pc = "won"]
  /\ UNCHANGED <<pollVars, handlerVars, guardedVars, claimed>>

\* mutant of SendResult: a channel of capacity zero needs a receiver
SendUnbuffered(c, k) ==
  /\ att[c][k].pc = "sending"
  /\ handler[c] = "waiting"
  /\ result[c] = NoResult
  /\ result' = [result EXCEPT ![c] = [kind |-> att[c][k].res, worker |-> att[c][k].worker]]
  /\ att' = [att EXCEPT ![c][k].pc = "won"]
  /\ UNCHANGED <<pollVars, handlerVars, guardedVars, claimed>>

\* the channel send of settle; a full channel would block it
SendResult(c, k) ==
  /\ att[c][k].pc = "sending"
  /\ result[c] = NoResult
  /\ result' = [result EXCEPT ![c] = [kind |-> att[c][k].res, worker |-> att[c][k].worker]]
  /\ att' = [att EXCEPT ![c][k].pc = "won"]
  /\ UNCHANGED <<pollVars, handlerVars, guardedVars, claimed>>

\* mutant of retryable: a timeout is taken for the request's own fault
retryableButTimeouts(err) == err = "Unavailable"

retryable(err) == err \in {"Unavailable", "DeadlineExceeded"}

\* dispatch returns an error (the attempt's own timeout among them), and
\* attemptFailed reads the latch and classifies the error
AttemptFails(c, k, err) ==
  /\ att[c][k].pc = "rpc"
  /\ \/ /\ claimed[c]
        /\ att' = [att EXCEPT ![c][k].pc = "over"]
     \/ /\ ~claimed[c] /\ retryable(err)
        /\ att' = [att EXCEPT ![c][k].pc = "retry"]
     \/ /\ ~claimed[c] /\ ~retryable(err)
        /\ att' = [att EXCEPT ![c][k].pc = "settling", ![c][k].res = "terminal"]
  /\ UNCHANGED <<pollVars, handlerVars, guardedVars, claimed, result>>

\* attemptFailed snapshots its candidates under the view lock
SnapshotCandidates(c, k) ==
  /\ att[c][k].pc = "retry"
  /\ att' = [att EXCEPT ![c][k].pc = "snapped",
                        ![c][k].cands = healthyExcept({att[c][k].worker})]
  /\ UNCHANGED <<pollVars, handlerVars, guardedVars, claimed, result>>

\* mutant of Eligible: tried is taken for the termination condition
EligibleWithoutBudget(c, k) ==
  att[c][k].cands \ (tried[c] \cup {att[c][k].worker})

\* the replacements attemptFailed may choose inside the tracker lock
Eligible(c, k) ==
  IF dispatched[c] < MaxAttempts
  THEN att[c][k].cands \ (tried[c] \cup {att[c][k].worker})
  ELSE {}

\* mutant of ReplaceAttempt: the failed attempt fans out to every candidate
ReplaceByAll(c, k) ==
  /\ att[c][k].pc = "snapped"
  /\ Eligible(c, k) # {}
  /\ LET E == Eligible(c, k)
     IN  \E order \in [1..Cardinality(E) -> E] :
           /\ \A w \in E : \E i \in DOMAIN order : order[i] = w
           /\ assigned' = [assigned EXCEPT ![c] = order[1]]
           /\ att' = [att EXCEPT ![c] = [@ EXCEPT ![k].pc = "over", ![k].cands = {}] \o
                                         [i \in DOMAIN order |-> Launch(order[i])]]
           /\ attempts' = [attempts EXCEPT ![c] = @ - 1 + Cardinality(E)]
           /\ dispatched' = [dispatched EXCEPT ![c] = @ + Cardinality(E)]
  /\ tried' = [tried EXCEPT ![c] = @ \cup {att[c][k].worker}]
  /\ UNCHANGED <<pollVars, handlerVars, claimed, result>>

\* attemptFailed's critical section finds a replacement, which the same
\* goroutine then runs: attempts goes down by one and up by one
ReplaceAttempt(c, k) ==
  /\ att[c][k].pc = "snapped"
  /\ \E w \in Eligible(c, k) :
       /\ assigned' = [assigned EXCEPT ![c] = w]
       /\ att' = [att EXCEPT ![c] =
                    Append([@ EXCEPT ![k].pc = "over", ![k].cands = {}], Launch(w))]
  /\ tried'      = [tried EXCEPT ![c] = @ \cup {att[c][k].worker}]
  /\ dispatched' = [dispatched EXCEPT ![c] = @ + 1]
  /\ UNCHANGED <<pollVars, handlerVars, attempts, claimed, result>>

\* mutant of LastInTheAir: the gauge is read before this attempt left it
LastReadTooEarly(c) == attempts[c] = 0

\* mutant of LastInTheAir: running out of replacements ends the request
LastOutOfCandidates(c) == TRUE

\* exhausted = ih.attempts == 0, read after the decrement
LastInTheAir(c) == attempts[c] - 1 = 0

\* the critical section finds none: the attempt ends, and the one that
\* brings the gauge to zero goes on to settle with the exhaustion error
DropAttempt(c, k) ==
  /\ att[c][k].pc = "snapped"
  /\ Eligible(c, k) = {}
  /\ tried'    = [tried EXCEPT ![c] = @ \cup {att[c][k].worker}]
  /\ attempts' = [attempts EXCEPT ![c] = @ - 1]
  /\ att' = IF LastInTheAir(c)
            THEN [att EXCEPT ![c][k].pc = "settling", ![c][k].cands = {}, ![c][k].res = "exhausted"]
            ELSE [att EXCEPT ![c][k].pc = "over", ![c][k].cands = {}]
  /\ UNCHANGED <<pollVars, handlerVars, assigned, dispatched, claimed, result>>

\* attemptFailed calls settle with the error it decided on
SettleError(c, k) ==
  /\ att[c][k].pc = "settling"
  /\ settle(c, k, att[c][k].res)
  /\ UNCHANGED <<pollVars, handlerVars, guardedVars, result>>

----------------------------------------------------------------------------
(* The specification.                                                      *)

HandlerStep(c) ==
  \/ BeginGenerate(c)
  \/ Registration(c)
  \/ Receive(c)
  \/ GiveUp(c)
  \/ Unregister(c)

AttemptStep(c, k) ==
  \/ AttemptSucceeds(c, k)
  \/ \E err \in ErrorCodes : AttemptFails(c, k, err)
  \/ SnapshotCandidates(c, k)
  \/ ReplaceAttempt(c, k)
  \/ DropAttempt(c, k)
  \/ SettleError(c, k)
  \/ SendResult(c, k)

PollStep ==
  \/ \E fresh \in SUBSET Workers : PollOnce(fresh)
  \/ RerouteFrom

Next ==
  \/ PollStep
  \/ \E c \in Calls : HandlerStep(c)
  \/ \E c \in Calls : \E k \in DOMAIN att[c] : AttemptStep(c, k)

Spec == Init /\ [][Next]_vars

----------------------------------------------------------------------------
(* Properties.                                                             *)

TypeOK ==
  /\ view \subseteq Workers
  /\ departed \subseteq Workers
  /\ handler \in [Calls -> {"idle", "picked", "waiting", "leaving", "returned"}]
  /\ picked \in [Calls -> Workers \cup {NoWorker}]
  /\ \A c \in Calls : handler[c] = "picked" => picked[c] \in Workers /\ RequestId[c] \in ReqIds
  /\ answer \in [Calls -> [kind : Outcomes \cup RefusalKinds \cup {"none"}, worker : Workers \cup {NoWorker}]]
  /\ requests \in [ReqIds -> Calls \cup {NoCall}]
  /\ assigned \in [Calls -> Workers \cup {NoWorker}]
  /\ attempts \in [Calls -> Int]
  /\ dispatched \in [Calls -> 0..MaxAttempts]
  /\ tried \in [Calls -> SUBSET Workers]
  /\ claimed \in [Calls -> BOOLEAN]
  /\ result \in [Calls -> attemptResult \cup {NoResult}]
  /\ att \in [Calls -> Seq(Attempt)]

Winner(c, k) == att[c][k].pc \in {"sending", "won"}

Verdict(c, k) == [kind |-> att[c][k].res, worker |-> att[c][k].worker]

(* settle's latch decides each request once: it is closed exactly when one *)
(* attempt has won it, no second attempt ever wins, and the winner's send  *)
(* always finds the channel empty, so settle never blocks                  *)
(* (tracker.go, "Exactly one send ever reaches this line").                *)
ExactlyOneWinner ==
  \A c \in Calls :
    /\ claimed[c] <=> \E k \in DOMAIN att[c] : Winner(c, k)
    /\ \A j, k \in DOMAIN att[c] : Winner(c, j) /\ Winner(c, k) => j = k
    /\ \A k \in DOMAIN att[c] : att[c][k].pc = "sending" => result[c] = NoResult

(* What the channel holds, and what Generate returns from it, is the       *)
(* winner's own outcome: the receive can neither be given a loser's answer *)
(* nor one that another call's attempt produced.                           *)
AnswerIsTheWinners ==
  \A c \in Calls : \A r \in {result[c], answer[c]} :
    r.kind \in Outcomes => \E k \in DOMAIN att[c] : att[c][k].pc = "won" /\ r = Verdict(c, k)

(* inflight.attempts is the gauge attemptFailed trusts: until the race is  *)
(* decided it is the number of attempts in the air, and it never drops     *)
(* below that number, so that zero means nobody is left.                   *)
GaugeCountsLiveAttempts ==
  \A c \in Calls :
    /\ attempts[c] >= Cardinality(Live(c))
    /\ ~claimed[c] => attempts[c] = Cardinality(Live(c))

(* dispatched counts every launch of both failure paths, and maxAttempts   *)
(* bounds the launches of one request whatever the view does meanwhile.    *)
BudgetBoundsLaunches ==
  \A c \in Calls : /\ dispatched[c] = Len(att[c])
                   /\ Len(att[c]) <= MaxAttempts

(* A parked handler is never abandoned: before the decision some attempt   *)
(* is running or about to settle, and after it the result is in the        *)
(* channel or on its way.                                                  *)
WaiterIsServed ==
  \A c \in Calls : handler[c] = "waiting" =>
    IF claimed[c]
    THEN result[c] # NoResult \/ \E k \in DOMAIN att[c] : att[c][k].pc = "sending"
    ELSE \E k \in DOMAIN att[c] : InTheAir(att[c][k]) \/ att[c][k].pc = "settling"

(* The tracker's map holds exactly the calls between their registration    *)
(* and their deferred unregister: a rejected duplicate neither takes over  *)
(* nor removes the entry of the call that owns the id.                     *)
TrackerHoldsOpenCalls ==
  \A c \in Calls : Tracked(c) <=> handler[c] \in {"waiting", "leaving"}

(* attemptFailed decides on the exhaustion error only when no attempt of   *)
(* the request is in the air at that moment (the exhausted flag is read    *)
(* under the tracker lock).                                                *)
ExhaustionNeedsSilence ==
  [][\A c \in Calls : \A k \in DOMAIN att[c] :
       /\ att[c][k].pc # "settling"
       /\ att'[c][k].pc = "settling"
       /\ att'[c][k].res = "exhausted"
       => Live(c)' = {}]_vars

(* Only a registration, or a departure of the worker the request is        *)
(* assigned to, adds to the attempts in the air; the fast path replaces an *)
(* attempt that is over and creates no duplicate.                          *)
OnlyDepartureDuplicates ==
  [][\A c \in Calls : Cardinality(Live(c)') > Cardinality(Live(c)) =>
       handler[c] = "picked" \/ (Tracked(c) /\ assigned[c] \in departed)]_vars

----------------------------------------------------------------------------
(* What comments of the code say and the code does not do.  Each of these  *)
(* is refuted by a run of its own.                                         *)

(* rerouteFrom's promise, "re-dispatches every in-flight request stranded  *)
(* on a departed worker": between two polls, an undecided request that     *)
(* still has budget is assigned to a worker of the view.                   *)
StrandedIsRescued ==
  departed = {} /\ view # {} =>
    \A c \in Calls : Tracked(c) /\ ~claimed[c] /\ dispatched[c] < MaxAttempts =>
      assigned[c] \in view

(* attemptFailed's "Nobody is left to answer. Only now may an error become *)
(* the client's result": when the exhaustion error wins the latch, no      *)
(* attempt is in the air.                                                  *)
ExhaustionAnswersOnlySilence ==
  [][\A c \in Calls : \A k \in DOMAIN att[c] :
       /\ att[c][k].pc = "settling" /\ att[c][k].res = "exhausted"
       /\ att'[c][k].pc = "sending"
       => Live(c) = {}]_vars

=============================================================================

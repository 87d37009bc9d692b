# A TLA+ verification of llm-inference-cp

The repository is a small LLM-inference control plane in Go: workers register with
a control plane and beat, a phi-accrual detector evicts the silent ones, and a
gateway forwards each client request to a worker, reroutes it when workers vanish,
and lets the first answer win. This directory models that system, model-checks it
with TLC, part by part and as a whole, and proves with TLAPS the safety claims of the
parts, that the parts are what the whole takes them for, and what the whole survives.

Contents: [inventory](#inventory), [modules](#modules-and-correspondence),
[runs](#runs), [fairness](#fairness), [proofs](#proofs),
[where code and comments disagree](#where-the-code-and-its-comments-disagree),
[not modelled](#not-modelled), [plan](#plan).

## Inventory

| Part | State | Operations | Hard because |
| --- | --- | --- | --- |
| **Gateway** `internal/gateway/gateway.go` | `workers` (view, `mu`), `conns` (`connsMu`), `tracker` | `Generate` handlers, `attempt`/`attemptFailed` goroutines, one poll loop (`pollOnce`, `rerouteFrom`), `connFor`, `Close` | three kinds of goroutine, two locks that never nest, decisions taken from snapshots |
| **Request tracker** `internal/gateway/tracker.go` | `requests`; per request `assigned`, `attempts`, `dispatched`, `tried` (tracker lock), `claimed` (atomic), `result` (channel, capacity 1) | `register`, `unregister`, `settle`, `retryable` | an inflight outlives its map entry; late losers; two counters with different meanings |
| **Detector** `internal/detector/detector.go` | `entries`, `events` (capacity 64) | `scanOnce` in three phases, `Run`, `phi`, the sliding window | acts on a snapshot; blocks on a channel; judges from absence |
| **Registry** `internal/registry/registry.go` | `workers` | `Register`, `Deregister`, `Heartbeat`, `ListWorkers` | shared by handlers and the scanner |
| **Control-plane handlers** `internal/controlplane/server.go` | none | `Register`, `Heartbeat`, `ListWorkers`, `Deregister` | a handler may run after its caller stopped waiting |
| **Control-plane process** `cmd/controlplane` | ctx, wait group | scanner, server, event drain, shutdown | three goroutines wind down in any order; all state is in memory |
| **Worker** `cmd/worker` | its id, ctx | initial `Register`, heartbeat loop, re-register on `NotFound`, `Deregister`; the mock `Generate` | signals and broken calls at any point |
| **Gateway process** `cmd/gateway` | ctx, wait group | poll loop, server, shutdown: `GracefulStop`, then `Close` | attempts are in no wait group; the connections they use are shared |
| **Demo client**, `gen/`, `proto/`, `scripts/`, docs | | | |

How they interact. Workers call the control plane (`Register`, `Heartbeat`,
`Deregister`); the handlers and the detector's scanner share the registry. The
gateway *polls* `ListWorkers` and learns of departures from the difference between
two polls, so a departure is an edge, seen once. The gateway calls the workers'
`Generate` from attempt goroutines. A handler, its attempts and the poll loop share
one `inflight` record. There are two failure paths: the fast one (an RPC returns
`Unavailable` or `DeadlineExceeded`, and `attemptFailed` replaces the attempt) and
the slow one (a poll shows that a worker is gone, and `rerouteFrom` launches a
second attempt while the first may still be computing).

What makes each part correct:

* gateway and tracker: a request is decided once; the client gets the winner's
  answer; the live gauge is exact while it matters; launches stay within the
  budget; no waiting handler is abandoned; no goroutine leaks; a duplicate id
  never disturbs the call that owns it;
* detector: no verdict without history, no leftover state after a death, every
  death carried through, silence detected;
* membership: only a worker's own `Register` admits it, and a running worker
  always comes back;
* window: it holds the latest gaps and its moments are theirs; the verdict read off
  them forgives jitter and does not fall in a silence;
* gateway process: a stop ends, every call returns first, and no connection is
  closed under a client that waits;
* the whole: one fault loses no request while a worker in view stays up, and puts
  at most two computations on it.

`PROJECT.json` lists the hazards of the code at their lines, with the properties
that watch each one.

## Modules and correspondence

| Module | Models |
| --- | --- |
| `Gateway` | handlers, attempts, tracker, poll loop |
| `FirstWins` | what the gateway promises its clients, with no workers, attempts, counters or channels |
| `GatewayRefinement` | the mapping under which `Gateway` implements `FirstWins` |
| `GatewayProcess` | the process around `Gateway`: connection cache, shutdown, exit |
| `System` | `Gateway` and `Roster` composed, with the worker processes and their faults between them |
| `ControlPlane` | registry, detector, event channel, shutdown |
| `Membership` | `ControlPlane` composed with the workers' loops and the RPCs between them |
| `Roster` | what membership amounts to, with no RPCs, scores, snapshots or events |
| `MembershipRefinement` | the mapping under which `Membership` implements `Roster` |
| `SlidingWindow` | the detector's ring buffer and phi's verdict over it |
| `MCGateway`, `MCGatewayProcess`, `MCSystem`, `MCMembership` | the instances TLC checks: ids and symmetries |
| `GatewayProofs` | theorems of `Gateway`: types, budget, map, latch and answers |
| `GatewayGaugeProofs` | theorems about the gauge `attempts` and what depends on it |
| `GatewayRefinementProofs` | `Gateway` implements `FirstWins` |
| `GatewayProcessProofs`, `SystemProofs` | the process and the composition are their parts' |
| `OneFaultProofs` | what one fault, and any number of them, can and cannot do to the whole |
| `MembershipProofs`, `SlidingWindowProofs` | theorems of the control plane and of the window |

How they fit: `System` puts `Gateway` on top of `Roster`; `Membership` implements
`Roster`; `Gateway` implements `FirstWins`. `GatewayProcess` and `System` both extend
`Gateway` and only take its steps (proved), so they inherit its theorems. The rest
of the whole can thus be checked against seven abstract membership steps instead
of the detector's internals.

A definition that ends in the description "mutant of X" in its comment is not part
of any specification: it is X with a plausible bug, and each property of a passing
run is violated when the corresponding mutant takes X's place. They document what
each property would catch.

### Gateway

One action is one critical section or one atomic operation; whatever a goroutine
does between two of them is local to it.

* `view` is `Gateway.workers` as a set of ids. `PollOnce(fresh)` is a successful
  poll up to the release of `mu`; `fresh` is *any* set of workers, because nothing
  in this package relies on how the control plane computes it. `departed` is the
  loop's local set; the loop cannot poll again before `RerouteFrom`, which is
  phases 1 to 3 of `rerouteFrom`. Phase 1 can be merged with phase 2 because only
  this goroutine writes the view; phase 3 only spawns.
* `handler`, `picked`, `answer` are a `Generate` call: `BeginGenerate` and
  `Registration` are separate steps, as the code takes `g.mu` and then `tracker.mu`;
  each has its outcomes as operators of their own (`PickWorker`, `Register` and the
  three refusals). `Receive` and
  `GiveUp` are the two cases of the select, `Unregister` the deferred call.
* `assigned`, `attempts`, `dispatched`, `tried`, `claimed`, `result` are the fields
  of `inflight`, one record per call: goroutines reach it by pointer, so it is
  indexed by the call and not by the request id, and it survives `unregister`.
* `att[c]` is every attempt launched for `c`, in order. An attempt's `pc` names its
  place between atomic steps: in the RPC, past the latch check (`retry`), holding
  the candidate snapshot (`snapped`), about to settle with an error, between the
  won CompareAndSwap and the channel send, done. `ReplaceAttempt` and `DropAttempt`
  are the two outcomes of `attemptFailed`'s critical section. `settle` is the latch
  and `SendResult` the send, which blocks on a full channel as Go's does.
* an RPC may return a response, a retryable or a terminal error at any time: the
  attempt's own timeout, a connection reset and a worker's error are cases of it.

`ErrorCodes` has the two retryable codes and one representative of the terminal
ones.

### GatewayProcess

* `phase` is how far goroutine 3 of `cmd/gateway` has come: before the cancellation
  ("up"), in `GracefulStop` ("draining"), past `Close` ("closed"). `GracefulStop`
  waits for the handlers (`Drained`). Its server refuses new streams, but a client
  learns so from a GOAWAY, and a stream that is opened before counts: so calls may
  begin until the drain is over (`Accepting`).
* `poller` is the `PollLoop` goroutine. A poll after the cancellation fails, as its
  ctx is cancelled, but one whose reply had come is still applied, and its reroute
  done, before the loop looks at ctx again: "last".
* `conns` is the cache, by worker. `ConnFor` is a step of its own, after which the
  attempt is in `dialled`: the RPC runs on the connection. `Close` puts the RPCs on
  the connections it closes into `cut`; they end in `Canceled`, which is terminal.
  An attempt that comes to `connFor` after `Close` dials again and caches a connection
  that nobody closes any more; its RPC runs as any other.
* `Down` is the end of `wg.Wait` and of `main`. Attempts are in no wait group: they
  vanish with the process, which is why every step asks for `~Down`.
* Only the worker's address identifies a connection in the code; that an address
  may be used again by another worker is left out.

### System

* `registered`, `asking`, `gone` are `Roster`'s variables. `polled` is a `ListWorkers`
  reply on its way: it is applied later than it was made.
* `process[w]` is the worker process; `computing` are the attempts in flight whose request its
  `Generate` has accepted. `Answer` is its reply; `Unreachable` is a refusal by a server
  that drains or a reset by the kernel, `Unavailable` both; `TimeOut` is
  `attemptTimeout`, which only strikes a request that met a frozen worker (`late`). The
  worker's handler ends with the RPC here. In the code that of a frozen worker sees
  `ctx.Done` only once it is resumed; until then it computes nothing, and afterwards its
  answer reaches nobody, so it is not counted among the `computing`.
* `Terminate` starts the worker's goroutines 2 and 3: from then on it may deregister
  (`CP!Leave`) and finish what it has accepted in either order, and `Exit` when the
  second is done, its `Deregister` acknowledged or given up.
* Faults: a worker in good health is evicted (`Misjudge`), frozen, terminated or
  killed, or the control plane is restarted with an empty registry. Each kind
  happens to a worker at most once and all of them at most `MaxFaults` times; the
  eviction of a worker that is *not* healthy, resumption and re-registration are
  free, and so is every delay.
* `steady[c]` is a history variable: the workers that have been running and in the
  gateway's view without interruption since the call picked its worker.
* Assumed: workers compute faster than `attemptTimeout` (30 s against 300 ms), the
  network between live processes is sound (so a worker has one `Register` under way at
  most, where `Roster` allows several), and a frozen worker is resumed before it
  is told to end. `Gateway` assumes none of this and covers what happens otherwise.

### ControlPlane and Membership

* `workers` is the registry's key set, `newer` the ids whose `LastSeen` is after the
  `lastApplied` of their detector entry (or that have none yet).
* `entries[w]` has the detector's state, the number of gaps in the window, the rank
  of phi among the thresholds at the last scan (`score`: 0 is at most `PhiSuspect`,
  1 is between, 2 is above `PhiDead`) and the number of scans since the last
  folded arrival. `phi(w)` is the *set* of ranks a scan may compute: 0 before two
  gaps are known; anything after a new arrival; never lower than before while the
  silence lasts; 2 after `MaxSilence` silent scans. This is what the formula
  guarantees for a fixed window, as the tail of a normal distribution falls with
  time, and it assumes nothing about intervals.
* `Scan` is phases 1 and 2 of `scanOnce`. Phase 2 touches only what the scanner
  owns, so its moment cannot be told from that of the snapshot. `Evict` and `Emit`
  are phase 3 for one death; between the snapshot and `Evict` any handler may run.
* `Drain`, `DrainReturns`, `RunReturns`, `StopSignal`, `GracefulStop`, `Exit` are the
  goroutines of `cmd/controlplane` and its wait group. Between the cancellation of ctx
  ("stopping") and `GracefulStop` ("closing") the server still accepts calls, and it
  handles those it has accepted until it exits.
* `pc[w]` is where a worker's loop is, the call it is in included. A caller may stop
  waiting (its context is cancelled, its connection breaks, `shutdownTimeout` passes,
  it is killed): the handler then runs later or never (`Orphan`). Every call has a handler
  of its own, so what is left behind is counted: `late[w][rpc]`. A worker whose
  re-registration broke can be told `NotFound` again and ask a second time while the
  first handler is pending, and the first registers it (the case occurs with one broken
  call, so within the bounds of every run of `Membership` but `cold`). Only the
  handler of the call a worker is in replies to it; the others run unheard. `late`
  needs no bound of its own: `MaxFaults` bounds the broken calls, and a signal and a kill
  leave one handler each.
* `Killed`, `Signal`, `CallFails`, `CrashControlPlane`, `Stop` and `Restart` are the
  environment.
* `Roster`'s `registered` is `workers`; a worker is `asking` while any `Register` of its
  own has not been handled, and `gone` when its `pc` is "left" or "ended". How many it
  has under way `Roster` does not say: one that is granted may leave others.

### SlidingWindow

`buf`, `head`, `n` as in the code, with the history `pushed`. The moments are kept
as integers: `total` is `n` times the mean and `variance` is n cubed times the
population variance, computed in two passes as the code does.

`overdue(t)` is the comparison of `phi` with a threshold after a silence of `t`. phi is
strictly increasing in z, the distance of `t` from the mean in standard deviations, until
the clamp `maxPhi`, so phi exceeds a threshold below the clamp exactly when z exceeds
some reach, the fraction `reach / scale`: 1.28 for a `PhiSuspect` of 1, 5.61 for a
`PhiDead` of 8, the values of `cmd/controlplane`. `spread` is the standard deviation with its floor, squared and scaled as the
variance is, so that the comparison is one of integers and exact. It fixes what
`ControlPlane` leaves open: there a scan may compute any rank that does not fall in a
silence and is the highest in the end, and `SilenceOnlyRaises` and `SilenceIsNoticed`
say that the formula is one of these.

## Runs

All bounds are the constants of the `.cfg`. Nothing else cuts the state space
except `MaxPushes` in `SlidingWindow` and `MaxFaults` in `Membership` and `System`, which are
guards of the actions they bound. `Gateway` needs no bound: the dispatch budget
makes it finite.

| Run | Instance | Shows |
| --- | --- | --- |
| `races` | 1 call, 3 workers, budget 3 (the code's) | every race of up to three attempts under every history of the view: `TypeOK`, `ExactlyOneWinner`, `AnswerIsTheWinners`, `GaugeCountsLiveAttempts`, `BudgetBoundsLaunches`, `WaiterIsServed`, `ExhaustionNeedsSilence`, `OnlyDepartureDuplicates`, and `ImplementsFirstWins` |
| `live` | process with 2 calls, one without an id, 2 workers, budget 2, fairness | `NoForwardCut`, `EveryCallReturns`, `AttemptsEnd`, `StopCompletes` |
| `system` | 2 calls under one id, 3 workers, budget 3, 1 fault | `OneFaultIsSurvived`, `OneFaultComputesTwice`, `TrackerHoldsOpenCalls` |
| `membership` | 2 workers, window 2, event capacity 1, 1 fault (a broken call, a crash or a stop) | `TypeOK`, `NoTombstone`, `StateFollowsScore`, `WarmUpIsNeverCondemned`, `ImplementsRoster` |
| `healing` | 1 worker, window 3, 2 faults, fairness | `SelfHealing`, `WarmSilenceIsEvicted`, `DeathsAreAnnounced` |
| `window` | ring of 3, samples {0,1,9}, 7 pushes; silences up to 40, floor 1, a reach of 5.61, that of `PhiDead` | `ValidPrefix`, `HoldsTheLatest`, `MomentsOfTheLatest`, `JitterIsTolerated`, `SilenceOnlyRaises` |
| `stranded`, `exhausted`, `duplicate`, `cold`, `ghost`, `stop` | as small as the counterexample allows | the disagreements listed below |

Why the bounds are enough. Calls interact only through the tracker's map, that is
through a shared id, and through the view, which is arbitrary anyway: one call
shows every race and two with one id every collision. Three workers and the real
budget of three allow a frozen worker, a failed one and a third, and a fast and a
slow replacement together. `live` has a budget of two because its liveness is costly;
the chain of attempts it follows is one retry or one reroute long, and a third
attempt repeats that step. Its safety part, `NoForwardCut`, is proved for every budget.
In `system` two calls share an id, so the collision of ids, whose stragglers may be
of either call, is met together with a fault; with one fault every property of
the run is at its limit: a second one breaks both of the first two (a retry or a
reroute may go back to a worker that has failed, and leave the steady one untried).
In `membership` a window of two is the smallest that distinguishes
warm-up from warm, and an event capacity of one is the smallest at which the
scanner can block; a scan with two deaths then fills it. Seven pushes wrap a ring
of three twice; the samples make windows whose deviation is below the floor, at zero
included, and above it, and the silences lie on both sides of every verdict.

Deadlock. The runs of `Gateway` and `System` check it, but a poll is always possible
there, so the check is weak and the liveness of `GatewayProcess` carries the weight.
That one does not check it, since the process ends. Membership's runs do not
either: the workers may all have ended while the control plane hangs in its
shutdown (`StopEnds` below), or be down to the fault bound. `SlidingWindow` stops at
`MaxPushes`.

## Fairness

`GatewayProcess`: weak fairness of the handlers, the attempts and `Close` taken together,
and of the poll loop's reroute and return, because the Go scheduler runs what is
runnable, Go's mutexes do not starve a waiter, and every RPC ends by
`attemptTimeout` at the latest. The steps taken together are finitely many in every
behaviour, so one condition on all of them asks less than one on each goroutine
would. No fairness of `AbandonCall`, of polls, of new calls or of the signal:
`EveryCallReturns` must not depend on an impatient client or on the view.

`System` states no fairness: its questions are of safety.

`Membership`: weak fairness of the scanner, the drain, the handlers, each worker's
loop, the main goroutine's way to `GracefulStop` and the restart of an ended control
plane. `RunReturns` has strong fairness:
Run's select chooses at random between `ctx.Done` and a ready tick, so it cannot
prefer the tick for ever. Nothing makes signals, kills or faults happen.
`SelfHealing` assumes that the worker's loop goes on and that the control plane does
not hang in its shutdown; it says that the worker is registered again and again,
not that it stays, since phi may condemn a slow worker at any time.

## Proofs

`tlapm` checks every proof in full. The assumptions are the named ones of the
modules: a positive budget, ids that are not the zero values, positive capacities, a
bound on faults that is a number; `OneFaultCostsNoAnswer` alone asks for more, a budget
of at least two. The sets of workers, calls and ids are arbitrary, infinite ones
included. Every invariant and every safety action property of the passing runs is
proved, and so are both refinements.

### The gateway

* `TypeCorrect`: `TypeOK` is inductive. Its load-bearing parts are that a picked call
  has a worker and a non-empty id, that an attempt about to settle or to send has
  a real outcome, and that `dispatched` stays within the budget.
* `BudgetHolds`: `dispatched` is the number of launches, so it inherits the bound.
  Inductive with `TypeOK`.
* `TrackerAgrees`: the map holds exactly the calls that wait or leave. Inductive with
  `TypeOK`; two calls with one id cannot both be tracked because the map is a
  function.
* `RacesHold`, and from it `OneWinner` and `AnswersAreWinners`: neither property is
  inductive alone. A winner must not appear without the latch, the latch not before a
  registration (or `Register` would forget a winner), and whatever is in the channel or
  has been answered must come from an attempt that has *finished* winning, or the send
  could find the channel full. `RaceOK(c)` is that strengthening, and the induction
  uses `TrackerAgrees` to know that a rerouted call has been registered.
* The steps are grouped by what they do to the list of attempts (`StepShapes`): one
  attempt replaced by another (`FailBecomes`, `DropBecomes` and their like say by which),
  one appended, several calls appended to, nothing. All that follows uses these
  lemmas.
* `GaugeIsRight`: the gauge is inductive with `TypeOK`, once the cardinality of the live
  attempts is known to move by one with each launch and each end (`LiveBecomes`,
  `LiveAppend`). `CountSteps` says what any step does to count and gauge of one
  call: they move together, or only the count moves and the latch is closed.
  `DuplicatesNeedDeparture` follows from the same case analysis.
* `ExhaustionIsSilent`: the way into settling with exhaustion is a drop that finds one
  on the gauge (`ExhaustionIsADrop`), and the dropped attempt is that one.
* `WaitersAreServed`: not inductive alone, since the last one in the air might leave.
  `ServiceOK` adds that an undecided call with attempts has one in the air *or* one
  settling, and that a waiting call has an attempt and has received nothing; that
  the gauge is right is what shows that a non-last drop leaves somebody behind.
* `AnsweredIsCounted`: an attempt that wins with an answer never takes itself off the gauge.
  A straggler that fails afterwards therefore never finds itself the last one.
* `GatewayImplementsFirstWins`: the stage of a call is its handler's and its decision is its
  winner's verdict, from the moment of the CompareAndSwap. `RaceOK` is the invariant
  needed: with it, what is received is what has been decided, and a second
  decision is impossible. Reroutes, retries and losers are stutters.
* `FirstWinsIsFinal` proves of the abstract specification, once, what it is good for: one
  decision per call, one reply per client, an id that is the call's own until it goes
  (`Promise`), and nothing taken back (`Settled`). Every specification that implements it
  inherits this; `SystemTellsOnce` says so of the whole.

### The processes and the whole

* `ProcessIsGateway`: whatever the process does, with its cache and its phases, is a
  step of `Gateway` or leaves its variables alone; so all of the above holds in it.
* `NoForwardIsCut`: once the phase is "closed" every handler is idle or returned, and
  stays so, because none can begin (`DrainedStays`); and `cut` is empty before. This
  is `ClosedIsDrained`, inductive with `TypeOK`, which `ProcessIsGateway` supplies.
* `SystemIsGateway` and `SystemKeepsRoster`: the same for the composition, towards both of
  its parts. The one invariant needed is that the registry, and so a reply on
  its way, holds workers only (`PollsWorkers`). `SystemTrackerAgrees`,
  `SystemImplementsFirstWins` and `ProcessImplementsFirstWins` are what they inherit first.

### Faults

`OneFaultProofs` proves what the whole makes of faults, for every fleet, every number of
calls, every sharing of ids, and every moment a fault can strike. The argument has
two layers.

* For any number of faults (`OnlyStruckAreBlamed`). `Struck` are the workers something has
  happened to. `HostsOK`: a worker leaves "up" by a fault only. `SteadyOK`: a steady
  worker runs and is in view. `RPCsOK`: what is computed is in its RPC, and what is
  late sat on a struck worker. `BlamedOK`: an attempt fails, and a worker is tried,
  only if the worker is struck and *not* steady for this call; the candidates an
  attempt holds include every steady worker, however stale; and an attempt that is
  over without its worker's fault has met a closed latch. `CallSteps` reduces all of
  the system to five things that can happen to one call.
  `OnlyTheBudgetGivesUp` is what this means to a client: with a steady worker, it hears of
  no error but an exhausted budget, and not before all of `maxAttempts` has been launched.
  The invariant is `Spent`, which says so of errors about to be settled as well; an attempt
  that holds a steady worker among its candidates can be refused a replacement by the
  budget only (`NoneToLaunch`), and after that nothing is launched.
* For one fault at most. `ViewOK`: unless the control plane has forgotten everyone, whoever
  is not struck is in every reply once it was in view, so that only the struck worker
  departs. `LaunchesOK`: hence a second attempt goes to a worker that is not struck,
  it is never rerouted again, only the first attempt can be replaced, and a third
  attempt is launched only when the first is over. `ForgottenOK`: a restart strikes nobody,
  so nothing is replaced, and the polls that miss the workers reroute each call at
  most once. `Unhurt`: a call with a steady worker never decides on an error.

`OneFaultDoublesAtMost` reads off `LaunchesOK` and `ForgottenOK` that two attempts at most are in
an RPC. `OneFaultCostsNoAnswer` needs `Unhurt`, whose critical step is a drop (`NeverTheLast`):
the dropped attempt was struck, so it is the first; the steady worker is among its
candidates and untried, so nothing but the budget can have refused it; so there is a
second attempt, on a worker that is not struck, and it is either in the air or has
met or closed the latch with an answer, in which case `AnsweredIsCounted` keeps the gauge
above the live attempts. In both cases the drop does not bring the gauge to zero.
With a budget of one this fails: TLC finds the drop of the only attempt.

### The control plane and the window

* `TypeCorrect` of `Membership`: inductive; the parts that carry weight are that a handler that runs
  was pending, as a worker's call or among those left behind (`HandledShape`, `OrphanShape`),
  and that a fold keeps the count within the window.
* `NoTombstoneIsKept`: the scanner's own entries are dropped in the step that condemns, and
  only a later scan can make new ones, which waits until phase 3 is done.
* `StateFollows`: inductive with the types. `WarmUpIsSafe`: phi of fewer than two gaps has rank
  0, so `Condemned` excludes it.
  This proof found that the case analysis by which `Scan` wrote its new entries
  overlapped (a worker of this scan may be both evicted and without an entry);
  the definition now says which applies first, as the code does.
* `MembershipImplementsRoster`: the refinement that justifies putting `Roster` in
  `System`. One lemma for each kind of step; the type of the loops and of the
  condemned (`LoopTyped`) is the invariant it needs. A handled `Register` is an `Enter`
  after which the worker may or may not be asking still, depending on how many of its
  handlers are pending; a call given up moves a request from the worker's call to
  those left behind, which `Roster` does not see, or loses it.
* `PrefixIsValid`: `head = n` until the window is full, so the valid samples are a
  prefix of the ring, for every capacity.
* `LatestAreHeld`: `head` is the number of pushes modulo the capacity, which with
  `PrefixIsValid` makes the contents inductive. The lemmas on `%` (`RingSuccessor`,
  `RingDistinct`) say that the slot a push overwrites is that of the one sample
  that stops being among the latest.

* `MomentsAreRight`: sums over finite sets are the community module's, which are
  defined by recursion over the set, choosing its elements in an order nobody knows. The
  induction is by a least counterexample among the subsets (`LeastSubset`, from
  `WFMin` and the well-foundedness of strict inclusion), since it needs no
  operator as a parameter: a table of partial sums exists and is determined
  (`TableExists`, `TablesAgree`), hence the sum unfolds (`SumUnfolds`), any element may be
  taken first (`SumRemove`), and sums are linear and congruent (`SumLinear`,
  `SumCongruence`). The invariant is `SumsAgree`: for *every* function of the samples, its sum
  over the ring is its sum over the latest pushes. A push to a full ring takes one term
  from both and adds one to both (`RingPush`, `LatestPush`); `RingRound` says it is the same
  term. Mean and variance are two instances, and `MomentsFromSums` expands the square.
* `JitterIsHarmless`: the mean is at least the shortest gap (`SumAtLeast`, by the same
  induction), and the floored deviation at least the floor (`SpreadIsFloored`).
  `SilenceNeverClears`: past the mean, the square of the distance grows. `SilenceTells`: it
  outgrows any deviation.

### Only model-checked

All liveness: `EveryCallReturns`, `AttemptsEnd`,
`StopCompletes`, `SelfHealing`, `WarmSilenceIsEvicted`, `DeathsAreAnnounced`; liveness under fairness is
outside the prover's reach. Nothing of `OnlyTheBudgetGivesUp` is a run of its own: with
one fault no budget above one is ever exhausted beside a steady worker, and an
instance in which it is, three workers, one call, a budget of two and two faults, has
4.3 million states. TLC confirmed `GivenUpOnBudgetOnly` there, and that the case occurs,
before it was proved. The refutations of the six violation runs are TLC's.

## Where the code and its comments disagree

Each is a run that TLC refutes; the trace is the argument.

1. `stranded`: "re-dispatches every in-flight request stranded on a departed
   worker" (`gateway.go:154`). A departure is an edge of the poll diff. A handler
   that picked a worker before the diff and registers after it, or a request whose
   diff found no healthy worker, is in no later diff. The attempt's own end still
   rescues it, after up to 30 s if the worker is frozen.
2. `exhausted`: "Nobody is left to answer. Only now may an error become the
   client's result" (`gateway.go:484`). A reroute between the unlock and `settle`
   puts somebody in the air, and the error wins.
3. `duplicate`: "Only a false positive puts two attempts on one request"
   (`README.md:24`), "A frozen worker is the ONLY thing that produces a duplicate"
   (`tracker_test.go:293`). A worker that is told to end deregisters while its server
   drains; the next poll diff reroutes the request it is still computing, and both
   attempts run.
4. `cold`: "failure detector will evict" (`cmd/worker/main.go:198`). Not a worker
   whose window has fewer than two gaps.
5. `ghost`: "Deregister asserts a final state" (`server.go:106`). A cancelled
   re-registration may be handled after it.
6. `stop`: Run "returns on ctx cancel" (`detector.go:214`), and the drain keeps the
   channel "from filling and stalling the scanner" (`cmd/controlplane/main.go:81`).
   The drain may return first; a scanner with more deaths to announce than the
   channel has free slots (64 in the code, one in the model) then blocks for good
   and so does `wg.Wait`. It takes a mass death just before a shutdown.

Others, without a run of their own; the actions named show how each comes about.

* "`kill -9` cannot produce a duplicate" (`README.md:77`): a failed attempt is still on
  its way to the tracker lock when the poll diff reroutes its request
  (`RerouteFrom` between `AttemptFails` and `ReplaceAttempt`), and the fast path then
  replaces it as well: two attempts after one death.
* "zero-loss rerouting" (`README.md:94`) is zero loss of one fault. Two faults can lose a
  request that a third, healthy worker could have served: reroutes and retries may
  choose a worker that has failed already or fails next, until the budget is spent.
  `OneFaultIsSurvived` with a two in the place of its one, and `MaxFaults = 2`, fails.
* "addresses are looked up from the live view at dispatch time" (`tracker.go:67`): a
  dispatch uses the `WorkerInfo` of the view its target was chosen from.
* "tried guards every attempt after it" (`gateway.go:432`): `RerouteFrom` never reads
  `tried`, so the slow path may send a request to a worker that has failed it.
* "instead of silently running two independent races under one id"
  (`tracker.go:189`): after `GiveUp` and `Unregister` the id is free while the
  attempts run on, and `Register` admits a retry beside them.
* "must not re-dispatch a request the client was answered for long ago"
  (`tracker_test.go:258`): the latch is read once (`AttemptFails`), before two locks;
  if it closes in that gap, `ReplaceAttempt` still launches.
* `settle` "returns true if this result is the one the client will see" and the
  attempts of a client that gave up "lose harmlessly" (`tracker.go:127`,
  `gateway.go:322`): after `GiveUp` the latch is open, so one of them wins, its result
  is never received, and failed ones go on being replaced.
* "the single buffer slot IS the claim token" (`tracker.go:114`) is contradicted by the
  paragraph above it, which is right: with the slot as the token `ExactlyOneWinner`
  falls.

## Not modelled

* `addr`, `capacity`, `load`: stored, displayed, never decided on. (That an address
  can be reused under another id does not matter: identity is the id.)
* The floating-point values of phi: TLC has no reals. The rank abstraction keeps the
  comparison with the thresholds and the monotonicity, and `SlidingWindow` the exact
  comparison, floor included, with rational arithmetic in the place of
  floating-point; rounding is left out, and underflow and the clamp, which lie above
  both thresholds.
* A crash of the gateway: it persists nothing and its clients see a broken call.
* Start-up: failures there end a process that has no state yet. A worker registers
  before it listens, so a first request may find nobody; to the gateway that is the
  `Unavailable` of `Gateway`'s RPC; `System` leaves it out.
* SIGTERM or `Deregister` of a frozen worker, and a network that separates live
  processes, in `System`; `Gateway` and `Membership` have them, each on its side.
* The demo client keeps no state across calls; `gen/` is `protoc` output, `proto/` its
  input; scripts and docs.
* TLC checks one gateway; several gateways share nothing but the control plane.

## Plan

Done: every component that keeps state is modelled: the gateway with its process
and its connections, the control plane with the workers' loops, the window with the
verdict over it, and the whole with its faults. Both abstract specifications are
stated, implemented and proved to be; what `FirstWins` promises is inherited by all that
implement it, and every safety property that a run finds to
hold is a theorem.

Left:

1. Survival of several faults. `OnlyTheBudgetGivesUp` holds for any number of them, so what
   remains is how many launches F faults can cost. The fast and the slow path
   may both act on each departure, and each of the two new attempts may land on the
   next worker to fail, so the number grows faster than F; with the code's
   budget of three, two faults can already lose a request. The statement to try is a
   bound on launches in the number of struck workers, with a budget above it.
2. Liveness stays with TLC as long as the prover has no rules for fairness.
3. A `System` with several gateways, should the code come to share state among them.

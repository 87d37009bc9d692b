---------------------------- MODULE ControlPlane ----------------------------
(***************************************************************************)
(* The control-plane process: the worker registry, the four RPC handlers   *)
(* over it, the phi-accrual detector's scanner with its event channel, and *)
(* the shutdown of cmd/controlplane.                                       *)
(*                                                                         *)
(* Time is abstracted to what the detector compares.  A registered worker  *)
(* is in `newer' when its LastSeen is after the lastApplied of its         *)
(* detector entry, and phi, a real number, to its rank among the two       *)
(* thresholds: 0 is at most PhiSuspect, 2 is above PhiDead.  For a fixed   *)
(* window phi never falls while a worker stays silent and passes every     *)
(* bound in the end, here after at most MaxSilence silent scans; after a   *)
(* new arrival it can be anything.                                         *)
(***************************************************************************)
EXTENDS Integers, Sequences, FiniteSets

CONSTANTS
  Workers,      \* worker ids
  WindowSize,   \* Config.WindowSize
  EventCap,     \* the capacity of Detector.events
  MaxSilence,   \* silent scans after which phi is above PhiDead
  NoWorker,     \* no event is being sent
  NoEntry       \* no detectorEntry for this id

ASSUME ControlPlaneAssumption ==
  /\ WindowSize \in Nat \ {0, 1}
  /\ EventCap \in Nat \ {0}
  /\ MaxSilence \in Nat \ {0}
  /\ NoWorker \notin Workers

VARIABLES
  cp,           \* "up", "stopping" (ctx cancelled), "closing" (and its server
                \* in GracefulStop, which accepts no call) or "down"
  workers,      \* WorkerRegistry.workers, as a set of ids
  newer,        \* ids with an arrival the detector has not folded yet
  entries,      \* Detector.entries
  deaths,       \* scanOnce's local slice, less what phase 3 has handled
  sending,      \* the id evicted and not yet sent on events
  events,       \* Detector.events
  scanner,      \* "on" or "off": has Run returned
  drain         \* "on" or "off": has the drain goroutine returned

registryVars == <<workers, newer>>
detectorVars == <<entries, deaths, sending, events, scanner, drain>>

Entry == [state : {"alive", "suspect", "dead"}, count : 0..WindowSize,
          score : 0..2, silent : 0..MaxSilence]

Newborn == [state |-> "alive", count |-> 0, score |-> 0, silent |-> 0]

Blank ==
  /\ workers = {}
  /\ newer   = {}
  /\ entries = [w \in Workers |-> NoEntry]
  /\ deaths  = {}
  /\ sending = NoWorker
  /\ events  = << >>
  /\ scanner = "on"
  /\ drain   = "on"

----------------------------------------------------------------------------
(* The registry's operations, one critical section each.                   *)

registryRegister(w) ==
  /\ workers' = workers \cup {w}
  /\ newer'   = newer \cup {w}

registryDeregister(w) ==
  /\ workers' = workers \ {w}
  /\ newer'   = newer \ {w}

\* mutant of registryHeartbeat: an unknown id is upserted
registryHeartbeatUpserts(w) ==
  /\ workers' = workers \cup {w}
  /\ newer'   = newer \cup {w}

registryHeartbeat(w) ==
  /\ newer'   = IF w \in workers THEN newer \cup {w} ELSE newer
  /\ UNCHANGED workers

----------------------------------------------------------------------------
(* The detector.                                                           *)

Ticking == scanner = "on" /\ deaths = {} /\ sending = NoWorker

\* mutant of Fold: n is not held at the capacity
FoldUncapped(w) ==
  IF w \in newer
  THEN [entries[w] EXCEPT !.count = @ + 1, !.silent = 0]
  ELSE [entries[w] EXCEPT !.silent = IF @ < MaxSilence THEN @ + 1 ELSE @]

\* step (1) of the loop: an arrival since the last look is pushed
Fold(w) ==
  IF w \in newer
  THEN [entries[w] EXCEPT !.count = IF @ < WindowSize THEN @ + 1 ELSE @, !.silent = 0]
  ELSE [entries[w] EXCEPT !.silent = IF @ < MaxSilence THEN @ + 1 ELSE @]

\* mutant of phi: no cold-start guard
phiWithoutColdStart(w) ==
  {r \in 0..2 : w \in newer \/ (r >= entries[w].score /\ (Fold(w).silent = MaxSilence => r = 2))}

\* step (2): the ranks the score of worker w can have at this scan
phi(w) ==
  IF Fold(w).count < 2
  THEN {0}
  ELSE {r \in 0..2 : w \in newer \/ (r >= entries[w].score /\ (Fold(w).silent = MaxSilence => r = 2))}

\* mutant of advance: a suspect never recovers
advanceOneWay(state, score) ==
  CASE score = 2                       -> "dead"
    [] state = "alive" /\ score = 1    -> "suspect"
    [] OTHER                           -> state

\* step (3): the state machine
advance(state, score) ==
  CASE score = 2                       -> "dead"
    [] state = "alive" /\ score = 1    -> "suspect"
    [] state = "suspect" /\ score = 0  -> "alive"
    [] OTHER                           -> state

Known == {w \in workers : entries[w] # NoEntry}

Scores == {s \in [Known -> 0..2] : \A w \in Known : s[w] \in phi(w)}

Condemned(s) == {w \in Known : advance(entries[w].state, s[w]) = "dead"}

\* mutant of Buried: a dead worker keeps its entry until it is reaped
NotBuried(s) == Workers \ workers

\* the entries phase 2 deletes: on entry into DEAD, and of unseen ids
Buried(s) == Condemned(s) \cup (Workers \ workers)

\* phases 1 and 2 of scanOnce.  Phase 2 reads and writes only what the scanner
\* owns, so nothing can tell its moment from that of the phase-1 snapshot.
Scan ==
  /\ cp # "down"
  /\ Ticking
  /\ \E s \in Scores :
       /\ deaths'  = Condemned(s)
       /\ entries' = [w \in Workers |->
            IF w \in Buried(s) THEN NoEntry
            ELSE IF entries[w] = NoEntry THEN Newborn
            ELSE [Fold(w) EXCEPT !.state = advance(@, s[w]), !.score = s[w]]]
  /\ newer' = {}
  /\ UNCHANGED <<cp, workers, sending, events, scanner, drain>>

\* mutant of Evict: the eviction is left to the consumer of the event
EvictByEvent ==
  /\ cp # "down"
  /\ sending = NoWorker
  /\ \E w \in deaths : deaths' = deaths \ {w} /\ sending' = w
  /\ UNCHANGED <<cp, registryVars, entries, events, scanner, drain>>

\* phase 3, for one death: the eviction, then the send
Evict ==
  /\ cp # "down"
  /\ sending = NoWorker
  /\ \E w \in deaths :
       /\ registryDeregister(w)
       /\ deaths'  = deaths \ {w}
       /\ sending' = w
  /\ UNCHANGED <<cp, entries, events, scanner, drain>>

Emit ==
  /\ cp # "down"
  /\ sending # NoWorker
  /\ Len(events) < EventCap
  /\ events'  = Append(events, sending)
  /\ sending' = NoWorker
  /\ UNCHANGED <<cp, registryVars, entries, deaths, scanner, drain>>

----------------------------------------------------------------------------
(* The goroutines of cmd/controlplane.                                     *)

\* mutant of Drain: no loop around the select
DrainOnce ==
  /\ cp # "down"
  /\ drain = "on"
  /\ events # << >>
  /\ events' = Tail(events)
  /\ drain' = "off"
  /\ UNCHANGED <<cp, registryVars, entries, deaths, sending, scanner>>

Drain ==
  /\ cp # "down"
  /\ drain = "on"
  /\ events # << >>
  /\ events' = Tail(events)
  /\ UNCHANGED <<cp, registryVars, entries, deaths, sending, scanner, drain>>

Stopping == cp \in {"stopping", "closing"}

StopSignal ==
  /\ cp = "up"
  /\ cp' = "stopping"
  /\ UNCHANGED <<registryVars, detectorVars>>

GracefulStop ==
  /\ cp = "stopping"
  /\ cp' = "closing"
  /\ UNCHANGED <<registryVars, detectorVars>>

DrainReturns ==
  /\ Stopping
  /\ drain = "on"
  /\ drain' = "off"
  /\ UNCHANGED <<cp, registryVars, entries, deaths, sending, events, scanner>>

RunReturns ==
  /\ Stopping
  /\ Ticking
  /\ scanner' = "off"
  /\ UNCHANGED <<cp, registryVars, entries, deaths, sending, events, drain>>

\* the process ends; all of its state is in memory
Forget ==
  /\ cp' = "down"
  /\ workers' = {}
  /\ newer'   = {}
  /\ entries' = [w \in Workers |-> NoEntry]
  /\ deaths'  = {}
  /\ sending' = NoWorker
  /\ events'  = << >>
  /\ scanner' = "on"
  /\ drain'   = "on"

ControlPlaneTypeOK ==
  /\ cp \in {"up", "stopping", "closing", "down"}
  /\ workers \subseteq Workers
  /\ newer \subseteq workers
  /\ entries \in [Workers -> Entry \cup {NoEntry}]
  /\ deaths \subseteq Workers
  /\ sending \in Workers \cup {NoWorker}
  /\ events \in Seq(Workers) /\ Len(events) <= EventCap
  /\ scanner \in {"on", "off"}
  /\ drain \in {"on", "off"}

=============================================================================

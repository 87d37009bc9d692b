-------------------------- MODULE MembershipProofs --------------------------
(***************************************************************************)
(* Theorems of Membership, for every set of workers, window, event         *)
(* capacity and number of faults.                                          *)
(***************************************************************************)
EXTENDS MembershipRefinement, TLAPS

----------------------------------------------------------------------------
(* Typing.                                                                 *)

(* What a scan makes of an entry is an entry: the count is held at the     *)
(* window's size and the silence at its bound.                             *)
LEMMA FoldTyped ==
  ASSUME NEW w \in Workers, entries[w] \in Entry, NEW score \in 0..2
  PROVE  /\ Fold(w) \in Entry
         /\ Fold(w).state = entries[w].state
         /\ advance(Fold(w).state, score) \in {"alive", "suspect", "dead"}
         /\ [Fold(w) EXCEPT !.state = advance(@, score), !.score = score] \in Entry
<1>1. Fold(w) \in Entry /\ Fold(w).state = entries[w].state
  <2>1. /\ entries[w].count \in 0..WindowSize /\ entries[w].silent \in 0..MaxSilence
        /\ 0 \in 0..MaxSilence
    BY ControlPlaneAssumption DEF Entry
  <2> DEFINE more   == IF entries[w].count < WindowSize THEN entries[w].count + 1 ELSE entries[w].count
             longer == IF entries[w].silent < MaxSilence THEN entries[w].silent + 1 ELSE entries[w].silent
  <2>2. more \in 0..WindowSize /\ longer \in 0..MaxSilence
    BY <2>1, ControlPlaneAssumption
  <2>3. \/ Fold(w) = [entries[w] EXCEPT !.count = more, !.silent = 0]
        \/ Fold(w) = [entries[w] EXCEPT !.silent = longer]
    BY DEF Fold
  <2> HIDE DEF more, longer
  <2> QED
    BY <2>1, <2>2, <2>3 DEF Entry
<1>2. advance(Fold(w).state, score) \in {"alive", "suspect", "dead"}
  BY <1>1 DEF advance, Entry
<1>3. ASSUME NEW f \in Entry, NEW st \in {"alive", "suspect", "dead"}
      PROVE  [f EXCEPT !.state = st, !.score = score] \in Entry
  BY DEF Entry
<1> QED
  BY <1>1, <1>2, <1>3

(* A scan sets every entry to nothing, to a newborn or to a folded entry   *)
(* of a registered worker.                                                 *)
LEMMA ScanEntries ==
  ASSUME ControlPlaneTypeOK, NEW s \in Scores, NEW w \in Workers,
         entries' = [v \in Workers |->
            IF v \in Buried(s) THEN NoEntry
            ELSE IF entries[v] = NoEntry THEN Newborn
            ELSE [Fold(v) EXCEPT !.state = advance(@, s[v]), !.score = s[v]]]
  PROVE  \/ entries'[w] = NoEntry
         \/ entries'[w] = Newborn
         \/ /\ w \in Known /\ w \notin Condemned(s) /\ s[w] \in 0..2 /\ entries[w] \in Entry
            /\ entries'[w] = [Fold(w) EXCEPT !.state = advance(@, s[w]), !.score = s[w]]
<1>1. CASE w \in Buried(s)
  BY <1>1
<1>2. CASE w \notin Buried(s) /\ entries[w] # NoEntry
  <2>1. w \in Known /\ w \notin Condemned(s)
    BY <1>2 DEF Buried, Known
  <2>2. s[w] \in 0..2 /\ entries[w] \in Entry
    BY <1>2, <2>1 DEF Scores, ControlPlaneTypeOK
  <2> QED
    BY <1>2, <2>1, <2>2
<1>3. CASE w \notin Buried(s) /\ entries[w] = NoEntry
  BY <1>3
<1> QED
  BY <1>1, <1>2, <1>3

(* A scan leaves entries and deaths well typed.                            *)
LEMMA ScanTyped ==
  ASSUME ControlPlaneTypeOK, Scan
  PROVE  ControlPlaneTypeOK'
<1> USE ControlPlaneAssumption
<1>1. PICK s \in Scores :
        /\ deaths' = Condemned(s)
        /\ entries' = [w \in Workers |->
             IF w \in Buried(s) THEN NoEntry
             ELSE IF entries[w] = NoEntry THEN Newborn
             ELSE [Fold(w) EXCEPT !.state = advance(@, s[w]), !.score = s[w]]]
  BY DEF Scan
<1>2. newer' = {} /\ UNCHANGED <<cp, workers, sending, events, scanner, drain>>
  BY DEF Scan
<1>3. deaths' \subseteq Workers
  BY <1>1 DEF Condemned, Known, ControlPlaneTypeOK
<1>4. ASSUME NEW w \in Workers
      PROVE  entries'[w] \in Entry \cup {NoEntry}
  <2>1. Newborn \in Entry
    BY DEF Newborn, Entry
  <2> QED
    BY <1>1, <2>1, ScanEntries, FoldTyped
<1>5. entries' \in [Workers -> Entry \cup {NoEntry}]
  BY <1>1, <1>4
<1> QED
  BY <1>2, <1>3, <1>5 DEF ControlPlaneTypeOK

(* The other steps of the control plane.                                   *)
LEMMA ControlPlaneTyped ==
  ASSUME ControlPlaneTypeOK,
         Evict \/ Emit \/ Drain \/ DrainReturns \/ RunReturns \/ StopSignal
           \/ GracefulStop \/ Forget
  PROVE  ControlPlaneTypeOK'
<1> USE ControlPlaneAssumption DEF registryVars, detectorVars, ControlPlaneTypeOK
<1>1. CASE Evict
  BY <1>1 DEF Evict, registryDeregister
<1>2. CASE Emit
  BY <1>2 DEF Emit
<1>3. CASE Drain
  BY <1>3 DEF Drain
<1>4. CASE DrainReturns \/ RunReturns \/ StopSignal \/ GracefulStop
  BY <1>4 DEF DrainReturns, RunReturns, StopSignal, GracefulStop
<1>5. CASE Forget
  BY <1>5 DEF Forget
<1> QED
  BY <1>1, <1>2, <1>3, <1>4, <1>5

(* A worker that stops waiting leaves at most one handler more behind, and *)
(* it is that of the call it was in.                                       *)
LEMMA OrphanShape ==
  ASSUME NEW w \in Workers, pc[w] \in PCs, late \in [Workers -> [RPCs -> Nat]], Orphan(w)
  PROVE  /\ late' \in [Workers -> [RPCs -> Nat]]
         /\ \/ late' = late
            \/ /\ Request(pc[w]) = "Register" => pc[w] \in {"registering", "reregistering"}
               /\ \A v \in Workers, rpc \in RPCs :
                    late'[v][rpc] = IF v = w /\ rpc = Request(pc[w])
                                    THEN late[v][rpc] + 1 ELSE late[v][rpc]
<1>1. CASE UNCHANGED late
  BY <1>1
<1>2. CASE pc[w] \in InCall /\ late' = [late EXCEPT ![w][Request(pc[w])] = @ + 1]
  <2>1. Request(pc[w]) \in RPCs
    BY DEF Request, RPCs
  <2>2. Request(pc[w]) = "Register" => pc[w] \in {"registering", "reregistering"}
    BY <1>2 DEF Request, InCall
  <2> DEFINE r == Request(pc[w])
  <2> HIDE DEF r
  <2>3. late' = [late EXCEPT ![w] = [late[w] EXCEPT ![r] = @ + 1]]
    BY <1>2 DEF r
  <2>4. late[w] \in [RPCs -> Nat] /\ r \in RPCs
    BY <2>1 DEF r
  <2>5. [late[w] EXCEPT ![r] = @ + 1] \in [RPCs -> Nat]
    BY <2>4
  <2> QED
    BY <2>2, <2>3, <2>4, <2>5 DEF r
<1> QED
  BY <1>1, <1>2 DEF Orphan

(* A handler that runs is that of the call its worker is in, which gets    *)
(* the reply, or one of those left behind, and then the worker does not    *)
(* notice.                                                                 *)
LEMMA HandledShape ==
  ASSUME NEW w \in Workers, NEW rpc \in RPCs, NEW to \in PCs,
         pc \in [Workers -> PCs], late \in [Workers -> [RPCs -> Nat]], Handled(w, rpc, to)
  PROVE  /\ late' \in [Workers -> [RPCs -> Nat]]
         /\ pc' \in [Workers -> PCs]
         /\ \/ /\ late' = late
               /\ pc[w] \in InCall /\ Request(pc[w]) = rpc
               /\ pc' = [pc EXCEPT ![w] = to]
            \/ /\ pc' = pc
               /\ late[w][rpc] > 0
               /\ \A v \in Workers, other \in RPCs :
                    late'[v][other] = IF v = w /\ other = rpc
                                      THEN late[v][other] - 1 ELSE late[v][other]
<1>1. CASE pc[w] \in InCall /\ Request(pc[w]) = rpc /\ pc' = [pc EXCEPT ![w] = to] /\ UNCHANGED late
  BY <1>1
<1>2. CASE /\ late[w][rpc] > 0 /\ UNCHANGED pc
           /\ late' = [late EXCEPT ![w][rpc] = @ - 1]
  <2>1. late[w] \in [RPCs -> Nat]
    OBVIOUS
  <2>2. late' = [late EXCEPT ![w] = [late[w] EXCEPT ![rpc] = @ - 1]]
    BY <1>2
  <2>3. [late[w] EXCEPT ![rpc] = @ - 1] \in [RPCs -> Nat]
    BY <1>2, <2>1
  <2> QED
    BY <1>2, <2>1, <2>2, <2>3
<1> QED
  BY <1>1, <1>2 DEF Handled

(* Every step keeps the variables' types: the workers' RPCs and the state  *)
(* of the control plane they meet.                                         *)
LEMMA TypeOKStep == TypeOK /\ [Next]_vars => TypeOK'
<1> SUFFICES ASSUME TypeOK, [Next]_vars
             PROVE  TypeOK'
  OBVIOUS
<1> USE MembershipAssumption
<1>0. /\ ControlPlaneTypeOK
      /\ pc \in [Workers -> PCs]
      /\ signalled \subseteq Workers
      /\ late \in [Workers -> [RPCs -> Nat]]
      /\ faults \in 0..MaxFaults
  BY DEF TypeOK
<1>1. CASE Exit \/ CrashControlPlane
  <2>1. ControlPlaneTypeOK'
    BY <1>0, <1>1, ControlPlaneTyped DEF Exit, CrashControlPlane
  <2>2. /\ pc' \in [Workers -> PCs] /\ late' \in [Workers -> [RPCs -> Nat]]
        /\ signalled' = signalled
    BY <1>0, <1>1 DEF Exit, CrashControlPlane, HangUp, workerVars, NoneLate, PCs, AfterError
  <2>3. faults' \in 0..MaxFaults
    BY <1>0, <1>1 DEF Exit, CrashControlPlane
  <2> QED
    BY <1>0, <2>1, <2>2, <2>3 DEF TypeOK
<1>2. ASSUME NEW w \in Workers, ServerStep(w)
      PROVE  TypeOK'
  <2>1. UNCHANGED <<cp, detectorVars, signalled, faults>>
    BY <1>2 DEF ServerStep, Register, Heartbeat, Deregister, Handled
  <2>2. pc' \in [Workers -> PCs] /\ late' \in [Workers -> [RPCs -> Nat]]
    <3>1. PICK rpc \in RPCs, to \in PCs : Handled(w, rpc, to)
      BY <1>2 DEF ServerStep, Register, Heartbeat, Deregister, RPCs, PCs
    <3> QED
      BY <1>0, <3>1, HandledShape
  <2>3. workers' \subseteq Workers /\ newer' \subseteq workers'
    BY <1>0, <1>2 DEF ServerStep, Register, Heartbeat, Deregister, registryRegister,
                      registryHeartbeat, registryDeregister, ControlPlaneTypeOK
  <2>4. ControlPlaneTypeOK'
    BY <1>0, <2>1, <2>3 DEF ControlPlaneTypeOK, detectorVars
  <2> QED
    BY <1>0, <2>1, <2>2, <2>4 DEF TypeOK
<1>3. ASSUME NEW w \in Workers, WorkerStep(w) \/ EnvironmentStep(w)
      PROVE  TypeOK'
  <2> USE DEF WorkerStep, EnvironmentStep
  <2>1. UNCHANGED <<cp, registryVars, detectorVars>>
    BY <1>3 DEF Start, Beat, Reregister, Leave, Cancelled, Send, Signal, CallFails, Killed
  <2>2. signalled' \subseteq Workers /\ faults' \in 0..MaxFaults
    BY <1>0, <1>3 DEF Start, Beat, Reregister, Leave, Cancelled, Send, Signal, CallFails, Killed
  <2>3. pc' \in [Workers -> PCs]
    BY <1>0, <1>3 DEF Start, Beat, Reregister, Leave, Cancelled, Send, Signal, CallFails, Killed,
                      AfterError, PCs
  <2>4. late' \in [Workers -> [RPCs -> Nat]]
    <3>1. CASE Start(w) \/ Beat(w) \/ Reregister(w) \/ Leave(w) \/ Signal(w)
      BY <1>0, <3>1 DEF Start, Beat, Reregister, Leave, Signal, Send
    <3>2. CASE Orphan(w)
      BY <1>0, <3>2, OrphanShape
    <3> QED
      BY <1>3, <3>1, <3>2 DEF Cancelled, CallFails, Killed
  <2>5. ControlPlaneTypeOK'
    BY <1>0, <2>1 DEF ControlPlaneTypeOK, registryVars, detectorVars
  <2> QED
    BY <2>2, <2>3, <2>4, <2>5 DEF TypeOK
<1>4. CASE DetectorStep \/ MainStep \/ Stop
  <2>1. ControlPlaneTypeOK'
    BY <1>0, <1>4, ScanTyped, ControlPlaneTyped DEF DetectorStep, MainStep, Stop
  <2>2. UNCHANGED workerVars /\ faults' \in 0..MaxFaults
    BY <1>0, <1>4 DEF DetectorStep, MainStep, Stop
  <2> QED
    BY <1>0, <2>1, <2>2 DEF TypeOK, workerVars
<1>5. CASE Restart \/ UNCHANGED vars
  <2>1. UNCHANGED <<registryVars, detectorVars, workerVars, faults>> /\ cp' \in {cp, "up"}
    BY <1>5 DEF Restart, vars
  <2>2. ControlPlaneTypeOK'
    BY <1>0, <2>1 DEF ControlPlaneTypeOK, registryVars, detectorVars
  <2> QED
    BY <1>0, <2>1, <2>2 DEF TypeOK, workerVars
<1> QED
  BY <1>1, <1>2, <1>3, <1>4, <1>5 DEF Next

(* TypeOK, for every instance: in particular no window outgrows its size,  *)
(* no arrival is kept of a worker that is not registered, and the event    *)
(* channel never holds more than its capacity.                             *)
THEOREM TypeCorrect == Spec => []TypeOK
<1>1. Init => TypeOK
  BY ControlPlaneAssumption, MembershipAssumption
     DEF Init, Blank, TypeOK, ControlPlaneTypeOK, NoneLate, PCs
<1> QED
  BY <1>1, TypeOKStep, PTL DEF Spec

----------------------------------------------------------------------------
(* The detector.                                                           *)

(* What a step does to the entries and to phase 3: a scan, one eviction,   *)
(* the end of the process, or nothing but an announcement.                 *)
LEMMA DetectorSteps ==
  ASSUME [Next]_vars
  PROVE  \/ Scan \/ Evict \/ Forget
         \/ UNCHANGED <<entries, deaths>> /\ sending' \in {sending, NoWorker}
<1> USE DEF registryVars, detectorVars
<1>1. CASE DetectorStep \/ MainStep \/ Stop
  BY <1>1 DEF DetectorStep, MainStep, Stop, Emit, Drain, DrainReturns, RunReturns, StopSignal,
              GracefulStop
<1>2. CASE Exit \/ CrashControlPlane
  BY <1>2 DEF Exit, CrashControlPlane
<1>3. ASSUME NEW w \in Workers, ServerStep(w)
      PROVE  UNCHANGED detectorVars
  BY <1>3 DEF ServerStep, Register, Heartbeat, Deregister, Handled
<1>4. ASSUME NEW w \in Workers, WorkerStep(w) \/ EnvironmentStep(w)
      PROVE  UNCHANGED detectorVars
  BY <1>4 DEF WorkerStep, Start, Beat, Reregister, Leave, Cancelled, Send, EnvironmentStep, Signal,
              CallFails, Killed
<1>5. CASE Restart \/ UNCHANGED vars
  BY <1>5 DEF Restart, vars
<1> QED
  BY <1>1, <1>2, <1>3, <1>4, <1>5 DEF Next

(* The same for a scan: it runs with no death pending, condemns registered *)
(* workers it knows, and buries each of them.                              *)
LEMMA ScanSteps ==
  ASSUME TypeOK, Scan
  PROVE  /\ deaths = {} /\ sending = NoWorker /\ sending' = NoWorker
         /\ \E s \in Scores :
              /\ deaths' = Condemned(s)
              /\ \A w \in Workers :
                   \/ entries'[w] = NoEntry
                   \/ entries'[w] = Newborn
                   \/ /\ w \in Known /\ w \notin Condemned(s)
                      /\ s[w] \in 0..2 /\ entries[w] \in Entry
                      /\ entries'[w] = [Fold(w) EXCEPT !.state = advance(@, s[w]), !.score = s[w]]
              /\ \A w \in Condemned(s) : entries'[w] = NoEntry
<1>0. ControlPlaneTypeOK
  BY DEF TypeOK
<1>1. PICK s \in Scores :
        /\ deaths' = Condemned(s)
        /\ entries' = [w \in Workers |->
             IF w \in Buried(s) THEN NoEntry
             ELSE IF entries[w] = NoEntry THEN Newborn
             ELSE [Fold(w) EXCEPT !.state = advance(@, s[w]), !.score = s[w]]]
  BY DEF Scan
<1>2. \A w \in Condemned(s) : w \in Workers /\ w \in Buried(s)
  BY <1>0 DEF Condemned, Known, Buried, ControlPlaneTypeOK
<1>3. \A w \in Condemned(s) : entries'[w] = NoEntry
  BY <1>1, <1>2
<1>4. deaths = {} /\ sending = NoWorker /\ sending' = NoWorker
  BY DEF Scan, Ticking
<1> QED
  BY <1>0, <1>1, <1>3, <1>4, ScanEntries

(* Every step keeps the condemned without an entry.                        *)
LEMMA NoTombstoneStep == TypeOK /\ NoTombstone /\ [Next]_vars => NoTombstone'
<1> SUFFICES ASSUME TypeOK, NoTombstone, [Next]_vars
             PROVE  NoTombstone'
  OBVIOUS
<1>1. CASE Scan
  BY <1>1, ScanSteps DEF NoTombstone
<1>2. CASE Evict
  BY <1>2 DEF Evict, NoTombstone
<1>3. CASE Forget
  BY <1>3 DEF Forget, NoTombstone
<1>4. CASE UNCHANGED <<entries, deaths>> /\ sending' \in {sending, NoWorker}
  BY <1>4 DEF NoTombstone
<1> QED
  BY <1>1, <1>2, <1>3, <1>4, DetectorSteps

(* Phase 2 deletes what it condemns before phase 3 touches the registry,   *)
(* so that nobody is announced dead while the detector still scores them.  *)
THEOREM NoTombstoneIsKept == Spec => []NoTombstone
<1>1. Init => NoTombstone
  BY DEF Init, Blank, NoTombstone
<1> QED
  BY <1>1, TypeCorrect, NoTombstoneStep, PTL DEF Spec

(* Every step keeps the states in line with the scores.  The entries that  *)
(* advance calls dead are gone with the same scan, so that a state is      *)
(* never dead and the next one depends on the new score alone.             *)
LEMMA StateStep == TypeOK /\ StateFollowsScore /\ [Next]_vars => StateFollowsScore'
<1> SUFFICES ASSUME TypeOK, StateFollowsScore, [Next]_vars
             PROVE  StateFollowsScore'
  OBVIOUS
<1>1. CASE Scan
  <2>1. PICK s \in Scores :
          \A w \in Workers :
            \/ entries'[w] = NoEntry
            \/ entries'[w] = Newborn
            \/ /\ w \in Known /\ w \notin Condemned(s)
               /\ s[w] \in 0..2 /\ entries[w] \in Entry
               /\ entries'[w] = [Fold(w) EXCEPT !.state = advance(@, s[w]), !.score = s[w]]
    BY <1>1, ScanSteps
  <2>2. SUFFICES ASSUME NEW w \in Workers, entries'[w] # NoEntry
                 PROVE  entries'[w].state = IF entries'[w].score = 1 THEN "suspect" ELSE "alive"
    BY DEF StateFollowsScore
  <2>3. CASE entries'[w] = Newborn
    BY <2>3 DEF Newborn
  <2>4. CASE entries'[w] # Newborn
    <3>1. /\ w \in Known /\ w \notin Condemned(s)
          /\ s[w] \in 0..2 /\ entries[w] \in Entry
          /\ entries'[w] = [Fold(w) EXCEPT !.state = advance(@, s[w]), !.score = s[w]]
      BY <2>1, <2>2, <2>4
    <3>2. Fold(w) \in Entry /\ Fold(w).state = entries[w].state
      BY <3>1, FoldTyped
    <3>3. entries'[w].state = advance(entries[w].state, s[w]) /\ entries'[w].score = s[w]
      BY <3>1, <3>2 DEF Entry
    <3>4. entries[w].state \in {"alive", "suspect"}
      BY <3>1 DEF StateFollowsScore, Known
    <3>5. advance(entries[w].state, s[w]) # "dead"
      BY <3>1 DEF Condemned
    <3> QED
      BY <3>1, <3>3, <3>4, <3>5 DEF advance
  <2> QED
    BY <2>3, <2>4
<1>2. CASE Evict
  BY <1>2 DEF Evict, StateFollowsScore
<1>3. CASE Forget
  BY <1>3 DEF Forget, StateFollowsScore
<1>4. CASE UNCHANGED entries
  BY <1>4 DEF StateFollowsScore
<1> QED
  BY <1>1, <1>2, <1>3, <1>4, DetectorSteps

(* The detector's "revival is derived from the data flow": a worker is     *)
(* SUSPECT exactly while its last score was between the thresholds.        *)
THEOREM StateFollows == Spec => []StateFollowsScore
<1>1. Init => StateFollowsScore
  BY DEF Init, Blank, StateFollowsScore
<1> QED
  BY <1>1, TypeCorrect, StateStep, PTL DEF Spec

(* Only a scan condemns, only on the highest score, and the cold-start     *)
(* guard of phi gives that to nobody with fewer than two gaps folded.      *)
LEMMA CondemnedAreWarm ==
  ASSUME TypeOK, StateFollowsScore, [Next]_vars, NEW w \in deaths', w \notin deaths
  PROVE  entries[w] # NoEntry /\ entries[w].count + (IF w \in newer THEN 1 ELSE 0) >= 2
<1>1. Scan
  BY DetectorSteps DEF Evict, Forget
<1>2. PICK s \in Scores : w \in Condemned(s)
  BY <1>1, ScanSteps
<1>3. w \in Known /\ w \in Workers /\ advance(entries[w].state, s[w]) = "dead"
  BY <1>2 DEF Condemned, Known, TypeOK, ControlPlaneTypeOK
<1>4. entries[w] # NoEntry /\ entries[w] \in Entry
  BY <1>3 DEF Known, TypeOK, ControlPlaneTypeOK
<1>5. entries[w].state # "dead"
  BY <1>3, <1>4 DEF StateFollowsScore
<1>6. s[w] = 2
  BY <1>3, <1>5 DEF advance
<1>7. s[w] \in phi(w)
  BY <1>3 DEF Scores
<1>8. ~(Fold(w).count < 2)
  BY <1>6, <1>7 DEF phi
<1>9. entries[w].count \in 0..WindowSize /\ Fold(w) \in Entry
  BY <1>3, <1>4, FoldTyped DEF Entry
<1>10. Fold(w).count = IF w \in newer /\ entries[w].count < WindowSize
                       THEN entries[w].count + 1 ELSE entries[w].count
  BY <1>4 DEF Fold, Entry
<1> QED
  BY <1>4, <1>8, <1>9, <1>10, ControlPlaneAssumption

(* A worker in warm-up is never condemned, whatever was evicted, restarted *)
(* or lost before.                                                         *)
THEOREM WarmUpIsSafe == Spec => WarmUpIsNeverCondemned
<1>1. TypeOK /\ StateFollowsScore /\ [Next]_vars =>
        [\A w \in deaths' \ deaths :
           entries[w] # NoEntry /\ entries[w].count + (IF w \in newer THEN 1 ELSE 0) >= 2]_vars
  BY CondemnedAreWarm
<1> QED
  BY <1>1, TypeCorrect, StateFollows, PTL DEF Spec, WarmUpIsNeverCondemned

----------------------------------------------------------------------------
(* The refinement, one lemma for each kind of step.                        *)

(* What the refinement needs of the types: every worker is somewhere in    *)
(* its loop with so many of its handlers left behind, and nobody else is   *)
(* registered or condemned.                                                *)
LoopTyped ==
  /\ workers \subseteq Workers
  /\ deaths \subseteq Workers
  /\ pc \in [Workers -> PCs]
  /\ late \in [Workers -> [RPCs -> Nat]]

(* It is part of the type invariant.                                       *)
LEMMA TypedLoop == TypeOK => LoopTyped
  BY DEF TypeOK, ControlPlaneTypeOK, LoopTyped

rosterState == <<workers, askingOf, goneOf>>

(* The scanner takes workers out and does nothing else to the roster; the  *)
(* goroutines of main do nothing to it at all.                             *)
LEMMA ControlPlaneRefines ==
  ASSUME LoopTyped, DetectorStep \/ MainStep \/ Stop \/ Restart
  PROVE  [R!Next]_rosterState
<1>1. UNCHANGED <<askingOf, goneOf>>
  BY DEF DetectorStep, MainStep, Stop, Restart, workerVars, askingOf, goneOf
<1>2. CASE UNCHANGED workers
  BY <1>1, <1>2 DEF rosterState
<1>3. CASE Evict
  <2>1. PICK w \in deaths : workers' = workers \ {w}
    BY <1>3 DEF Evict, registryDeregister
  <2>2. w \in Workers
    BY <2>1 DEF LoopTyped
  <2>3. R!Drop(w)
    BY <1>1, <2>1 DEF R!Drop
  <2> QED
    BY <2>2, <2>3 DEF R!Next
<1> QED
  BY <1>2, <1>3 DEF DetectorStep, MainStep, Stop, Restart, Scan, Emit, Drain, DrainReturns,
                    RunReturns, StopSignal, GracefulStop, registryVars

(* A control plane that ends forgets everyone, and takes the workers with  *)
(* it that give up on a broken call.                                       *)
LEMMA EndRefines ==
  ASSUME LoopTyped, Exit \/ CrashControlPlane
  PROVE  R!Wipe
<1>1. workers' = {}
  BY DEF Exit, CrashControlPlane, Forget
<1>2. askingOf' = {}
  <2>1. CASE Exit
    BY <2>1 DEF Exit, workerVars, NoneLate, RPCs, askingOf, InCall
  <2>2. CASE CrashControlPlane
    BY <2>2 DEF CrashControlPlane, HangUp, NoneLate, RPCs, askingOf, InCall, AfterError
  <2> QED
    BY <2>1, <2>2
<1>3. goneOf \subseteq goneOf'
  BY DEF Exit, CrashControlPlane, HangUp, workerVars, goneOf, LoopTyped, InCall
<1>4. goneOf' = goneOf \cup (goneOf' \ goneOf) /\ goneOf' \ goneOf \in SUBSET Workers
  BY <1>3 DEF goneOf
<1> QED
  BY <1>1, <1>2, <1>4 DEF R!Wipe

(* Only the handler of a Register lets a worker in, and it uses it up;     *)
(* others of the same worker may be under way still.                       *)
LEMMA ServerRefines ==
  ASSUME LoopTyped, NEW w \in Workers, ServerStep(w)
  PROVE  [R!Next]_rosterState
<1>0. /\ pc \in [Workers -> PCs] /\ late \in [Workers -> [RPCs -> Nat]]
      /\ \A r \in {"Register", "Heartbeat", "Deregister"} : r \in RPCs
      /\ \A p \in {"idle", "notfound", "left"} : p \in PCs
  BY DEF LoopTyped, RPCs, PCs
<1>1. CASE Register(w)
  <2>1. /\ w \in askingOf /\ (askingOf' = askingOf \/ askingOf' = askingOf \ {w})
        /\ goneOf' = goneOf
    <3>1. Handled(w, "Register", "idle")
      BY <1>1 DEF Register
    <3>2. CASE /\ late' = late /\ pc[w] \in InCall /\ Request(pc[w]) = "Register"
               /\ pc' = [pc EXCEPT ![w] = "idle"]
      <4>1. pc[w] \in {"registering", "reregistering"}
        BY <3>2 DEF InCall, Request
      <4> QED
        BY <1>0, <3>2, <4>1 DEF askingOf, goneOf
    <3>3. CASE /\ pc' = pc /\ late[w]["Register"] > 0
               /\ \A v \in Workers, other \in RPCs :
                    late'[v][other] = IF v = w /\ other = "Register"
                                      THEN late[v][other] - 1 ELSE late[v][other]
      BY <1>0, <3>3 DEF askingOf, goneOf
    <3> QED
      BY <1>0, <3>1, <3>2, <3>3, HandledShape
  <2>2. R!Enter(w)
    BY <1>1, <2>1 DEF Register, registryRegister, R!Enter
  <2> QED
    BY <2>2 DEF R!Next
<1>2. CASE Heartbeat(w)
  <2>1. askingOf' = askingOf /\ goneOf' = goneOf
    <3>1. PICK to \in {"idle", "notfound"} : Handled(w, "Heartbeat", to)
      BY <1>2 DEF Heartbeat
    <3>2. CASE /\ late' = late /\ pc[w] \in InCall /\ Request(pc[w]) = "Heartbeat"
               /\ pc' = [pc EXCEPT ![w] = to]
      <4>1. pc[w] = "beating"
        BY <3>2 DEF InCall, Request
      <4> QED
        BY <1>0, <3>1, <3>2, <4>1 DEF askingOf, goneOf
    <3>3. CASE /\ pc' = pc
               /\ \A v \in Workers, other \in RPCs :
                    late'[v][other] = IF v = w /\ other = "Heartbeat"
                                      THEN late[v][other] - 1 ELSE late[v][other]
      BY <1>0, <3>3 DEF askingOf, goneOf
    <3> QED
      BY <1>0, <3>1, <3>2, <3>3, HandledShape
  <2> QED
    BY <1>2, <2>1 DEF Heartbeat, registryHeartbeat, rosterState
<1>3. CASE Deregister(w)
  <2>1. workers' = workers \ {w}
    BY <1>3 DEF Deregister, registryDeregister
  <2>2. Handled(w, "Deregister", "left")
    BY <1>3 DEF Deregister
  <2>3. CASE /\ late' = late /\ pc[w] \in InCall /\ Request(pc[w]) = "Deregister"
             /\ pc' = [pc EXCEPT ![w] = "left"]
    <3>1. pc[w] = "deregistering"
      BY <2>3 DEF InCall, Request
    <3>2. askingOf' = askingOf /\ w \notin goneOf /\ goneOf' = goneOf \cup {w}
      BY <1>0, <2>3, <3>1 DEF askingOf, goneOf
    <3>3. R!Leave(w)
      BY <2>1, <3>2 DEF R!Leave
    <3> QED
      BY <3>3 DEF R!Next
  <2>4. CASE /\ pc' = pc
             /\ \A v \in Workers, other \in RPCs :
                  late'[v][other] = IF v = w /\ other = "Deregister"
                                    THEN late[v][other] - 1 ELSE late[v][other]
    <3>1. askingOf' = askingOf /\ goneOf' = goneOf
      BY <1>0, <2>4 DEF askingOf, goneOf
    <3>2. R!Drop(w)
      BY <2>1, <3>1 DEF R!Drop
    <3> QED
      BY <3>2 DEF R!Next
  <2> QED
    BY <1>0, <2>2, <2>3, <2>4, HandledShape
<1> QED
  BY <1>1, <1>2, <1>3 DEF ServerStep

(* A worker asks only while it runs; a call that ends without an answer    *)
(* may take a registration of its own with it, and the worker as well.     *)
LEMMA WorkerRefines ==
  ASSUME LoopTyped, NEW w \in Workers, WorkerStep(w) \/ EnvironmentStep(w)
  PROVE  [R!Next]_rosterState
<1>1. UNCHANGED workers
  BY DEF WorkerStep, Start, Beat, Reregister, Leave, Cancelled, Send, EnvironmentStep, Signal,
         CallFails, Killed, registryVars
<1>0. pc \in [Workers -> PCs] /\ late \in [Workers -> [RPCs -> Nat]]
  BY DEF LoopTyped
<1>2. CASE Start(w) \/ Reregister(w)
  <2>1. w \notin goneOf /\ UNCHANGED late
    BY <1>2 DEF Start, Reregister, Send, goneOf
  <2>2. PICK p \in {"registering", "reregistering", "idle", "ended"} : pc' = [pc EXCEPT ![w] = p]
    BY <1>2 DEF Start, Reregister, Send, AfterError
  <2>3. CASE p \in {"registering", "reregistering"}
    <3>1. askingOf' = askingOf \cup {w} /\ goneOf' = goneOf
      BY <1>0, <2>1, <2>2, <2>3 DEF askingOf, goneOf
    <3>2. R!Ask(w)
      BY <1>1, <2>1, <3>1 DEF R!Ask
    <3> QED
      BY <3>2 DEF R!Next
  <2>4. CASE p \in {"idle", "ended"}
    <3>1. pc[w] \in {"start", "notfound"}
      BY <1>2 DEF Start, Reregister
    <3>2. askingOf' = askingOf
      BY <1>0, <2>1, <2>2, <2>4, <3>1 DEF askingOf
    <3>3. goneOf' = goneOf \cup {w} \/ goneOf' = goneOf
      BY <1>0, <2>1, <2>2, <2>4 DEF goneOf
    <3>4. R!Quit(w) \/ UNCHANGED rosterState
      BY <1>1, <2>1, <3>2, <3>3 DEF R!Quit, rosterState
    <3> QED
      BY <3>4 DEF R!Next
  <2> QED
    BY <2>2, <2>3, <2>4
<1>3. CASE Beat(w) \/ Leave(w) \/ Signal(w)
  <2>1. askingOf' = askingOf
    BY <1>0, <1>3 DEF Beat, Leave, Signal, Send, AfterError, askingOf
  <2>2. w \notin goneOf
    BY <1>3 DEF Beat, Leave, Signal, goneOf
  <2>3. goneOf' = goneOf \cup {w} \/ goneOf' = goneOf
    BY <1>3 DEF Beat, Leave, Signal, Send, AfterError, goneOf, LoopTyped
  <2>4. R!Quit(w) \/ UNCHANGED rosterState
    BY <1>1, <2>1, <2>2, <2>3 DEF R!Quit, rosterState
  <2> QED
    BY <2>4 DEF R!Next
<1>4. CASE Cancelled(w) \/ CallFails(w) \/ Killed(w)
  <2>1. askingOf' = askingOf \ {w} \/ askingOf' = askingOf
    <3>1. pc[w] \in PCs /\ Orphan(w)
      BY <1>0, <1>4 DEF Cancelled, CallFails, Killed
    <3>2. PICK p \in {"idle", "ended"} : pc' = [pc EXCEPT ![w] = p]
      BY <1>4 DEF Cancelled, CallFails, Killed, AfterError
    <3>3. CASE late' = late
      BY <1>0, <3>2, <3>3 DEF askingOf
    <3>4. CASE /\ Request(pc[w]) = "Register" => pc[w] \in {"registering", "reregistering"}
               /\ \A v \in Workers, rpc \in RPCs :
                    late'[v][rpc] = IF v = w /\ rpc = Request(pc[w])
                                    THEN late[v][rpc] + 1 ELSE late[v][rpc]
      <4>1. "Register" \in RPCs
        BY DEF RPCs
      <4>2. \A v \in Workers : late[v]["Register"] \in Nat
        BY <1>0, <4>1
      <4>3. \A v \in Workers \ {w} : v \in askingOf' <=> v \in askingOf
        BY <1>0, <3>2, <3>4, <4>1 DEF askingOf
      <4>4. w \in askingOf' => w \in askingOf
        BY <1>0, <3>2, <3>4, <4>1, <4>2 DEF askingOf
      <4>5. askingOf \subseteq Workers /\ askingOf' \subseteq Workers
        BY DEF askingOf
      <4> QED
        BY <4>3, <4>4, <4>5
    <3> QED
      BY <1>0, <3>1, <3>3, <3>4, OrphanShape
  <2>2. w \notin goneOf
    BY <1>4 DEF Cancelled, CallFails, Killed, goneOf, InCall
  <2>3. goneOf' = goneOf \cup {w} \/ goneOf' = goneOf
    <3>1. PICK p \in PCs : pc' = [pc EXCEPT ![w] = p]
      BY <1>4 DEF Cancelled, CallFails, Killed, AfterError, PCs
    <3>2. CASE p \in {"left", "ended"}
      BY <3>1, <3>2 DEF goneOf, LoopTyped
    <3>3. CASE p \notin {"left", "ended"}
      BY <2>2, <3>1, <3>3 DEF goneOf, LoopTyped
    <3> QED
      BY <3>2, <3>3
  <2>4. R!Quit(w) \/ R!Withdraw(w) \/ UNCHANGED rosterState
    BY <1>1, <2>1, <2>2, <2>3 DEF R!Quit, R!Withdraw, rosterState
  <2> QED
    BY <2>4 DEF R!Next
<1> QED
  BY <1>2, <1>3, <1>4 DEF WorkerStep, EnvironmentStep

(* Every step of Membership is one of Roster or leaves it alone.           *)
LEMMA StepRefines == LoopTyped /\ [Next]_vars => [R!Next]_rosterState
<1> SUFFICES ASSUME LoopTyped, [Next]_vars
             PROVE  [R!Next]_rosterState
  OBVIOUS
<1>1. CASE UNCHANGED vars
  BY <1>1 DEF vars, registryVars, workerVars, rosterState, askingOf, goneOf
<1>2. CASE Next
  BY <1>2, ControlPlaneRefines, EndRefines, ServerRefines, WorkerRefines DEF Next, R!Next
<1> QED
  BY <1>1, <1>2

(* Membership implements Roster: through scans, evictions, late handlers,  *)
(* broken calls, crashes and restarts, for any number of workers and of    *)
(* faults, only a worker's own Register admits it.                         *)
THEOREM MembershipImplementsRoster == Spec => ImplementsRoster
<1>1. Init => R!Init
  BY DEF Init, Blank, NoneLate, RPCs, R!Init, askingOf, goneOf
<1>2. LoopTyped /\ [Next]_vars => [R!Next]_R!vars
  BY StepRefines DEF rosterState, R!vars
<1> QED
  BY <1>1, <1>2, TypedLoop, TypeCorrect, PTL DEF Spec, R!Spec, ImplementsRoster

=============================================================================

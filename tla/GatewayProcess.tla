--------------------------- MODULE GatewayProcess ---------------------------
(***************************************************************************)
(* The gateway as a process (cmd/gateway): Gateway's handlers, attempts    *)
(* and poll loop, with the cache of worker connections that the attempts   *)
(* share and the shutdown that drains the handlers, empties the cache and  *)
(* ends the process under whatever attempts are left.                      *)
(***************************************************************************)
EXTENDS Gateway

VARIABLES
  phase,        \* how far the shutdown has come
  poller,       \* the goroutine of PollLoop
  conns,        \* Gateway.conns, as the set of workers it has a connection to
  dialled,      \* attempts whose RPC runs on a connection of the cache
  cut           \* those among them whose connection Close has closed

processVars == <<phase, poller, conns, dialled, cut>>
allVars == <<vars, processVars>>

(* The phase is                                                            *)
(*   "up"        until the ctx of main is cancelled                        *)
(*   "draining"  while goroutine 3 is in GracefulStop                      *)
(*   "closed"    once Close has returned                                   *)
(* The poller is "looping", "last" when the poll that was under way at the *)
(* cancellation has been its last, or "returned".                          *)
ProcessInit ==
  /\ Init
  /\ phase = "up"
  /\ poller = "looping"
  /\ conns = {}
  /\ dialled = {}
  /\ cut = {}

----------------------------------------------------------------------------
(* The goroutines of Gateway, while the process lasts.                     *)

\* wg.Wait has returned, and main with it, whatever attempts were doing
Down == phase = "closed" /\ poller = "returned"

\* a stream opened before its client saw GracefulStop's GOAWAY is served, so
\* calls may still begin while it drains; none can once it has returned
Accepting == phase \in {"up", "draining"}

BeginCall(c) ==
  /\ Accepting
  /\ BeginGenerate(c)
  /\ UNCHANGED processVars

ServeCall(c) ==
  /\ ~Down
  /\ Registration(c) \/ Receive(c) \/ Unregister(c)
  /\ UNCHANGED processVars

AbandonCall(c) == ~Down /\ GiveUp(c) /\ UNCHANGED processVars

\* connFor: one connection per address, dialled on first use and kept
ConnFor(c, k) ==
  /\ ~Down
  /\ att[c][k].pc = "rpc"
  /\ <<c, k>> \notin dialled
  /\ conns' = conns \cup {att[c][k].worker}
  /\ dialled' = dialled \cup {<<c, k>>}
  /\ UNCHANGED <<vars, phase, poller, cut>>

\* dispatch returns: on a connection that is open, anything; on one that
\* Close has closed, Canceled, which like a dial error is not retryable
Returns(c, k) ==
  /\ \/ <<c, k>> \in dialled \ cut /\ AttemptSucceeds(c, k)
     \/ <<c, k>> \in dialled \ cut /\ \E err \in ErrorCodes : AttemptFails(c, k, err)
     \/ <<c, k>> \notin dialled \ cut /\ AttemptFails(c, k, "Internal")
  /\ dialled' = dialled \ {<<c, k>>}
  /\ cut' = cut \ {<<c, k>>}
  /\ UNCHANGED <<phase, poller, conns>>

FinishAttempt(c, k) ==
  /\ \/ SnapshotCandidates(c, k) \/ ReplaceAttempt(c, k) \/ DropAttempt(c, k)
     \/ SettleError(c, k) \/ SendResult(c, k)
  /\ UNCHANGED processVars

ProcessAttemptStep(c, k) ==
  ~Down /\ (ConnFor(c, k) \/ Returns(c, k) \/ FinishAttempt(c, k))

\* what closing the connections to the workers S does to the RPCs on them
CutOff(S) == {a \in dialled : att[a[1]][a[2]].worker \in S \cap conns}

\* mutant of Poll: the connections to departed workers are cleaned up
PollTidily ==
  /\ ~Down
  /\ poller = "looping"
  /\ \E fresh \in SUBSET Workers :
       /\ PollOnce(fresh)
       /\ conns' = conns \ departedIDs(view, fresh)
       /\ cut' = cut \cup CutOff(departedIDs(view, fresh))
  /\ poller' = IF phase = "up" THEN "looping" ELSE "last"
  /\ UNCHANGED <<phase, dialled>>

\* a poll after the cancellation fails and changes nothing; one whose reply
\* had come before it still takes effect, and is the last.  No poll touches
\* the connections to departed workers
Poll ==
  /\ ~Down
  /\ poller = "looping"
  /\ \E fresh \in SUBSET Workers : PollOnce(fresh)
  /\ poller' = IF phase = "up" THEN "looping" ELSE "last"
  /\ UNCHANGED <<phase, conns, dialled, cut>>

Reroute == ~Down /\ RerouteFrom /\ UNCHANGED processVars

----------------------------------------------------------------------------
(* The shutdown.                                                           *)

\* SIGTERM, an interrupt, or a Serve that failed and called stop()
Shutdown ==
  /\ phase = "up"
  /\ phase' = "draining"
  /\ UNCHANGED <<vars, poller, conns, dialled, cut>>

\* PollLoop sees ctx.Done, between two polls
PollLoopReturns ==
  /\ phase # "up"
  /\ poller # "returned"
  /\ departed = {}
  /\ poller' = "returned"
  /\ UNCHANGED <<vars, phase, conns, dialled, cut>>

\* mutant of Drained: Stop in the place of GracefulStop, which cancels the
\* handlers and does not wait for them
DrainedAtOnce == TRUE

\* GracefulStop returns when every handler has
Drained == \A c \in Calls : handler[c] \in {"idle", "returned"}

\* Close comes next, and closes every cached connection, under RPCs that may
\* still be running for calls that have returned
Close ==
  /\ phase = "draining"
  /\ Drained
  /\ phase' = "closed"
  /\ conns' = {}
  /\ cut' = cut \cup CutOff(conns)
  /\ UNCHANGED <<vars, poller, dialled>>

----------------------------------------------------------------------------
(* The specification.                                                      *)

ProcessNext ==
  \/ Poll \/ Reroute \/ Shutdown \/ PollLoopReturns \/ Close
  \/ \E c \in Calls : BeginCall(c) \/ ServeCall(c) \/ AbandonCall(c)
  \/ \E c \in Calls : \E k \in DOMAIN att[c] : ProcessAttemptStep(c, k)

ProcessSpec == ProcessInit /\ [][ProcessNext]_allVars

(* A goroutine that can run is eventually scheduled: every RPC returns     *)
(* because attemptTimeout ends its context, and Go's mutexes are           *)
(* starvation-free.  The steps of the second conjunct are finitely many,   *)
(* so that one condition on all of them gives each its turn.  No client    *)
(* need ever call, none need ever give up, no poll need ever succeed and   *)
(* no signal need ever come.                                               *)
ProcessFairness ==
  /\ WF_allVars(Reroute \/ PollLoopReturns)
  /\ WF_allVars(\/ Close
                \/ \E c \in Calls : ServeCall(c)
                \/ \E c \in Calls : \E k \in DOMAIN att[c] : ProcessAttemptStep(c, k))

FairProcessSpec == ProcessSpec /\ ProcessFairness

----------------------------------------------------------------------------
(* Properties.                                                             *)

(* Close comes "after GracefulStop has drained in-flight forwards that are *)
(* still using" the connections: no RPC whose connection it closes is one  *)
(* that a client is still waiting for.                                     *)
NoForwardCut ==
  \A a \in cut : handler[a[1]] \notin {"picked", "waiting"}

(* Every Generate that waits returns, even if its client never gives up    *)
(* and the process is told to stop meanwhile: attemptTimeout and the       *)
(* budget end every chain of attempts, and the exit waits for the drain.   *)
EveryCallReturns ==
  \A c \in Calls : handler[c] = "waiting" ~> handler[c] = "returned"

(* No attempt goroutine outlives its work: each one ends, whether or not   *)
(* its request still has a receiver, or the process ends under it.         *)
AttemptsEnd ==
  \A c \in Calls : (att[c] # << >>) ~>
    \/ Down
    \/ \A k \in DOMAIN att[c] : att[c][k].pc \in {"won", "over"}

(* A gateway told to stop does: the drain cannot wait for ever on a        *)
(* handler, however its workers hang, and neither can Close or wg.Wait.    *)
StopCompletes == phase = "draining" ~> Down

=============================================================================

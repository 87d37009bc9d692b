------------------------- MODULE GatewayRefinement -------------------------
(***************************************************************************)
(* Gateway implements FirstWins.  A call's stage is its handler's; the     *)
(* decision is the outcome of the attempt that won the latch, from the     *)
(* moment it wins it; the id's owner is the tracker's map itself.          *)
(***************************************************************************)
EXTENDS Gateway

\* the stage of a call whose handler is at each of its places
StageAt == [idle |-> "new", picked |-> "new", waiting |-> "open", leaving |-> "leaving",
            returned |-> "closed"]

stageOf == [c \in Calls |-> StageAt[handler[c]]]

decidedOf ==
  [c \in Calls |-> {Verdict(c, k) : k \in {j \in DOMAIN att[c] : Winner(c, j)}}]

FW == INSTANCE FirstWins WITH
        IdOf      <- RequestId,
        Ids       <- ReqIds,
        Decisions <- attemptResult,
        Refusals  <- {Refusal(kind) : kind \in RefusalKinds},
        Nobody    <- NoCall,
        Nothing   <- NoResult,
        stage     <- stageOf,
        owner     <- requests,
        decided   <- decidedOf,
        reply     <- answer

(* Every behaviour of the gateway, reroutes, retries and stragglers        *)
(* included, is one its clients can understand as FirstWins: refused, or   *)
(* admitted alone under its id, decided once and told that decision.       *)
ImplementsFirstWins == FW!Spec

=============================================================================

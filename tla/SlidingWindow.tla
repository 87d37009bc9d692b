--------------------------- MODULE SlidingWindow ---------------------------
(***************************************************************************)
(* The detector's slidingWindow: a ring buffer of inter-arrival gaps, the  *)
(* mean and variance phi reads from it, and the verdict phi reads off      *)
(* them.  Gaps are numbers of some time unit, and the two moments are kept *)
(* as integers: n times the mean, and n cubed times the population         *)
(* variance.  phi grows with z, the distance of the silence from the mean  *)
(* in standard deviations, and so it is above a threshold exactly when z   *)
(* is above some reach: a fraction, like 1.28 for a PhiSuspect of 1 and    *)
(* 5.61 for a PhiDead of 8.                                                *)
(***************************************************************************)
EXTENDS Integers, Sequences, Functions

CONSTANTS
  Samples,      \* gaps that can be pushed
  capacity,     \* len(buf)
  MaxPushes,    \* bound on the length of a history
  minStdDev,    \* minStdDevSeconds
  reach, scale, \* the z at which phi is a threshold, PhiSuspect or PhiDead,
                \* as the fraction reach / scale
  Silences      \* silences that are judged

ASSUME SlidingWindowAssumption ==
  /\ Samples \subseteq Nat
  /\ capacity \in Nat \ {0}
  /\ MaxPushes \in Nat
  /\ minStdDev \in Nat
  /\ reach \in Nat
  /\ scale \in Nat \ {0}
  /\ Silences \subseteq Nat

VARIABLES
  buf,          \* ring storage, zeroed by make
  head,         \* index where the next sample goes
  n,            \* how many samples are valid
  pushed        \* history: every sample ever pushed

vars == <<buf, head, n, pushed>>

\* newSlidingWindow
Init ==
  /\ buf    = [i \in 0..capacity - 1 |-> 0]
  /\ head   = 0
  /\ n      = 0
  /\ pushed = << >>

\* mutant of push: a full window overwrites its newest sample
pushStuck(sample) ==
  /\ buf'  = [buf EXCEPT ![head] = sample]
  /\ head' = IF n < capacity THEN (head + 1) % capacity ELSE head
  /\ n'    = IF n < capacity THEN n + 1 ELSE n

\* mutant of push: n is off by one at the capacity
pushOverfull(sample) ==
  /\ buf'  = [buf EXCEPT ![head] = sample]
  /\ head' = (head + 1) % capacity
  /\ n'    = IF n <= capacity THEN n + 1 ELSE n

push(sample) ==
  /\ buf'  = [buf EXCEPT ![head] = sample]
  /\ head' = (head + 1) % capacity
  /\ n'    = IF n < capacity THEN n + 1 ELSE n

Next ==
  \E sample \in Samples :
    /\ Len(pushed) < MaxPushes
    /\ push(sample)
    /\ pushed' = Append(pushed, sample)

Spec == Init /\ [][Next]_vars

----------------------------------------------------------------------------
\* n times mean()
total == SumFunctionOnSet(buf, 0..n - 1)

square(x) == x * x

\* mutant of variance: the slots that are not valid yet are walked too
varianceOfAll ==
  SumFunctionOnSet([i \in DOMAIN buf |-> square(n * buf[i] - total)], DOMAIN buf)

\* n cubed times variance(), in two passes as the code computes it
variance ==
  SumFunctionOnSet([i \in DOMAIN buf |-> square(n * buf[i] - total)], 0..n - 1)

\* mutant of spread: a perfect spike stays one
spreadUnfloored == variance

\* n cubed times the square of the floored standard deviation
spread ==
  LET least == n * n * n * square(minStdDev) IN IF variance < least THEN least ELSE variance

\* mutant of overdue: early is as anomalous as late
overdueEitherWay(t) ==
  n >= 2 /\ n * square(scale * (n * t - total)) > square(reach) * spread

\* phi after a silence of t is above the threshold: enough gaps are known, and
\* t is further above the mean than reach / scale standard deviations
overdue(t) ==
  /\ n >= 2
  /\ n * t > total
  /\ n * square(scale * (n * t - total)) > square(reach) * spread

----------------------------------------------------------------------------
(* Properties.                                                             *)

(* "While filling, head == n; once full, n == cap and every slot is        *)
(* valid": the note that lets mean and variance walk buf[0:n] whatever the *)
(* ring has been through.                                                  *)
ValidPrefix ==
  /\ buf \in [0..capacity - 1 -> Nat]
  /\ head \in 0..capacity - 1
  /\ n \in 0..capacity
  /\ n < capacity => head = n

LatestIndices == (Len(pushed) - n + 1)..Len(pushed)

(* push overwrites the oldest: the window holds exactly the latest pushes, *)
(* as many as fit, across any number of wraps.                             *)
HoldsTheLatest ==
  /\ n = IF Len(pushed) < capacity THEN Len(pushed) ELSE capacity
  /\ \A j \in LatestIndices : buf[(j - 1) % capacity] = pushed[j]

(* mean and variance are those of the latest pushes, by the textbook       *)
(* one-pass formula the code avoids for its cancellation, exact here.      *)
MomentsOfTheLatest ==
  LET sum     == SumFunctionOnSet(pushed, LatestIndices)
      squares == SumFunctionOnSet([j \in DOMAIN pushed |-> square(pushed[j])], LatestIndices)
  IN  /\ total = sum
      /\ variance = n * n * squares - n * sum * sum

(* "No distribution is a perfect spike" (detector.go:152): however regular *)
(* the beats have been, a silence that exceeds the shortest of the latest  *)
(* gaps by no more than reach / scale times minStdDevSeconds is only       *)
(* jitter.                                                                 *)
JitterIsTolerated ==
  \A low \in Samples : (\A j \in LatestIndices : low <= pushed[j]) =>
    \A t \in Silences : scale * t <= scale * low + reach * minStdDev => ~overdue(t)

(* "As silence grows, P_later underflows toward 0" (detector.go:29): with  *)
(* no beat in between, a worker that is overdue stays so.  This is what    *)
(* ControlPlane assumes of phi when it lets no score fall in a silence.    *)
SilenceOnlyRaises ==
  \A s, t \in Silences : s <= t /\ overdue(s) => overdue(t)

=============================================================================

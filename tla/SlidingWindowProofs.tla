------------------------ MODULE SlidingWindowProofs ------------------------
(***************************************************************************)
(* The ring buffer's index arithmetic, what the ring holds, and the        *)
(* moments read from it, for every capacity and any history of pushes.     *)
(***************************************************************************)
EXTENDS SlidingWindow, FiniteSetTheorems, WellFoundedInduction, TLAPS

(* The next index of a ring is one of its indices, and the successor unless *)
(* the ring wraps.                                                         *)
LEMMA RingIndex ==
  ASSUME NEW N \in Nat \ {0}, NEW i \in 0..N - 1
  PROVE  /\ (i + 1) % N \in 0..N - 1
         /\ i + 1 < N => (i + 1) % N = i + 1
  OBVIOUS

(* One push keeps the valid samples a prefix of the ring.                  *)
LEMMA ValidPrefixStep == ValidPrefix /\ [Next]_vars => ValidPrefix'
<1> USE SlidingWindowAssumption
<1> SUFFICES ASSUME ValidPrefix, [Next]_vars PROVE ValidPrefix'
  OBVIOUS
<1>1. ASSUME NEW sample \in Samples, push(sample) PROVE ValidPrefix'
  <2>1. /\ (head + 1) % capacity \in 0..capacity - 1
        /\ head + 1 < capacity => (head + 1) % capacity = head + 1
    BY RingIndex DEF ValidPrefix
  <2>2. buf' \in [0..capacity - 1 -> Nat] /\ head' \in 0..capacity - 1
    BY <1>1, <2>1 DEF ValidPrefix, push
  <2>3. n' \in 0..capacity
    BY <1>1 DEF ValidPrefix, push
  <2>4. n' < capacity => head' = n'
    BY <1>1, <2>1 DEF ValidPrefix, push
  <2> QED
    BY <2>2, <2>3, <2>4 DEF ValidPrefix
<1>2. CASE UNCHANGED vars
  BY <1>2 DEF ValidPrefix, vars
<1> QED
  BY <1>1, <1>2 DEF Next

(* The note in slidingWindow, "while filling, head == n; once full, every  *)
(* slot is valid", holds for every capacity and every sequence of gaps.    *)
THEOREM PrefixIsValid == Spec => []ValidPrefix
<1>1. Init => ValidPrefix
  BY SlidingWindowAssumption DEF Init, ValidPrefix
<1> QED
  BY <1>1, ValidPrefixStep, PTL DEF Spec

----------------------------------------------------------------------------
(* What the ring holds.                                                    *)

(* A number is its quotient and its remainder.                             *)
LEMMA DivMod ==
  ASSUME NEW N \in Nat \ {0}, NEW m \in Nat
  PROVE  m \div N \in Int /\ m % N \in 0..N - 1 /\ m = N * (m \div N) + (m % N)
  OBVIOUS

(* A remainder is found again from any quotient.                           *)
LEMMA ModIs ==
  ASSUME NEW N \in Nat \ {0}, NEW q \in Int, NEW r \in 0..N - 1
  PROVE  (N * q + r) % N = r
  OBVIOUS

(* A multiple of N that is positive is N at least.                         *)
LEMMA PositiveMultiple ==
  ASSUME NEW N \in Nat \ {0}, NEW d \in Int, 0 < N * d
  PROVE  N <= N * d
<1>1. CASE d <= 0
  BY <1>1
<1>2. CASE d >= 1
  BY <1>2
<1> QED
  BY <1>1, <1>2

(* The index of push after push goes round the ring.                       *)
LEMMA RingSuccessor ==
  ASSUME NEW N \in Nat \ {0}, NEW m \in Nat
  PROVE  (m + 1) % N = ((m % N) + 1) % N
<1> DEFINE q == m \div N
           r == m % N
<1>1. q \in Int /\ r \in 0..N - 1 /\ m = N * q + r
  BY DivMod
<1> HIDE DEF q, r
<1>2. CASE r + 1 < N
  <2>1. r + 1 \in 0..N - 1 /\ m + 1 = N * q + (r + 1)
    BY <1>1, <1>2
  <2>2. (m + 1) % N = r + 1
    BY <1>1, <2>1, ModIs
  <2>3. (r + 1) % N = r + 1
    BY <1>1, <1>2
  <2> QED
    BY <2>2, <2>3 DEF r
<1>3. CASE r + 1 = N
  <2>1. 0 \in 0..N - 1 /\ m + 1 = N * (q + 1) + 0 /\ q + 1 \in Int
    BY <1>1, <1>3
  <2>2. (m + 1) % N = 0
    BY <2>1, ModIs
  <2>3. (r + 1) % N = 0
    BY <1>3
  <2> QED
    BY <2>2, <2>3 DEF r
<1> QED
  BY <1>1, <1>2, <1>3

(* Two pushes less than a round apart go to two slots.                     *)
LEMMA RingDistinct ==
  ASSUME NEW N \in Nat \ {0}, NEW i \in Nat, NEW j \in Nat, i < j, j - i < N
  PROVE  i % N # j % N
<1> DEFINE a == i \div N
           b == j \div N
           r == i % N
           s == j % N
<1>1. a \in Int /\ b \in Int /\ r \in Int /\ s \in Int /\ i = N * a + r /\ j = N * b + s
  BY DivMod
<1> SUFFICES ASSUME r = s PROVE FALSE
  OBVIOUS
<1> HIDE DEF a, b, r, s
<1>2. j - i = N * (b - a)
  BY <1>1
<1>3. b - a \in Int /\ N <= N * (b - a)
  BY <1>1, <1>2, PositiveMultiple
<1> QED
  BY <1>2, <1>3

(* A whole round later the ring is back at the same slot.                  *)
LEMMA RingRound ==
  ASSUME NEW N \in Nat \ {0}, NEW m \in Nat
  PROVE  m % N = (m + N) % N
<1> DEFINE q == m \div N
           r == m % N
<1>1. q \in Int /\ r \in 0..N - 1 /\ m = N * q + r
  BY DivMod
<1> HIDE DEF q, r
<1>2. m + N = N * (q + 1) + r /\ q + 1 \in Int
  BY <1>1
<1>3. (m + N) % N = r
  BY <1>1, <1>2, ModIs
<1> QED
  BY <1>3 DEF r

(* The inductive invariant: HoldsTheLatest alone does not say which slot a *)
(* push overwrites, which is the one of the push a whole round before it.  *)
WindowOK ==
  /\ ValidPrefix
  /\ pushed \in Seq(Nat)
  /\ head = Len(pushed) % capacity
  /\ HoldsTheLatest

\* how many of L pushes fit the window, and which ones these are
Fits(L)   == IF L < capacity THEN L ELSE capacity
Latest(L) == (L - Fits(L) + 1)..L

(* A push keeps only what was held, and less than a round before it.       *)
LEMMA StillHeld ==
  ASSUME NEW L \in Nat, NEW j \in Latest(L + 1), j # L + 1
  PROVE  j \in Latest(L) /\ j \in 1..L /\ j - 1 \in Nat /\ j - 1 < L /\ L - (j - 1) < capacity
<1> USE SlidingWindowAssumption DEF Fits, Latest
<1>1. CASE L < capacity
  BY <1>1
<1>2. CASE L >= capacity
  BY <1>2
<1> QED
  BY <1>1, <1>2

(* One push drops the oldest sample of a full ring and no other.           *)
LEMMA WindowStep == WindowOK /\ [Next]_vars => WindowOK'
<1> USE SlidingWindowAssumption
<1> SUFFICES ASSUME WindowOK, [Next]_vars PROVE WindowOK'
  OBVIOUS
<1>0. ValidPrefix'
  BY ValidPrefixStep DEF WindowOK
<1>1. ASSUME NEW sample \in Samples, push(sample), pushed' = Append(pushed, sample)
      PROVE  WindowOK'
  <2> DEFINE L == Len(pushed)
  <2>1. /\ L \in Nat /\ pushed \in Seq(Nat) /\ sample \in Nat
        /\ pushed' \in Seq(Nat) /\ Len(pushed') = L + 1 /\ pushed'[L + 1] = sample
        /\ \A j \in 1..L : pushed'[j] = pushed[j]
    BY <1>1 DEF WindowOK
  <2>2. head = L % capacity /\ head \in 0..capacity - 1 /\ buf \in [0..capacity - 1 -> Nat]
    BY DEF WindowOK, ValidPrefix
  <2>3. head' = Len(pushed') % capacity
    BY <1>1, <2>1, <2>2, RingSuccessor DEF push
  <2>4. n = Fits(L) /\ n' = Fits(L + 1)
    BY <1>1, <2>1 DEF WindowOK, HoldsTheLatest, push, Fits
  <2>5. LatestIndices = Latest(L) /\ LatestIndices' = Latest(L + 1)
    <3>1. LatestIndices' = (Len(pushed') - n' + 1)..Len(pushed')
      BY DEF LatestIndices
    <3>2. Len(pushed') = L + 1
      BY <2>1
    <3> QED
      BY <2>4, <3>1, <3>2, Zenon DEF LatestIndices, Latest
  <2>6. ASSUME NEW j \in Latest(L + 1)
        PROVE  buf'[(j - 1) % capacity] = pushed'[j]
    <3>1. CASE j = L + 1
      BY <1>1, <2>1, <2>2, <3>1 DEF push
    <3>2. CASE j # L + 1
      <4>1. j \in Latest(L) /\ j \in 1..L /\ j - 1 \in Nat /\ j - 1 < L /\ L - (j - 1) < capacity
        BY <2>1, <2>6, <3>2, StillHeld
      <4>2. buf[(j - 1) % capacity] = pushed[j]
        BY <2>5, <4>1 DEF WindowOK, HoldsTheLatest
      <4>3. (j - 1) % capacity # head /\ (j - 1) % capacity \in 0..capacity - 1
        BY <2>1, <2>2, <4>1, RingDistinct, DivMod
      <4> QED
        BY <1>1, <2>1, <2>2, <4>1, <4>2, <4>3 DEF push
    <3> QED
      BY <3>1, <3>2
  <2>7. HoldsTheLatest'
    <3>1. n' = IF Len(pushed') < capacity THEN Len(pushed') ELSE capacity
      BY <2>1, <2>4 DEF Fits
    <3>2. \A j \in LatestIndices' : buf'[(j - 1) % capacity] = pushed'[j]
      BY <2>5, <2>6
    <3> QED
      BY <3>1, <3>2 DEF HoldsTheLatest
  <2> QED
    BY <1>0, <2>1, <2>3, <2>7 DEF WindowOK
<1>2. CASE UNCHANGED vars
  BY <1>2 DEF WindowOK, ValidPrefix, HoldsTheLatest, LatestIndices, vars
<1> QED
  BY <1>1, <1>2 DEF Next

(* push overwrites the oldest sample: after any number of wraps the window *)
(* holds exactly the latest pushes, as many as fit.                        *)
THEOREM LatestAreHeld == Spec => []HoldsTheLatest
<1>1. Init => WindowOK
  BY SlidingWindowAssumption DEF Init, WindowOK, ValidPrefix, HoldsTheLatest, LatestIndices
<1>2. WindowOK => HoldsTheLatest
  BY DEF WindowOK
<1> QED
  BY <1>1, <1>2, WindowStep, PTL DEF Spec

----------------------------------------------------------------------------
(* Sums over finite sets.                                                  *)

\* the element a sum over s takes first
Pick(s) == CHOOSE x \in s : TRUE

\* g is the table of the sums of f over the subsets of S
IsTable(f, S, g) ==
  g = [s \in SUBSET S |-> IF s = {} THEN 0 ELSE f[Pick(s)] + g[s \ {Pick(s)}]]

(* Induction over the subsets of a finite set, by a least counterexample.  *)
LEMMA LeastSubset ==
  ASSUME NEW S, IsFiniteSet(S), NEW T, T \subseteq SUBSET S, T # {}
  PROVE  \E U \in T : \A V \in T : ~(V \subseteq U /\ V # U)
<1>1. IsWellFoundedOn(StrictSubsetOrdering(S), SUBSET S)
  BY FS_StrictSubsetOrderingWellFounded, FS_FiniteSubsetsOfFinite
<1>2. \E U \in T : \A V \in T : <<V, U>> \notin StrictSubsetOrdering(S)
  BY <1>1, WFMin
<1>3. PICK U \in T : \A V \in T : <<V, U>> \notin StrictSubsetOrdering(S)
  BY <1>2
<1>4. ASSUME NEW V \in T, V \subseteq U, V # U PROVE FALSE
  <2>1. <<V, U>> \in (SUBSET S) \X (SUBSET S)
    BY <1>4
  <2>2. <<V, U>> \in StrictSubsetOrdering(S)
    BY <1>4, <2>1 DEF StrictSubsetOrdering
  <2> QED
    BY <1>3, <2>2
<1> QED
  BY <1>4

(* What is picked is there.                                                *)
LEMMA PickIn == \A s : s # {} => Pick(s) \in s
  BY DEF Pick

(* The community module's sum is read off such a table.                    *)
LEMMA SumIsChoice ==
  ASSUME NEW f, NEW S
  PROVE  SumFunctionOnSet(f, S) = (CHOOSE g : IsTable(f, S, g))[S]
  BY Zenon DEF SumFunctionOnSet, FoldFunctionOnSet, MapThenFoldSet, IsTable, Pick

(* A table is determined by the function it sums, on the subsets it has in *)
(* common with another.                                                    *)
LEMMA TablesAgree ==
  ASSUME NEW f, NEW S, IsFiniteSet(S), NEW R \in SUBSET S,
         NEW g, IsTable(f, S, g), NEW h, IsTable(f, R, h)
  PROVE  \A s \in SUBSET R : g[s] = h[s]
<1> DEFINE T == {s \in SUBSET R : g[s] # h[s]}
<1> SUFFICES ASSUME T # {} PROVE FALSE
  OBVIOUS
<1>1. IsFiniteSet(R)
  BY FS_Subset
<1>2. PICK U \in T : \A V \in T : ~(V \subseteq U /\ V # U)
  <2>1. T \subseteq SUBSET R
    OBVIOUS
  <2> HIDE DEF T
  <2> QED
    BY <1>1, <2>1, LeastSubset
<1>3. U \in SUBSET R /\ U \in SUBSET S /\ g[U] # h[U]
  BY <1>2
<1>4. CASE U = {}
  BY <1>3, <1>4 DEF IsTable
<1>5. CASE U # {}
  <2> DEFINE V == U \ {Pick(U)}
  <2>1. Pick(U) \in U
    BY <1>5, PickIn
  <2>2. V \subseteq U /\ V # U /\ V \in SUBSET R
    BY <1>3, <2>1
  <2>3. g[V] = h[V]
    BY <1>2, <2>2
  <2>4. g[U] = f[Pick(U)] + g[V] /\ h[U] = f[Pick(U)] + h[V]
    BY <1>3, <1>5 DEF IsTable
  <2> QED
    BY <1>3, <2>3, <2>4
<1> QED
  BY <1>4, <1>5

(* Every finite set has a table.                                           *)
LEMMA TableExists ==
  ASSUME NEW f, NEW S, IsFiniteSet(S)
  PROVE  \E g : IsTable(f, S, g)
<1> DEFINE T == {s \in SUBSET S : ~ \E g : IsTable(f, s, g)}
<1> SUFFICES ASSUME T # {} PROVE FALSE
  BY Zenon
<1>1. PICK U \in T : \A V \in T : ~(V \subseteq U /\ V # U)
  <2>1. T \subseteq SUBSET S
    OBVIOUS
  <2> HIDE DEF T
  <2> QED
    BY <2>1, LeastSubset
<1>2. U \in SUBSET S /\ IsFiniteSet(U) /\ ~ \E g : IsTable(f, U, g)
  BY <1>1, FS_Subset
<1> DEFINE tab(s) == CHOOSE g : IsTable(f, s, g)
           sum(s) == IF s = {} THEN 0 ELSE f[Pick(s)] + tab(s \ {Pick(s)})[s \ {Pick(s)}]
           g == [s \in SUBSET U |-> sum(s)]
<1>3. ASSUME NEW V \in SUBSET U, V # U
      PROVE  IsTable(f, V, tab(V)) /\ IsFiniteSet(V)
  <2>1. V \in SUBSET S /\ V \notin T
    BY <1>1, <1>2, <1>3
  <2>2. \E h : IsTable(f, V, h)
    BY <2>1
  <2> QED
    BY <1>2, <2>2, FS_Subset
<1>4. ASSUME NEW V \in SUBSET U, V # U
      PROVE  g[V] = tab(V)[V]
  <2>1. IsTable(f, V, tab(V)) /\ IsFiniteSet(V)
    BY <1>3, <1>4
  <2>2. g[V] = sum(V)
    OBVIOUS
  <2> HIDE DEF g
  <2>3. CASE V = {}
    <3>1. tab(V)[V] = 0
      BY <2>1, <2>3 DEF IsTable
    <3> QED
      BY <2>2, <2>3, <3>1
  <2>4. CASE V # {}
    <3> DEFINE W == V \ {Pick(V)}
    <3>1. Pick(V) \in V
      BY <2>4, PickIn
    <3>2. W \in SUBSET U /\ W # U /\ W \in SUBSET V
      BY <1>4, <3>1
    <3>3. IsTable(f, W, tab(W))
      BY <1>3, <3>2
    <3>4. W \in SUBSET W
      OBVIOUS
    <3> HIDE DEF tab, sum
    <3>5. tab(V)[W] = tab(W)[W]
      BY <2>1, <3>2, <3>3, <3>4, TablesAgree
    <3>6. tab(V)[V] = f[Pick(V)] + tab(V)[W]
      BY <2>1, <2>4 DEF IsTable
    <3>7. sum(V) = f[Pick(V)] + tab(W)[W]
      BY <2>4 DEF sum
    <3> QED
      BY <2>2, <3>5, <3>6, <3>7
  <2> QED
    BY <2>3, <2>4
<1>5. ASSUME NEW s \in SUBSET U, s # {}
      PROVE  sum(s) = f[Pick(s)] + g[s \ {Pick(s)}]
  <2> DEFINE V == s \ {Pick(s)}
  <2>1. Pick(s) \in s
    BY <1>5, PickIn
  <2>2. V \in SUBSET U /\ V # U
    BY <2>1
  <2>3. g[V] = tab(V)[V]
    BY <1>4, <2>2
  <2> QED
    BY <1>5, <2>3
<1>6. IsTable(f, U, g)
  <2>1. ASSUME NEW s \in SUBSET U
        PROVE  sum(s) = IF s = {} THEN 0 ELSE f[Pick(s)] + g[s \ {Pick(s)}]
    <3>1. s = {} => sum(s) = 0
      OBVIOUS
    <3> HIDE DEF sum, g
    <3> QED
      BY <1>5, <3>1
  <2>2. g = [s \in SUBSET U |-> sum(s)]
    OBVIOUS
  <2> HIDE DEF g, sum
  <2>3. g = [s \in SUBSET U |-> IF s = {} THEN 0 ELSE f[Pick(s)] + g[s \ {Pick(s)}]]
    BY <2>1, <2>2
  <2> QED
    BY <2>3 DEF IsTable
<1> QED
  BY <1>2, <1>6

(* The equation the sum is defined by.                                     *)
LEMMA SumUnfolds ==
  ASSUME NEW f, NEW S, IsFiniteSet(S)
  PROVE  /\ SumFunctionOnSet(f, {}) = 0
         /\ S # {} => SumFunctionOnSet(f, S)
                        = f[Pick(S)] + SumFunctionOnSet(f, S \ {Pick(S)})
<1> DEFINE tab(s) == CHOOSE g : IsTable(f, s, g)
<1>1. ASSUME NEW s, IsFiniteSet(s) PROVE IsTable(f, s, tab(s))
  BY <1>1, TableExists, Zenon
<1>2. \A s : SumFunctionOnSet(f, s) = tab(s)[s]
  BY SumIsChoice, Zenon
<1> HIDE DEF tab
<1>3. SumFunctionOnSet(f, {}) = 0
  <2>1. IsTable(f, {}, tab({})) /\ {} \in SUBSET {}
    BY <1>1, FS_EmptySet
  <2>2. tab({})[{}] = 0
    BY <2>1 DEF IsTable
  <2> QED
    BY <1>2, <2>2
<1>4. ASSUME S # {}
      PROVE  SumFunctionOnSet(f, S) = f[Pick(S)] + SumFunctionOnSet(f, S \ {Pick(S)})
  <2> DEFINE W == S \ {Pick(S)}
  <2>1. Pick(S) \in S /\ W \in SUBSET S /\ IsFiniteSet(W)
    BY <1>4, PickIn, FS_Subset
  <2>2. IsTable(f, S, tab(S)) /\ IsTable(f, W, tab(W))
    BY <1>1, <2>1
  <2>3. tab(S)[W] = tab(W)[W]
    BY <2>1, <2>2, TablesAgree
  <2>4. tab(S)[S] = f[Pick(S)] + tab(S)[W]
    BY <1>4, <2>2 DEF IsTable
  <2> QED
    BY <1>2, <2>3, <2>4
<1> QED
  BY <1>3, <1>4

(* The order does not matter: any element may be taken first.              *)
LEMMA SumRemove ==
  ASSUME NEW S, IsFiniteSet(S), NEW f, \A i \in S : f[i] \in Int
  PROVE  /\ SumFunctionOnSet(f, S) \in Int
         /\ \A x \in S : SumFunctionOnSet(f, S) = f[x] + SumFunctionOnSet(f, S \ {x})
<1> DEFINE sum(s) == SumFunctionOnSet(f, s)
           Good(s) == sum(s) \in Int /\ \A x \in s : sum(s) = f[x] + sum(s \ {x})
           T == {s \in SUBSET S : ~Good(s)}
<1>1. ASSUME NEW s \in SUBSET S
      PROVE  sum({}) = 0 /\ (s # {} => sum(s) = f[Pick(s)] + sum(s \ {Pick(s)}))
  BY FS_Subset, SumUnfolds
<1> HIDE DEF sum
<1> SUFFICES ASSUME T # {} PROVE FALSE
  BY DEF sum
<1>2. PICK U \in T : \A V \in T : ~(V \subseteq U /\ V # U)
  <2>1. T \subseteq SUBSET S
    OBVIOUS
  <2> HIDE DEF T
  <2> QED
    BY <2>1, LeastSubset
<1>3. U \in SUBSET S /\ ~Good(U)
  BY <1>2
<1>4. ASSUME NEW x \in U PROVE Good(U \ {x})
  BY <1>2, <1>3
<1>5. U # {}
  <2>1. sum({}) = 0
    BY <1>1, <1>3
  <2>2. Good({})
    BY <2>1
  <2> HIDE DEF Good
  <2> QED
    BY <1>3, <2>2
<1> DEFINE p == Pick(U)
<1>6. p \in U /\ f[p] \in Int /\ sum(U) = f[p] + sum(U \ {p})
  BY <1>1, <1>3, <1>5, PickIn
<1> HIDE DEF p
<1>7. sum(U) \in Int
  BY <1>4, <1>6
<1>8. ASSUME NEW x \in U, x # p
      PROVE  sum(U) = f[x] + sum(U \ {x})
  <2>1. sum(U \ {p}) = f[x] + sum((U \ {p}) \ {x})
    BY <1>4, <1>6, <1>8
  <2>2. sum(U \ {x}) = f[p] + sum((U \ {x}) \ {p})
    BY <1>4, <1>6, <1>8
  <2>3. (U \ {p}) \ {x} = (U \ {x}) \ {p}
    OBVIOUS
  <2>4. sum((U \ {x}) \ {p}) \in Int /\ f[x] \in Int
    <3>1. (U \ {x}) \ {p} \in SUBSET S /\ (U \ {x}) \ {p} \subseteq U /\ (U \ {x}) \ {p} # U
      BY <1>3, <1>6
    <3>2. (U \ {x}) \ {p} \notin T
      BY <1>2, <3>1
    <3> QED
      BY <1>3, <3>1, <3>2
  <2>5. f[x] \in Int
    BY <1>3, <1>8
  <2> DEFINE r == sum((U \ {x}) \ {p})
  <2>6. sum(U) = f[p] + (f[x] + r) /\ sum(U \ {x}) = f[p] + r /\ r \in Int
    BY <1>6, <2>1, <2>2, <2>3, <2>4
  <2> HIDE DEF r
  <2> QED
    BY <1>6, <2>5, <2>6
<1> QED
  <2>1. Good(U)
    BY <1>6, <1>7, <1>8
  <2> QED
    BY <1>3, <2>1

(* Adding one index adds its value.                                        *)
LEMMA SumAdd ==
  ASSUME NEW S, IsFiniteSet(S), NEW x, x \notin S, NEW f, \A i \in S \cup {x} : f[i] \in Int
  PROVE  SumFunctionOnSet(f, S \cup {x}) = f[x] + SumFunctionOnSet(f, S)
<1>1. IsFiniteSet(S \cup {x}) /\ (S \cup {x}) \ {x} = S
  BY FS_AddElement
<1> QED
  BY <1>1, SumRemove

(* A sum of linear combinations is the linear combination of the sums.     *)
LEMMA SumLinear ==
  ASSUME NEW S, IsFiniteSet(S), NEW a \in Int, NEW b \in Int, NEW c \in Int,
         NEW f, NEW g, NEW h,
         \A i \in S : f[i] \in Int /\ g[i] \in Int /\ h[i] = a * f[i] + b * g[i] + c
  PROVE  SumFunctionOnSet(h, S)
           = a * SumFunctionOnSet(f, S) + b * SumFunctionOnSet(g, S) + c * Cardinality(S)
<1> DEFINE F(s) == SumFunctionOnSet(f, s)
           G(s) == SumFunctionOnSet(g, s)
           H(s) == SumFunctionOnSet(h, s)
           T == {s \in SUBSET S : H(s) # a * F(s) + b * G(s) + c * Cardinality(s)}
<1>1. F({}) = 0 /\ G({}) = 0 /\ H({}) = 0 /\ Cardinality({}) = 0
  BY SumUnfolds, FS_EmptySet
<1>2. \A i \in S : h[i] \in Int
  OBVIOUS
<1>3. ASSUME NEW s \in SUBSET S, NEW x \in s
      PROVE  /\ F(s) = f[x] + F(s \ {x}) /\ F(s \ {x}) \in Int
             /\ G(s) = g[x] + G(s \ {x}) /\ G(s \ {x}) \in Int
             /\ H(s) = h[x] + H(s \ {x}) /\ H(s \ {x}) \in Int
             /\ Cardinality(s) = Cardinality(s \ {x}) + 1 /\ Cardinality(s \ {x}) \in Nat
  <2>1. IsFiniteSet(s) /\ IsFiniteSet(s \ {x})
    BY FS_Subset
  <2>2. \A i \in s : f[i] \in Int /\ g[i] \in Int /\ h[i] \in Int
    BY <1>2
  <2>3. F(s) = f[x] + F(s \ {x}) /\ F(s \ {x}) \in Int
    BY <2>1, <2>2, SumRemove
  <2>4. G(s) = g[x] + G(s \ {x}) /\ G(s \ {x}) \in Int
    BY <2>1, <2>2, SumRemove
  <2>5. H(s) = h[x] + H(s \ {x}) /\ H(s \ {x}) \in Int
    BY <2>1, <2>2, SumRemove
  <2>6. Cardinality(s \ {x}) = Cardinality(s) - 1
    BY <2>1, FS_RemoveElement
  <2>7. Cardinality(s) \in Nat /\ Cardinality(s \ {x}) \in Nat
    BY <2>1, FS_CardinalityType
  <2> HIDE DEF F, G, H
  <2> QED
    BY <2>3, <2>4, <2>5, <2>6, <2>7
<1> HIDE DEF F, G, H
<1> SUFFICES ASSUME T # {} PROVE FALSE
  BY DEF F, G, H
<1>4. PICK U \in T : \A V \in T : ~(V \subseteq U /\ V # U)
  <2>1. T \subseteq SUBSET S
    OBVIOUS
  <2> HIDE DEF T
  <2> QED
    BY <2>1, LeastSubset
<1>5. U # {}
  <2>1. H({}) = a * F({}) + b * G({}) + c * Cardinality({})
    BY <1>1
  <2> QED
    BY <1>4, <2>1
<1>6. PICK x \in U : TRUE
  BY <1>5
<1> DEFINE W == U \ {x}
<1>7. H(W) = a * F(W) + b * G(W) + c * Cardinality(W)
  BY <1>4, <1>6
<1>8. /\ F(U) = f[x] + F(W) /\ F(W) \in Int /\ f[x] \in Int
      /\ G(U) = g[x] + G(W) /\ G(W) \in Int /\ g[x] \in Int
      /\ H(U) = h[x] + H(W) /\ h[x] = a * f[x] + b * g[x] + c
      /\ Cardinality(U) = Cardinality(W) + 1 /\ Cardinality(W) \in Nat
  BY <1>3, <1>4, <1>6
<1> HIDE DEF W
<1>9. H(U) = a * F(U) + b * G(U) + c * Cardinality(U)
  BY <1>7, <1>8
<1> QED
  BY <1>4, <1>9

(* A sum depends on the values it adds and on nothing else.                *)
LEMMA SumCongruence ==
  ASSUME NEW S, IsFiniteSet(S), NEW f, NEW h, \A i \in S : f[i] \in Int /\ h[i] = f[i]
  PROVE  SumFunctionOnSet(h, S) = SumFunctionOnSet(f, S)
<1> DEFINE one  == 1
           zero == 0
<1>1. one \in Int /\ zero \in Int
  OBVIOUS
<1>2. \A i \in S : f[i] \in Int /\ f[i] \in Int /\ h[i] = one * f[i] + zero * f[i] + zero
  OBVIOUS
<1> HIDE DEF one, zero
<1>3. SumFunctionOnSet(h, S)
        = one * SumFunctionOnSet(f, S) + zero * SumFunctionOnSet(f, S) + zero * Cardinality(S)
  BY <1>1, <1>2, SumLinear
<1>4. SumFunctionOnSet(f, S) \in Int /\ Cardinality(S) \in Nat
  BY SumRemove, FS_CardinalityType
<1> QED
  BY <1>3, <1>4 DEF one, zero

----------------------------------------------------------------------------
(* What phi reads from the ring.                                           *)

(* The indices of a ring, or of a stretch of a history, can be summed over. *)
LEMMA StretchIsFinite ==
  ASSUME NEW a \in Int, NEW b \in Int, NEW S, S \subseteq a..b
  PROVE  IsFiniteSet(S)
BY FS_Interval, FS_Subset

\* the sum of some function of the samples, over the ring and over the history
RingSum(g)   == SumFunctionOnSet([i \in DOMAIN buf |-> g[buf[i]]], 0..n - 1)
LatestSum(g) == SumFunctionOnSet([j \in DOMAIN pushed |-> g[pushed[j]]], LatestIndices)

\* the invariant: every such sum comes out the same
SumsAgree == \A g \in [Nat -> Int] : RingSum(g) = LatestSum(g)

(* A push adds its sample to a sum over the ring, and takes the sample it  *)
(* overwrites from the sum of a full one.                                  *)
LEMMA RingPush ==
  ASSUME ValidPrefix, NEW sample \in Nat, push(sample), NEW g \in [Nat -> Int]
  PROVE  RingSum(g)' = RingSum(g) + g[sample] - (IF n < capacity THEN 0 ELSE g[buf[head]])
<1> USE SlidingWindowAssumption
<1> DEFINE f == [i \in DOMAIN buf |-> g[buf[i]]]
           h == [i \in DOMAIN buf' |-> g[buf'[i]]]
           kept == (0..n - 1) \ {head}
<1>1. /\ DOMAIN buf = 0..capacity - 1 /\ DOMAIN buf' = 0..capacity - 1
      /\ head \in 0..capacity - 1 /\ n \in 0..capacity
      /\ \A i \in 0..capacity - 1 : buf[i] \in Nat /\ buf'[i] = IF i = head THEN sample ELSE buf[i]
  BY DEF ValidPrefix, push
<1>2. kept \subseteq 0..capacity - 1 /\ head \notin kept /\ IsFiniteSet(kept)
  <2>1. kept \subseteq 0..capacity - 1 /\ head \notin kept
    BY <1>1
  <2>2. 0 \in Int /\ capacity - 1 \in Int
    OBVIOUS
  <2> HIDE DEF kept
  <2> QED
    BY <2>1, <2>2, StretchIsFinite
<1>3. 0..n' - 1 = kept \cup {head}
  BY <1>1 DEF ValidPrefix, push
<1>4. /\ \A i \in 0..capacity - 1 : f[i] = g[buf[i]] /\ f[i] \in Int
      /\ \A i \in kept : h[i] = f[i]
      /\ h[head] = g[sample] /\ g[sample] \in Int
      /\ \A i \in kept \cup {head} : h[i] \in Int
  BY <1>1, <1>2
<1>5. RingSum(g) = SumFunctionOnSet(f, 0..n - 1) /\ RingSum(g)' = SumFunctionOnSet(h, 0..n' - 1)
  BY DEF RingSum
<1> HIDE DEF f, h, kept
<1>6. SumFunctionOnSet(h, kept) = SumFunctionOnSet(f, kept) /\ SumFunctionOnSet(f, kept) \in Int
  BY <1>2, <1>4, SumCongruence, SumRemove
<1>7. SumFunctionOnSet(h, kept \cup {head}) = g[sample] + SumFunctionOnSet(h, kept)
  BY <1>2, <1>4, SumAdd
<1>8. CASE n < capacity
  <2>1. kept = 0..n - 1
    BY <1>1, <1>8 DEF ValidPrefix, kept
  <2>2. RingSum(g)' = g[sample] + RingSum(g) /\ RingSum(g) \in Int
    BY <1>3, <1>5, <1>6, <1>7, <2>1
  <2> QED
    BY <1>4, <1>8, <2>2
<1>9. CASE n = capacity
  <2>1. 0..n - 1 = kept \cup {head}
    BY <1>1, <1>9 DEF kept
  <2>2. SumFunctionOnSet(f, kept \cup {head}) = f[head] + SumFunctionOnSet(f, kept)
    BY <1>1, <1>2, <1>4, SumAdd
  <2>3. f[head] = g[buf[head]] /\ f[head] \in Int
    BY <1>1, <1>4
  <2> DEFINE rest == SumFunctionOnSet(f, kept)
  <2>4. RingSum(g)' = g[sample] + rest /\ RingSum(g) = f[head] + rest /\ rest \in Int
    BY <1>3, <1>5, <1>6, <1>7, <2>1, <2>2
  <2> HIDE DEF rest
  <2> QED
    BY <1>4, <1>9, <2>3, <2>4
<1> QED
  BY <1>1, <1>8, <1>9

(* What a push leaves of the latest pushes: all of them while there is     *)
(* room, and all but the oldest from then on.                              *)
LEMMA LatestKept ==
  ASSUME NEW L \in Nat
  PROVE  LET kept == Latest(L + 1) \ {L + 1}
         IN  /\ kept \subseteq 1..L /\ Latest(L) \subseteq 1..L
             /\ Latest(L + 1) = kept \cup {L + 1}
             /\ L < capacity => kept = Latest(L)
             /\ L >= capacity =>
                  LET old == L - capacity + 1
                  IN  old \in 1..L /\ old \notin kept /\ Latest(L) = kept \cup {old}
<1> USE SlidingWindowAssumption
<1>1. CASE L < capacity
  <2>1. Latest(L) = 1..L /\ Latest(L + 1) = 1..L + 1
    BY <1>1 DEF Fits, Latest
  <2> QED
    BY <1>1, <2>1
<1>2. CASE L >= capacity
  <2>1. Latest(L) = L - capacity + 1..L /\ Latest(L + 1) = L + 1 - capacity + 1..L + 1
    BY <1>2 DEF Fits, Latest
  <2> QED
    BY <1>2, <2>1
<1> QED
  BY <1>1, <1>2

(* It does the same to the sum over the latest pushes, since the slot it   *)
(* overwrites holds the oldest of these.                                   *)
LEMMA LatestPush ==
  ASSUME WindowOK, NEW sample \in Nat, push(sample), pushed' = Append(pushed, sample),
         NEW g \in [Nat -> Int]
  PROVE  LatestSum(g)' = LatestSum(g) + g[sample] - (IF n < capacity THEN 0 ELSE g[buf[head]])
<1> USE SlidingWindowAssumption
<1> DEFINE L == Len(pushed)
           f == [j \in DOMAIN pushed |-> g[pushed[j]]]
           h == [j \in DOMAIN pushed' |-> g[pushed'[j]]]
           kept == Latest(L + 1) \ {L + 1}
<1>1. /\ L \in Nat /\ DOMAIN pushed = 1..L /\ DOMAIN pushed' = 1..L + 1
      /\ \A j \in 1..L : pushed[j] \in Nat /\ pushed'[j] = pushed[j]
      /\ pushed'[L + 1] = sample /\ Len(pushed') = L + 1
  <2>1. pushed \in Seq(Nat) /\ pushed' = Append(pushed, sample)
    BY DEF WindowOK
  <2> QED
    BY <2>1
<1>2. n = Fits(L) /\ n' = Fits(L + 1)
  BY <1>1 DEF WindowOK, HoldsTheLatest, push, Fits
<1>3. LatestIndices = Latest(L) /\ LatestIndices' = Latest(L + 1)
  <2>1. LatestIndices' = (Len(pushed') - n' + 1)..Len(pushed')
    BY DEF LatestIndices
  <2> QED
    BY <1>1, <1>2, <2>1, Zenon DEF LatestIndices, Latest
<1>4. LatestSum(g) = SumFunctionOnSet(f, Latest(L)) /\ LatestSum(g)' = SumFunctionOnSet(h, Latest(L + 1))
  BY <1>3 DEF LatestSum
<1>5. kept \subseteq 1..L /\ L + 1 \notin kept /\ IsFiniteSet(kept) /\ Latest(L + 1) = kept \cup {L + 1}
  <2>1. kept \subseteq 1..L /\ L + 1 \notin kept /\ Latest(L + 1) = kept \cup {L + 1}
    <3>1. L \in Nat
      BY <1>1
    <3> HIDE DEF L
    <3> QED
      BY <3>1, LatestKept
  <2>2. 1 \in Int /\ L \in Int
    BY <1>1
  <2> HIDE DEF kept, L
  <2> QED
    BY <2>1, <2>2, StretchIsFinite
<1>6. /\ \A j \in 1..L : f[j] = g[pushed[j]] /\ f[j] \in Int
      /\ \A j \in kept : h[j] = f[j]
      /\ h[L + 1] = g[sample] /\ g[sample] \in Int
      /\ \A j \in kept \cup {L + 1} : h[j] \in Int
  BY <1>1, <1>5
<1> HIDE DEF f, h
<1>7. SumFunctionOnSet(h, kept) = SumFunctionOnSet(f, kept) /\ SumFunctionOnSet(f, kept) \in Int
  <2> HIDE DEF kept
  <2> QED
    BY <1>5, <1>6, SumCongruence, SumRemove
<1>8. SumFunctionOnSet(h, kept \cup {L + 1}) = g[sample] + SumFunctionOnSet(h, kept)
  <2> HIDE DEF kept, L
  <2> QED
    BY <1>5, <1>6, SumAdd
<1>9. CASE n < capacity
  <2>1. L \in Nat /\ L < capacity
    BY <1>1, <1>2, <1>9 DEF Fits
  <2>2. kept = Latest(L)
    <3> HIDE DEF L
    <3> QED
      BY <2>1, LatestKept
  <2> HIDE DEF kept, L
  <2>3. LatestSum(g)' = g[sample] + LatestSum(g) /\ LatestSum(g) \in Int
    BY <1>4, <1>5, <1>7, <1>8, <2>2
  <2> QED
    BY <1>6, <1>9, <2>3
<1>10. CASE n = capacity
  <2> DEFINE old == L - capacity + 1
  <2>1. old \in 1..L /\ old \notin kept /\ Latest(L) = kept \cup {old}
    <3>1. L \in Nat /\ L >= capacity
      <4>1. L \in Nat /\ capacity = Fits(L)
        BY <1>1, <1>2, <1>10
      <4> HIDE DEF L
      <4> QED
        BY <4>1 DEF Fits
    <3> HIDE DEF L
    <3> QED
      BY <3>1, LatestKept
  <2>2. f[old] = g[buf[head]]
    <3>1. buf[(old - 1) % capacity] = pushed[old]
      BY <1>3, <2>1 DEF WindowOK, HoldsTheLatest
    <3>2. (old - 1) % capacity = L % capacity
      <4>1. old - 1 \in Nat /\ L = old - 1 + capacity
        BY <1>1, <2>1
      <4> DEFINE m == old - 1
      <4> HIDE DEF m
      <4>2. m \in Nat /\ L = m + capacity
        BY <4>1 DEF m
      <4>3. m % capacity = (m + capacity) % capacity
        BY <4>2, RingRound
      <4> QED
        BY <4>2, <4>3 DEF m
    <3>3. head = L % capacity
      BY DEF WindowOK
    <3> QED
      BY <1>6, <2>1, <3>1, <3>2, <3>3
  <2> HIDE DEF kept, old
  <2>3. SumFunctionOnSet(f, kept \cup {old}) = f[old] + SumFunctionOnSet(f, kept)
    BY <1>5, <1>6, <2>1, SumAdd
  <2>4. f[old] \in Int
    BY <1>6, <2>1
  <2> DEFINE rest == SumFunctionOnSet(f, kept)
  <2>5. LatestSum(g)' = g[sample] + rest /\ LatestSum(g) = f[old] + rest /\ rest \in Int
    BY <1>4, <1>5, <1>7, <1>8, <2>1, <2>3
  <2> HIDE DEF rest, f
  <2> QED
    BY <1>6, <1>10, <2>2, <2>4, <2>5
<1> QED
  <2>1. n \in 0..capacity
    BY DEF WindowOK, ValidPrefix
  <2> QED
    BY <1>9, <1>10, <2>1

(* So the sums stay equal, in whatever order the ring holds its samples.   *)
LEMMA SumsStep == WindowOK /\ SumsAgree /\ [Next]_vars => SumsAgree'
<1> USE SlidingWindowAssumption
<1> SUFFICES ASSUME WindowOK, SumsAgree, [Next]_vars PROVE SumsAgree'
  OBVIOUS
<1>1. ASSUME NEW sample \in Samples, push(sample), pushed' = Append(pushed, sample)
      PROVE  SumsAgree'
  <2> SUFFICES ASSUME NEW g \in [Nat -> Int] PROVE RingSum(g)' = LatestSum(g)'
    BY DEF SumsAgree
  <2>1. sample \in Nat /\ ValidPrefix
    BY DEF WindowOK
  <2>2. RingSum(g) = LatestSum(g)
    BY DEF SumsAgree
  <2> QED
    BY <1>1, <2>1, <2>2, RingPush, LatestPush
<1>2. CASE UNCHANGED vars
  BY <1>2 DEF SumsAgree, RingSum, LatestSum, LatestIndices, vars
<1> QED
  BY <1>1, <1>2 DEF Next

(* The sum is that of the samples, and the squared deviations are expanded *)
(* into the sum of the squares, the sum, and the number of samples.        *)
LEMMA MomentsFromSums == WindowOK /\ SumsAgree => MomentsOfTheLatest
<1> USE SlidingWindowAssumption
<1> SUFFICES ASSUME WindowOK, SumsAgree PROVE MomentsOfTheLatest
  OBVIOUS
<1> DEFINE id  == [x \in Nat |-> x]
           sq  == [x \in Nat |-> square(x)]
           S   == 0..n - 1
           bsq == [i \in DOMAIN buf |-> sq[buf[i]]]
           dev == [i \in DOMAIN buf |-> square(n * buf[i] - total)]
           Q   == SumFunctionOnSet(bsq, S)
<1>1. /\ buf \in [0..capacity - 1 -> Nat] /\ n \in 0..capacity
      /\ S \subseteq 0..capacity - 1 /\ IsFiniteSet(S) /\ Cardinality(S) = n
  <2>1. buf \in [0..capacity - 1 -> Nat] /\ n \in 0..capacity /\ 0 \in Int /\ n - 1 \in Int
    BY DEF WindowOK, ValidPrefix
  <2>2. IsFiniteSet(S) /\ Cardinality(S) = IF 0 > n - 1 THEN 0 ELSE n - 1 - 0 + 1
    BY <2>1, FS_Interval
  <2> QED
    BY <2>1, <2>2
<1>2. pushed \in Seq(Nat) /\ DOMAIN pushed = 1..Len(pushed)
  BY DEF WindowOK
<1>3. \A i \in S : buf[i] \in Nat /\ bsq[i] = buf[i] * buf[i] /\ bsq[i] \in Int
  <2> SUFFICES ASSUME NEW i \in S PROVE buf[i] \in Nat /\ bsq[i] = buf[i] * buf[i] /\ bsq[i] \in Int
    OBVIOUS
  <2>1. i \in 0..capacity - 1 /\ buf[i] \in Nat
    BY <1>1
  <2>2. bsq[i] = sq[buf[i]]
    BY <1>1, <2>1
  <2>3. sq[buf[i]] = buf[i] * buf[i]
    BY <2>1 DEF square
  <2> HIDE DEF bsq, sq
  <2> QED
    BY <2>1, <2>2, <2>3
<1>4. total = SumFunctionOnSet(pushed, LatestIndices)
  <2>1. [i \in DOMAIN buf |-> id[buf[i]]] = buf
    BY <1>1
  <2>2. [j \in DOMAIN pushed |-> id[pushed[j]]] = pushed
    BY <1>2
  <2>3. id \in [Nat -> Int]
    OBVIOUS
  <2> HIDE DEF id
  <2>4. RingSum(id) = LatestSum(id)
    BY <2>3 DEF SumsAgree
  <2> QED
    BY <2>1, <2>2, <2>4, Zenon DEF RingSum, LatestSum, total
<1>5. Q = SumFunctionOnSet([j \in DOMAIN pushed |-> square(pushed[j])], LatestIndices)
  <2>1. [j \in DOMAIN pushed |-> sq[pushed[j]]] = [j \in DOMAIN pushed |-> square(pushed[j])]
    BY <1>2
  <2>2. sq \in [Nat -> Int]
    BY DEF square
  <2> HIDE DEF sq
  <2>3. RingSum(sq) = LatestSum(sq)
    BY <2>2 DEF SumsAgree
  <2> QED
    BY <2>1, <2>3, Zenon DEF RingSum, LatestSum
<1>6. total \in Int /\ Q \in Int
  <2> HIDE DEF bsq, S
  <2>1. \A i \in S : buf[i] \in Int /\ bsq[i] \in Int
    BY <1>3
  <2>2. SumFunctionOnSet(buf, S) \in Int /\ SumFunctionOnSet(bsq, S) \in Int
    BY <1>1, <2>1, SumRemove
  <2> QED
    BY <2>2 DEF total, S
<1>7. variance = n * n * Q - n * total * total
  <2> DEFINE a == n * n
             b == -(2 * n * total)
             c == total * total
  <2>1. a \in Int /\ b \in Int /\ c \in Int
    BY <1>1, <1>6
  <2>2. \A i \in S : /\ bsq[i] \in Int /\ buf[i] \in Int
                     /\ dev[i] = a * bsq[i] + b * buf[i] + c
    <3> SUFFICES ASSUME NEW i \in S
                 PROVE  /\ bsq[i] \in Int /\ buf[i] \in Int
                        /\ dev[i] = a * bsq[i] + b * buf[i] + c
      OBVIOUS
    <3>1. i \in DOMAIN buf /\ n \in Int
      BY <1>1
    <3>2. dev[i] = (n * buf[i] - total) * (n * buf[i] - total)
      BY <3>1 DEF square
    <3> HIDE DEF bsq, dev, S
    <3>3. bsq[i] \in Int /\ bsq[i] = buf[i] * buf[i] /\ buf[i] \in Int
      BY <1>3
    <3>4. \A x \in Int : (n * x - total) * (n * x - total)
                           = (n * n) * (x * x) + (-(2 * n * total)) * x + total * total
      BY <1>6, <3>1
    <3> QED
      BY <3>2, <3>3, <3>4
  <2> HIDE DEF a, b, c, bsq, dev, S, id, sq
  <2>3. SumFunctionOnSet(dev, S)
          = a * SumFunctionOnSet(bsq, S) + b * SumFunctionOnSet(buf, S) + c * Cardinality(S)
    <3>1. IsFiniteSet(S)
      BY <1>1
    <3>2. \A i \in S : bsq[i] \in Int /\ buf[i] \in Int /\ dev[i] = a * bsq[i] + b * buf[i] + c
      BY <2>2
    <3> QED
      BY <2>1, <3>1, <3>2, SumLinear, SMTT(30)
  <2>4. variance = SumFunctionOnSet(dev, S) /\ total = SumFunctionOnSet(buf, S)
    BY DEF variance, total, dev, S
  <2>5. Cardinality(S) = n
    BY <1>1
  <2>6. variance = (n * n) * Q + (-(2 * n * total)) * total + (total * total) * n
    BY <2>3, <2>4, <2>5 DEF a, b, c
  <2>7. \A x, y, z \in Int :
           (x * x) * y + (-(2 * x * z)) * z + (z * z) * x = x * x * y - x * z * z
    OBVIOUS
  <2>8. n \in Int
    BY <1>1
  <2> HIDE DEF Q
  <2> QED
    BY <1>6, <2>7, <2>6, <2>8
<1> QED
  BY <1>4, <1>5, <1>7 DEF MomentsOfTheLatest

(* mean() and variance() are those of the latest pushes, whatever the      *)
(* capacity, the gaps and the number of times the ring has wrapped.        *)
THEOREM MomentsAreRight == Spec => []MomentsOfTheLatest
<1>1. Init => WindowOK /\ SumsAgree
  <2> SUFFICES ASSUME Init PROVE WindowOK /\ SumsAgree
    OBVIOUS
  <2>1. WindowOK
    BY SlidingWindowAssumption DEF Init, WindowOK, ValidPrefix, HoldsTheLatest, LatestIndices
  <2>2. 0..n - 1 = {} /\ LatestIndices = {}
    BY DEF Init, LatestIndices
  <2>3. \A f : SumFunctionOnSet(f, {}) = 0
    BY SumUnfolds, FS_EmptySet
  <2> QED
    BY <2>1, <2>2, <2>3 DEF SumsAgree, RingSum, LatestSum
<1>2. (WindowOK /\ SumsAgree) /\ [Next]_vars => (WindowOK /\ SumsAgree)'
  BY WindowStep, SumsStep
<1> QED
  BY <1>1, <1>2, MomentsFromSums, PTL DEF Spec

----------------------------------------------------------------------------
(* What phi makes of it.                                                   *)

(* A sum is at least as large as its terms make it.                        *)
LEMMA SumAtLeast ==
  ASSUME NEW S, IsFiniteSet(S), NEW low \in Int, NEW f, \A i \in S : f[i] \in Int /\ low <= f[i]
  PROVE  low * Cardinality(S) <= SumFunctionOnSet(f, S)
<1> DEFINE F(s) == SumFunctionOnSet(f, s)
           T == {s \in SUBSET S : ~(low * Cardinality(s) <= F(s))}
<1>1. F({}) = 0 /\ Cardinality({}) = 0
  BY SumUnfolds, FS_EmptySet
<1>2. ASSUME NEW s \in SUBSET S, NEW x \in s
      PROVE  /\ F(s) = f[x] + F(s \ {x}) /\ F(s \ {x}) \in Int
             /\ Cardinality(s) = Cardinality(s \ {x}) + 1 /\ Cardinality(s \ {x}) \in Nat
  <2>1. IsFiniteSet(s) /\ IsFiniteSet(s \ {x})
    BY FS_Subset
  <2>2. F(s) = f[x] + F(s \ {x}) /\ F(s \ {x}) \in Int
    BY <2>1, SumRemove
  <2>3. Cardinality(s \ {x}) = Cardinality(s) - 1
    BY <2>1, FS_RemoveElement
  <2>4. Cardinality(s) \in Nat /\ Cardinality(s \ {x}) \in Nat
    BY <2>1, FS_CardinalityType
  <2> HIDE DEF F
  <2> QED
    BY <2>2, <2>3, <2>4
<1> HIDE DEF F
<1> SUFFICES ASSUME T # {} PROVE FALSE
  BY DEF F
<1>3. PICK U \in T : \A V \in T : ~(V \subseteq U /\ V # U)
  <2>1. T \subseteq SUBSET S
    OBVIOUS
  <2> HIDE DEF T
  <2> QED
    BY <2>1, LeastSubset
<1>4. U # {}
  <2>1. low * Cardinality({}) <= F({})
    BY <1>1
  <2> QED
    BY <1>3, <2>1
<1>5. PICK x \in U : TRUE
  BY <1>4
<1> DEFINE W == U \ {x}
<1>6. low * Cardinality(W) <= F(W)
  BY <1>3, <1>5
<1>7. /\ F(U) = f[x] + F(W) /\ F(W) \in Int /\ f[x] \in Int /\ low <= f[x]
      /\ Cardinality(U) = Cardinality(W) + 1 /\ Cardinality(W) \in Nat
  BY <1>2, <1>3, <1>5
<1> HIDE DEF W
<1>8. low * Cardinality(U) <= F(U)
  BY <1>6, <1>7
<1> QED
  BY <1>3, <1>8

(* The larger of two numbers that are not negative has the larger square.  *)
LEMMA SquareGrows ==
  ASSUME NEW a \in Int, NEW b \in Int, 0 <= a, a <= b
  PROVE  square(a) <= square(b) /\ square(a) \in Int /\ square(b) \in Int /\ 0 <= square(a)
<1>1. a * a <= a * b /\ a * b <= b * b
  OBVIOUS
<1> QED
  BY <1>1 DEF square

(* The moments are numbers, and the floored spread is one of at least the  *)
(* floor.                                                                  *)
LEMMA SpreadIsFloored ==
  ASSUME WindowOK
  PROVE  /\ n \in Nat /\ total \in Int /\ 0 <= total /\ spread \in Int
         /\ n * n * n * square(minStdDev) <= spread /\ 0 <= spread
<1> USE SlidingWindowAssumption
<1> DEFINE S   == 0..n - 1
           dev == [i \in DOMAIN buf |-> square(n * buf[i] - total)]
<1>1. n \in Nat /\ IsFiniteSet(S) /\ S \subseteq DOMAIN buf /\ \A i \in S : buf[i] \in Int /\ 0 <= buf[i]
  <2>1. n \in 0..capacity /\ buf \in [0..capacity - 1 -> Nat]
    BY DEF WindowOK, ValidPrefix
  <2>2. IsFiniteSet(S)
    <3>1. 0 \in Int /\ n - 1 \in Int /\ S \subseteq 0..n - 1
      BY <2>1
    <3> HIDE DEF S
    <3> QED
      BY <3>1, StretchIsFinite
  <2>3. S \subseteq DOMAIN buf /\ \A i \in S : buf[i] \in Nat
    BY <2>1
  <2> HIDE DEF S
  <2> QED
    BY <2>1, <2>2, <2>3
<1>2. Cardinality(S) \in Nat
  BY <1>1, FS_CardinalityType
<1>3. total \in Int /\ 0 <= total
  <2>1. total = SumFunctionOnSet(buf, S)
    BY DEF total
  <2> HIDE DEF S
  <2>2. SumFunctionOnSet(buf, S) \in Int
    BY <1>1, SumRemove
  <2>3. 0 * Cardinality(S) <= SumFunctionOnSet(buf, S)
    BY <1>1, SumAtLeast
  <2> QED
    BY <1>2, <2>1, <2>2, <2>3
<1>4. \A x \in Int : square(x) \in Int /\ 0 <= square(x)
  BY DEF square
<1>5. variance \in Int
  <2>1. \A i \in S : dev[i] \in Int
    BY <1>1, <1>3, <1>4
  <2>2. variance = SumFunctionOnSet(dev, S)
    BY DEF variance
  <2> HIDE DEF S, dev
  <2> QED
    BY <1>1, <2>1, <2>2, SumRemove
<1> DEFINE least == n * n * n * square(minStdDev)
<1>6. least \in Int /\ 0 <= least
  <2>1. \A x, y \in Nat : x * y \in Nat
    OBVIOUS
  <2>2. square(minStdDev) \in Nat
    BY <2>1 DEF square
  <2>3. n * n * n \in Nat
    BY <1>1, <2>1
  <2> QED
    BY <2>1, <2>2, <2>3
<1>7. spread = IF variance < least THEN least ELSE variance
  BY DEF spread
<1> HIDE DEF least
<1>8. spread \in Int /\ least <= spread /\ 0 <= spread
  BY <1>5, <1>6, <1>7
<1> QED
  BY <1>1, <1>3, <1>8 DEF least

(* Scaling keeps order and sign.                                           *)
LEMMA ScaledIsOrdered ==
  ASSUME NEW k \in Nat, k > 0
  PROVE  /\ \A x, y \in Int : x <= y => k * x <= k * y
         /\ \A x \in Int : k * x \in Int /\ (k * x > 0 <=> x > 0)
  OBVIOUS

(* The longer the silence, the further above the mean.                     *)
LEMMA SilenceRaises ==
  ASSUME WindowOK
  PROVE  SilenceOnlyRaises
<1> SUFFICES ASSUME NEW s \in Nat, NEW t \in Nat, s <= t, overdue(s)
             PROVE  overdue(t)
  BY SlidingWindowAssumption DEF SilenceOnlyRaises
<1>1. n \in Nat /\ total \in Int /\ spread \in Int
  BY SpreadIsFloored
<1> DEFINE a == scale * (n * s - total)
           b == scale * (n * t - total)
           K == square(reach) * spread
<1>0. scale \in Nat /\ scale > 0
  BY SlidingWindowAssumption
<1>2. n >= 2 /\ 0 < a /\ n * square(a) > K /\ a \in Int /\ b \in Int
  <2>1. n >= 2 /\ n * square(a) > K /\ n * s - total \in Int /\ n * s - total > 0
    BY <1>1 DEF overdue
  <2>2. n * t - total \in Int
    BY <1>1
  <2> QED
    BY <1>0, <2>1, <2>2, ScaledIsOrdered
<1>3. a <= b
  <2>1. n * s <= n * t
    BY <1>1
  <2>2. n * s - total <= n * t - total /\ n * s - total \in Int /\ n * t - total \in Int
    BY <1>1, <2>1
  <2> QED
    BY <1>0, <2>2, ScaledIsOrdered
<1>4. K \in Int
  BY <1>1, SlidingWindowAssumption DEF square
<1> HIDE DEF a, b, K
<1>5. square(a) <= square(b) /\ square(a) \in Int /\ square(b) \in Int
  BY <1>2, <1>3, SquareGrows
<1>6. n * square(a) <= n * square(b)
  BY <1>1, <1>5
<1>7. n * square(a) \in Int /\ n * square(b) \in Int
  BY <1>1, <1>5
<1>8. 0 < b /\ n * square(b) > K
  BY <1>2, <1>3, <1>4, <1>6, <1>7
<1>9. n * t > total
  <2>1. n * t - total \in Int
    BY <1>1
  <2>2. n * t - total > 0
    BY <1>0, <1>8, <2>1, ScaledIsOrdered DEF b
  <2> QED
    BY <1>1, <2>2
<1> QED
  BY <1>2, <1>8, <1>9 DEF overdue, b, K

(* A silence within the floor of the shortest gap is within it of the mean.*)
LEMMA JitterIsWithin ==
  ASSUME WindowOK, MomentsOfTheLatest
  PROVE  JitterIsTolerated
<1> USE SlidingWindowAssumption
<1> SUFFICES ASSUME NEW low \in Nat, \A j \in LatestIndices : low <= pushed[j],
                    NEW t \in Nat, scale * t <= scale * low + reach * minStdDev, overdue(t)
             PROVE  FALSE
  BY DEF JitterIsTolerated
<1>1. /\ n \in Nat /\ total \in Int /\ 0 <= total /\ spread \in Int
      /\ n * n * n * square(minStdDev) <= spread
  BY SpreadIsFloored
<1>2. n * low <= total
  <2>1. /\ Len(pushed) \in Nat /\ n <= Len(pushed) /\ LatestIndices \subseteq 1..Len(pushed)
        /\ \A j \in LatestIndices : pushed[j] \in Int /\ low <= pushed[j]
    <3>1. pushed \in Seq(Nat) /\ Len(pushed) \in Nat
      BY DEF WindowOK
    <3>2. n <= Len(pushed)
      BY <3>1 DEF WindowOK, HoldsTheLatest
    <3>3. LatestIndices \subseteq 1..Len(pushed)
      BY <1>1, <3>1, <3>2 DEF LatestIndices
    <3> QED
      BY <3>1, <3>2, <3>3
  <2>2. IsFiniteSet(LatestIndices) /\ Cardinality(LatestIndices) = n
    <3>1. Len(pushed) - n + 1 \in Int /\ Len(pushed) \in Int
      BY <1>1, <2>1
    <3>2. /\ IsFiniteSet(LatestIndices)
          /\ Cardinality(LatestIndices)
               = IF Len(pushed) - n + 1 > Len(pushed) THEN 0
                 ELSE Len(pushed) - (Len(pushed) - n + 1) + 1
      BY <3>1, FS_Interval DEF LatestIndices
    <3> QED
      BY <1>1, <2>1, <3>2
  <2>3. low * Cardinality(LatestIndices) <= SumFunctionOnSet(pushed, LatestIndices)
    <3>1. low \in Int
      OBVIOUS
    <3> QED
      BY <2>1, <2>2, <3>1, SumAtLeast
  <2>4. total = SumFunctionOnSet(pushed, LatestIndices)
    BY DEF MomentsOfTheLatest
  <2> QED
    BY <1>1, <2>2, <2>3, <2>4
<1> DEFINE a == scale * (n * t - total)
           r == reach * minStdDev
           b == n * r
<1>3. n >= 2 /\ 0 < a /\ n * square(a) > square(reach) * spread /\ a \in Int /\ b \in Int /\ r \in Nat
  <2>1. n >= 2 /\ n * square(a) > square(reach) * spread /\ n * t - total \in Int /\ n * t - total > 0
    BY <1>1 DEF overdue
  <2>2. r \in Nat /\ b \in Int
    BY <1>1
  <2> QED
    BY <2>1, <2>2, ScaledIsOrdered
<1>4. a <= b
  <2>1. scale * (n * low) <= scale * total /\ scale * (n * low) \in Int /\ scale * total \in Int
    BY <1>1, <1>2, ScaledIsOrdered
  <2>2. n * (scale * t) <= n * (scale * low + r)
    <3>1. scale * t \in Int /\ scale * low + r \in Int
      BY <1>3
    <3> QED
      BY <1>1, <1>3, <3>1, ScaledIsOrdered
  <2>3. n * (scale * low + r) = scale * (n * low) + n * r
    BY <1>1, <1>3
  <2>4. a = n * (scale * t) - scale * total
    BY <1>1
  <2>5. n * (scale * t) \in Int
    BY <1>1
  <2> HIDE DEF a, r
  <2> QED
    BY <1>3, <2>1, <2>2, <2>3, <2>4, <2>5
<1>5. square(a) <= square(b) /\ square(a) \in Int /\ square(b) \in Int
  BY <1>3, <1>4, SquareGrows
<1>6. n * square(a) <= n * square(b)
  <2> HIDE DEF a, b
  <2> QED
    BY <1>1, <1>5
<1>7. n * square(b) = square(reach) * (n * n * n * square(minStdDev))
  <2>1. \A x, y, z \in Int : x * ((x * (y * z)) * (x * (y * z))) = (y * y) * (x * x * x * (z * z))
    OBVIOUS
  <2> QED
    BY <1>1, <2>1 DEF square
<1>8. square(reach) * (n * n * n * square(minStdDev)) <= square(reach) * spread
  <2>1. square(reach) \in Nat /\ n * n * n * square(minStdDev) \in Int
    BY <1>1 DEF square
  <2>2. \A k \in Nat : \A x, y \in Int : x <= y => k * x <= k * y
    OBVIOUS
  <2> QED
    BY <1>1, <2>1, <2>2
<1>9. n * square(a) \in Int /\ n * square(b) \in Int /\ square(reach) * spread \in Int
  <2>1. square(reach) \in Int
    BY DEF square
  <2> HIDE DEF a, b
  <2> QED
    BY <1>1, <1>5, <2>1
<1> HIDE DEF a, b
<1> QED
  BY <1>3, <1>6, <1>7, <1>8, <1>9

(* minStdDevSeconds: "no distribution is a perfect spike", whatever the    *)
(* gaps, the capacity, the floor and the threshold.                        *)
THEOREM JitterIsHarmless == Spec => []JitterIsTolerated
<1>1. Init => WindowOK
  BY SlidingWindowAssumption DEF Init, WindowOK, ValidPrefix, HoldsTheLatest, LatestIndices
<1> QED
  BY <1>1, WindowStep, MomentsAreRight, JitterIsWithin, PTL DEF Spec

(* phi does not fall while a silence lasts: what ControlPlane takes from   *)
(* the formula.                                                            *)
THEOREM SilenceNeverClears == Spec => []SilenceOnlyRaises
<1>1. Init => WindowOK
  BY SlidingWindowAssumption DEF Init, WindowOK, ValidPrefix, HoldsTheLatest, LatestIndices
<1> QED
  BY <1>1, WindowStep, SilenceRaises, PTL DEF Spec

\* past the cold start, a worker that stays silent is overdue some day and
\* from then on: what ControlPlane's MaxSilence stands for
SilenceIsNoticed == n >= 2 => \E s \in Nat : \A t \in Nat : t >= s => overdue(t)

(* However scattered the gaps and however high the threshold, there is a   *)
(* silence that phi does not forgive.                                      *)
THEOREM SilenceTells == Spec => []SilenceIsNoticed
<1>1. Init => WindowOK
  BY SlidingWindowAssumption DEF Init, WindowOK, ValidPrefix, HoldsTheLatest, LatestIndices
<1>2. ASSUME WindowOK, n >= 2
      PROVE  \E s \in Nat : \A t \in Nat : t >= s => overdue(t)
  <2> DEFINE K == square(reach) * spread
             s == total + K + 1
  <2>1. n \in Nat /\ total \in Int /\ 0 <= total /\ spread \in Int /\ 0 <= spread
    BY <1>2, SpreadIsFloored
  <2>2. K \in Nat
    BY <2>1, SlidingWindowAssumption DEF square
  <2> HIDE DEF K
  <2>3. ASSUME NEW t \in Nat, t >= s
        PROVE  overdue(t)
    <3> DEFINE a == scale * (n * t - total)
    <3>1. n * t >= t /\ n * t \in Int
      BY <1>2, <2>1
    <3>2. n * t - total \in Int /\ n * t - total >= K + 1
      BY <2>1, <2>2, <2>3, <3>1
    <3>3. a \in Int /\ a >= K + 1
      <4>1. \A k, x \in Nat : k > 0 => k * x >= x /\ k * x \in Int
        OBVIOUS
      <4> QED
        BY <2>2, <3>2, <4>1, SlidingWindowAssumption
    <3> HIDE DEF a
    <3>4. a * a >= a
      BY <2>2, <3>3
    <3>5. n * (a * a) >= a * a
      BY <1>2, <2>1, <3>3
    <3>6. n * square(a) > K /\ a > 0
      <4>1. n * (a * a) \in Int /\ a * a \in Int
        BY <2>1, <3>3
      <4> QED
        BY <2>2, <3>3, <3>4, <3>5, <4>1 DEF square
    <3>7. n * t > total
      BY <2>1, <2>2, <3>1, <3>2
    <3> QED
      BY <1>2, <3>6, <3>7 DEF overdue, a, K
  <2>4. s \in Nat
    BY <2>1, <2>2
  <2> QED
    BY <2>3, <2>4
<1>3. WindowOK => SilenceIsNoticed
  BY <1>2 DEF SilenceIsNoticed
<1> QED
  BY <1>1, <1>3, WindowStep, PTL DEF Spec

=============================================================================

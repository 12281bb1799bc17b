---------------------------- MODULE StreamsProofs ----------------------------
(***************************************************************************)
(* The invariants of Streams, for every number of streams, every window    *)
(* and every amount of data.                                               *)
(*                                                                         *)
(* The connection's window counts what all streams receive, so the model   *)
(* adds up over streams with a fold.  The first part proves what is needed *)
(* of such a sum; it takes the place of an induction over the streams.     *)
(***************************************************************************)
EXTENDS Streams, FiniteSetTheorems, WellFoundedInduction, TLAPS

-----------------------------------------------------------------------------
(* Folds over a finite set. *)

\* The element a fold takes out of a set next.
Taking(s) == CHOOSE x \in s : TRUE

\* The value of a fold on the subsets of S of at most n elements.
FoldsUpTo(g, S, V, base, step, n) ==
  /\ g \in [SUBSET S -> V]
  /\ \A s \in SUBSET S : Cardinality(s) <= n =>
       g[s] = IF s = {} THEN base ELSE step[<<Taking(s), g[s \ {Taking(s)}]>>]

\* The values of a fold on all subsets of S.
Folds(g, S, V, base, step) ==
  /\ g \in [SUBSET S -> V]
  /\ \A s \in SUBSET S : g[s] = IF s = {} THEN base ELSE step[<<Taking(s), g[s \ {Taking(s)}]>>]

\* There is one, whatever a step does.
LEMMA FoldExists ==
  ASSUME NEW S, IsFiniteSet(S), NEW V, NEW base \in V, NEW step \in [S \X V -> V]
  PROVE  \E g : Folds(g, S, V, base, step)
<1> DEFINE Good(n) == \E g : FoldsUpTo(g, S, V, base, step, n)
           bad == {n \in Nat : ~Good(n)}
<1>1. \A s \in SUBSET S : IsFiniteSet(s) /\ Cardinality(s) \in Nat /\ Cardinality(s) <= Cardinality(S)
                          /\ (s # {} => Taking(s) \in s)
  <2> TAKE s \in SUBSET S
  <2>1. IsFiniteSet(s) /\ Cardinality(s) \in Nat /\ Cardinality(s) <= Cardinality(S)
    BY FS_Subset, FS_CardinalityType
  <2>2. s # {} => Taking(s) \in s
    BY DEF Taking
  <2> QED BY <2>1, <2>2
<1>2. \A s \in SUBSET S : s # {} => Cardinality(s \ {Taking(s)}) = Cardinality(s) - 1
  BY <1>1, FS_RemoveElement
<1>3. \A s \in SUBSET S : Cardinality(s) = 0 <=> s = {}
  BY <1>1, FS_EmptySet
<1>4. Good(0)
  <2> DEFINE g == [s \in SUBSET S |-> base]
  <2>1. g \in [SUBSET S -> V] /\ g[{}] = base
    OBVIOUS
  <2>2. \A s \in SUBSET S : Cardinality(s) <= 0 => s = {}
    BY <1>1, <1>3
  <2> HIDE DEF g
  <2>3. FoldsUpTo(g, S, V, base, step, 0)
    BY <2>1, <2>2 DEF FoldsUpTo
  <2> QED BY <2>3
<1>5. ASSUME NEW n \in Nat, Good(n) PROVE Good(n + 1)
  <2>1. PICK g : FoldsUpTo(g, S, V, base, step, n)
    BY <1>5
  <2>2. g \in [SUBSET S -> V]
    BY <2>1 DEF FoldsUpTo
  <2> DEFINE h == [s \in SUBSET S |-> IF s = {} THEN base ELSE step[<<Taking(s), g[s \ {Taking(s)}]>>]]
  <2>3. h \in [SUBSET S -> V]
    <3>1. ASSUME NEW s \in SUBSET S, s # {}
          PROVE  step[<<Taking(s), g[s \ {Taking(s)}]>>] \in V
      <4>1. Taking(s) \in S /\ g[s \ {Taking(s)}] \in V
        BY <1>1, <2>2, <3>1
      <4> QED BY <4>1
    <3> QED BY <3>1
  <2>4. \A s \in SUBSET S : h[s] = IF s = {} THEN base ELSE step[<<Taking(s), g[s \ {Taking(s)}]>>]
    OBVIOUS
  <2> HIDE DEF h
  <2>5. \A s \in SUBSET S : Cardinality(s) <= n => h[s] = g[s]
    BY <2>1, <2>4 DEF FoldsUpTo
  <2>6. ASSUME NEW s \in SUBSET S, Cardinality(s) <= n + 1, s # {}
        PROVE  h[s \ {Taking(s)}] = g[s \ {Taking(s)}]
    <3>1. s \ {Taking(s)} \in SUBSET S /\ Cardinality(s \ {Taking(s)}) <= n
      BY <1>1, <1>2, <2>6
    <3> QED BY <2>5, <3>1
  <2>7. FoldsUpTo(h, S, V, base, step, n + 1)
    BY <2>3, <2>4, <2>6 DEF FoldsUpTo
  <2> QED BY <2>7
<1>6. bad = {}
  <2> SUFFICES ASSUME bad # {} PROVE FALSE
    OBVIOUS
  <2>1. PICK m \in bad : \A k \in bad : ~ (<<k, m>> \in OpToRel(<, Nat))
    <3> HIDE DEF Good
    <3>1. bad \subseteq Nat
      OBVIOUS
    <3> HIDE DEF bad
    <3> QED BY <3>1, NatLessThanWellFounded, WFMin
  <2> HIDE DEF Good
  <2>2. m \in Nat /\ ~Good(m) /\ m # 0
    BY <1>4, <2>1
  <2>3. m - 1 \in Nat /\ m - 1 < m
    BY <2>2
  <2>4. <<m - 1, m>> \in OpToRel(<, Nat)
    BY <2>2, <2>3 DEF OpToRel
  <2>5. Good(m - 1)
    BY <2>1, <2>3, <2>4
  <2>6. Good((m - 1) + 1)
    BY <1>5, <2>3, <2>5
  <2>7. (m - 1) + 1 = m
    BY <2>2
  <2> QED BY <2>2, <2>6, <2>7
<1>7. Good(Cardinality(S))
  <2> HIDE DEF Good
  <2> QED BY <1>6, FS_CardinalityType
<1> QED BY <1>1, <1>7 DEF FoldsUpTo, Folds

\* The subsets of a finite set are well founded.
LEMMA SubsetsWellFounded ==
  ASSUME NEW S, IsFiniteSet(S)
  PROVE  IsWellFoundedOn(StrictSubsetOrdering(S), SUBSET S)
<1>1. FiniteSubsetsOf(S) = SUBSET S
  BY FS_FiniteSubsetsOfFinite
<1> QED BY <1>1, FS_StrictSubsetOrderingWellFounded

\* Induction along a fold: what holds of the empty set, and of a set if it holds without
\* the element taken next, holds of every subset of a finite set.
LEMMA FoldInduction ==
  ASSUME NEW S, IsFiniteSet(S), NEW good \in SUBSET SUBSET S, {} \in good,
         \A s \in SUBSET S : s # {} /\ s \ {Taking(s)} \in good => s \in good
  PROVE  good = SUBSET S
<1> DEFINE bad == (SUBSET S) \ good
<1> SUFFICES ASSUME bad # {} PROVE FALSE
  OBVIOUS
<1>1. IsWellFoundedOn(StrictSubsetOrdering(S), SUBSET S)
  BY SubsetsWellFounded
<1>2. PICK s \in bad : \A t \in bad : ~ (<<t, s>> \in StrictSubsetOrdering(S))
  <2>1. bad \subseteq SUBSET S
    OBVIOUS
  <2> HIDE DEF bad
  <2> QED BY <1>1, <2>1, WFMin
<1>3. s # {} /\ Taking(s) \in s
  BY DEF Taking
<1>4. s \ {Taking(s)} \in SUBSET S /\ s \ {Taking(s)} \subseteq s /\ s \ {Taking(s)} # s
  BY <1>3
<1>5. <<s \ {Taking(s)}, s>> \in StrictSubsetOrdering(S)
  BY <1>4 DEF StrictSubsetOrdering
<1>6. s \ {Taking(s)} \in good
  BY <1>2, <1>4, <1>5
<1> QED BY <1>3, <1>6

\* A sum over a finite set, one element after the other.
Sums(g, f, S) ==
  /\ g \in [SUBSET S -> Int]
  /\ \A s \in SUBSET S : g[s] = IF s = {} THEN 0 ELSE f[Taking(s)] + g[s \ {Taking(s)}]

\* FoldFunction adds up as Sums says.
LEMMA SumUnfolds ==
  ASSUME NEW S, IsFiniteSet(S), NEW f \in [S -> Int]
  PROVE  \E g : Sums(g, f, S) /\ Sum(f) = g[S]
<1> DEFINE step == [p \in S \X Int |-> f[p[1]] + p[2]]
           Rec(g) == [s \in SUBSET S |-> IF s = {} THEN 0 ELSE f[Taking(s)] + g[s \ {Taking(s)}]]
           it == CHOOSE g : g = Rec(g)
<1>1. PICK g : Folds(g, S, Int, 0, step)
  <2>1. step \in [S \X Int -> Int] /\ 0 \in Int
    OBVIOUS
  <2> HIDE DEF step, Rec, it
  <2> QED BY <2>1, FoldExists
<1>2. ASSUME NEW s \in SUBSET S, s # {}
      PROVE  step[<<Taking(s), g[s \ {Taking(s)}]>>] = f[Taking(s)] + g[s \ {Taking(s)}]
  <2>1. Taking(s) \in S /\ g[s \ {Taking(s)}] \in Int
    BY <1>1, <1>2 DEF Taking, Folds
  <2> QED BY <2>1
<1>3. g = Rec(g)
  <2> HIDE DEF step
  <2> QED BY <1>1, <1>2 DEF Folds
<1>4. it = Rec(it)
  BY <1>3
<1>5. Sum(f) = it[S]
  <2>1. DOMAIN f = S
    OBVIOUS
  <2> QED BY <2>1 DEF Sum, FoldFunction, FoldFunctionOnSet, MapThenFoldSet, Taking
<1>6. Sums(g, f, S)
  <2> HIDE DEF step
  <2> QED BY <1>1, <1>2 DEF Sums, Folds
<1> DEFINE same == {s \in SUBSET S : it[s] = g[s]}
<1>7. \A s \in SUBSET S : it[s] = IF s = {} THEN 0 ELSE f[Taking(s)] + it[s \ {Taking(s)}]
  <2> HIDE DEF it
  <2> QED BY <1>4
<1>8. same = SUBSET S
  <2> HIDE DEF it
  <2>1. {} \in same
    BY <1>6, <1>7 DEF Sums
  <2>2. \A s \in SUBSET S : s # {} /\ s \ {Taking(s)} \in same => s \in same
    BY <1>6, <1>7 DEF Sums
  <2>3. same \in SUBSET SUBSET S
    OBVIOUS
  <2> HIDE DEF same
  <2> QED BY <2>1, <2>2, <2>3, FoldInduction
<1>9. it[S] = g[S]
  <2> HIDE DEF it
  <2> QED BY <1>8
<1> QED BY <1>5, <1>6, <1>9

\* Sums of integers are integers; what is not above, element by element, is not above in sum.
LEMMA SumMonotone ==
  ASSUME NEW S, IsFiniteSet(S), NEW f \in [S -> Int], NEW h \in [S -> Int],
         \A x \in S : f[x] <= h[x]
  PROVE  Sum(f) \in Int /\ Sum(h) \in Int /\ Sum(f) <= Sum(h)
<1>1. PICK g : Sums(g, f, S) /\ Sum(f) = g[S]
  BY SumUnfolds
<1>2. PICK k : Sums(k, h, S) /\ Sum(h) = k[S]
  BY SumUnfolds
<1> DEFINE below == {s \in SUBSET S : g[s] <= k[s]}
<1>3. {} \in below
  <2>1. {} \in SUBSET S /\ g[{}] = 0 /\ k[{}] = 0
    BY <1>1, <1>2, {} \in SUBSET S DEF Sums
  <2> QED BY <2>1
<1>4. ASSUME NEW s \in SUBSET S, s # {}, s \ {Taking(s)} \in below
      PROVE  s \in below
  <2>1. Taking(s) \in S
    BY <1>4 DEF Taking
  <2>2. /\ g[s] = f[Taking(s)] + g[s \ {Taking(s)}]
        /\ k[s] = h[Taking(s)] + k[s \ {Taking(s)}]
        /\ g[s \ {Taking(s)}] \in Int /\ k[s \ {Taking(s)}] \in Int
        /\ g[s \ {Taking(s)}] <= k[s \ {Taking(s)}]
    BY <1>1, <1>2, <1>4 DEF Sums
  <2>3. f[Taking(s)] \in Int /\ h[Taking(s)] \in Int /\ f[Taking(s)] <= h[Taking(s)]
    BY <2>1
  <2>4. g[s] <= k[s]
    BY <2>2, <2>3
  <2> QED BY <2>4
<1>5. below = SUBSET S
  <2>1. below \in SUBSET SUBSET S
    OBVIOUS
  <2> HIDE DEF below
  <2> QED BY <1>3, <1>4, <2>1, FoldInduction
<1> QED BY <1>1, <1>2, <1>5 DEF Sums

\* One summand changes by d: so does the sum.
LEMMA SumChange ==
  ASSUME NEW S, IsFiniteSet(S), NEW f \in [S -> Int], NEW h \in [S -> Int],
         NEW y \in S, \A x \in S : x # y => h[x] = f[x]
  PROVE  Sum(f) \in Int /\ Sum(h) \in Int /\ Sum(h) - Sum(f) = h[y] - f[y]
<1>1. PICK g : Sums(g, f, S) /\ Sum(f) = g[S]
  BY SumUnfolds
<1>2. PICK k : Sums(k, h, S) /\ Sum(h) = k[S]
  BY SumUnfolds
<1> DEFINE moved == {s \in SUBSET S : k[s] - g[s] = IF y \in s THEN h[y] - f[y] ELSE 0}
<1>3. {} \in moved
  <2>1. {} \in SUBSET S /\ g[{}] = 0 /\ k[{}] = 0
    BY <1>1, <1>2, {} \in SUBSET S DEF Sums
  <2> QED BY <2>1
<1>4. ASSUME NEW s \in SUBSET S, s # {}, s \ {Taking(s)} \in moved
      PROVE  s \in moved
  <2>1. Taking(s) \in S /\ Taking(s) \in s
    BY <1>4 DEF Taking
  <2>2. /\ g[s] = f[Taking(s)] + g[s \ {Taking(s)}]
        /\ k[s] = h[Taking(s)] + k[s \ {Taking(s)}]
        /\ g[s \ {Taking(s)}] \in Int /\ k[s \ {Taking(s)}] \in Int
        /\ k[s \ {Taking(s)}] - g[s \ {Taking(s)}] =
             IF y \in s \ {Taking(s)} THEN h[y] - f[y] ELSE 0
    BY <1>1, <1>2, <1>4 DEF Sums
  <2>3. /\ f[Taking(s)] \in Int /\ h[Taking(s)] \in Int /\ f[y] \in Int /\ h[y] \in Int
        /\ Taking(s) # y => h[Taking(s)] = f[Taking(s)]
    BY <2>1
  <2>4. k[s] - g[s] = IF y \in s THEN h[y] - f[y] ELSE 0
    <3>1. CASE Taking(s) = y
      BY <2>1, <2>2, <2>3, <3>1
    <3>2. CASE Taking(s) # y
      BY <2>1, <2>2, <2>3, <3>2
    <3> QED BY <3>1, <3>2
  <2> QED BY <2>4
<1>5. moved = SUBSET S
  <2>1. moved \in SUBSET SUBSET S
    OBVIOUS
  <2> HIDE DEF moved
  <2> QED BY <1>3, <1>4, <2>1, FoldInduction
<1> QED BY <1>1, <1>2, <1>5 DEF Sums
-----------------------------------------------------------------------------
(* The flow controllers. *)

\* The increments of a configuration do not exceed their maximum.
LEMMA ControllerFields ==
  ASSUME NEW c \in FlowControllers
  PROVE  /\ c.bytesRead \in Nat /\ c.highestReceived \in Nat /\ c.receiveWindow \in Nat
         /\ c.receiveWindowIncrement \in Nat /\ c.maxReceiveWindowIncrement \in Nat
BY DEF FlowControllers

\* A frame's offset raises highestReceived, and the connection's by as much.
LEMMA ReceiveFacts ==
  ASSUME NEW c \in FlowControllers, NEW byteOffset \in Nat
  PROVE  LET u == UpdateHighestReceived(c, byteOffset) IN
         /\ u \in FlowControllers
         /\ u.bytesRead = c.bytesRead /\ u.receiveWindow = c.receiveWindow
         /\ u.receiveWindowIncrement = c.receiveWindowIncrement
         /\ u.maxReceiveWindowIncrement = c.maxReceiveWindowIncrement
         /\ u.highestReceived = c.highestReceived + Increment(c, byteOffset)
         /\ u.highestReceived \in {c.highestReceived, byteOffset}
         /\ Increment(c, byteOffset) \in Nat
<1>1. UpdateHighestReceived(c, byteOffset) =
        [c EXCEPT !.highestReceived = IF byteOffset > c.highestReceived THEN byteOffset ELSE c.highestReceived]
  BY DEF UpdateHighestReceived
<1>2. (IF byteOffset > c.highestReceived THEN byteOffset ELSE c.highestReceived) \in Nat
  BY ControllerFields
<1> QED BY <1>1, <1>2, ControllerFields DEF FlowControllers, Increment

\* The connection's controller is told how much a stream's has grown.
LEMMA IncrementFacts ==
  ASSUME NEW c \in FlowControllers, NEW n \in Nat
  PROVE  LET u == IncrementHighestReceived(c, n) IN
         /\ u \in FlowControllers
         /\ u.bytesRead = c.bytesRead /\ u.receiveWindow = c.receiveWindow
         /\ u.receiveWindowIncrement = c.receiveWindowIncrement
         /\ u.maxReceiveWindowIncrement = c.maxReceiveWindowIncrement
         /\ u.highestReceived = c.highestReceived + n
BY ControllerFields DEF FlowControllers, IncrementHighestReceived

\* What Read takes moves bytesRead alone.
LEMMA AddBytesReadFacts ==
  ASSUME NEW c \in FlowControllers, NEW n \in Nat
  PROVE  LET u == AddBytesRead(c, n) IN
         /\ u \in FlowControllers
         /\ u.bytesRead = c.bytesRead + n /\ u.receiveWindow = c.receiveWindow
         /\ u.receiveWindowIncrement = c.receiveWindowIncrement
         /\ u.maxReceiveWindowIncrement = c.maxReceiveWindowIncrement
         /\ u.highestReceived = c.highestReceived
BY ControllerFields DEF FlowControllers, AddBytesRead

\* A window never shrinks while its increment is within the maximum.
LEMMA UpdateFacts ==
  ASSUME NEW c \in FlowControllers, NEW fast \in BOOLEAN
  PROVE  LET u == MaybeUpdateWindow(c, fast) IN
         /\ u \in FlowControllers
         /\ u.bytesRead = c.bytesRead /\ u.highestReceived = c.highestReceived
         /\ u.maxReceiveWindowIncrement = c.maxReceiveWindowIncrement
         /\ c.receiveWindowIncrement <= c.maxReceiveWindowIncrement =>
              /\ u.receiveWindowIncrement <= u.maxReceiveWindowIncrement
              /\ c.receiveWindow <= u.receiveWindow
<1> DEFINE increment == IF fast THEN Least(2 * c.receiveWindowIncrement, c.maxReceiveWindowIncrement)
                        ELSE c.receiveWindowIncrement
           v == [c EXCEPT !.receiveWindowIncrement = increment, !.receiveWindow = c.bytesRead + increment]
<1>1. /\ c.bytesRead \in Nat /\ c.highestReceived \in Nat /\ c.receiveWindow \in Nat
      /\ c.receiveWindowIncrement \in Nat /\ c.maxReceiveWindowIncrement \in Nat
  BY ControllerFields
<1>2. increment \in Nat
  BY <1>1 DEF Least
<1>3. c.receiveWindowIncrement <= c.maxReceiveWindowIncrement =>
        c.receiveWindowIncrement <= increment /\ increment <= c.maxReceiveWindowIncrement
  BY <1>1 DEF Least
<1>4. NeedsUpdate(c) /\ c.receiveWindowIncrement <= c.maxReceiveWindowIncrement =>
        c.receiveWindow <= c.bytesRead + increment
  <2> HIDE DEF increment
  <2> QED BY <1>1, <1>2, <1>3 DEF NeedsUpdate
<1>5. MaybeUpdateWindow(c, fast) = IF ~NeedsUpdate(c) THEN c ELSE v
  BY DEF MaybeUpdateWindow
<1> HIDE DEF increment
<1>6. /\ v \in FlowControllers
      /\ v.bytesRead = c.bytesRead /\ v.highestReceived = c.highestReceived
      /\ v.maxReceiveWindowIncrement = c.maxReceiveWindowIncrement
      /\ v.receiveWindowIncrement = increment /\ v.receiveWindow = c.bytesRead + increment
  <2> DEFINE w == [c EXCEPT !.receiveWindowIncrement = increment]
  <2>1. v = [w EXCEPT !.receiveWindow = c.bytesRead + increment]
    OBVIOUS
  <2>2. /\ w \in FlowControllers
        /\ w.bytesRead = c.bytesRead /\ w.highestReceived = c.highestReceived
        /\ w.maxReceiveWindowIncrement = c.maxReceiveWindowIncrement
        /\ w.receiveWindowIncrement = increment
    BY <1>1, <1>2 DEF FlowControllers
  <2>3. c.bytesRead + increment \in Nat
    BY <1>1, <1>2
  <2> HIDE DEF v, w
  <2> QED BY <2>1, <2>2, <2>3 DEF FlowControllers
<1> HIDE DEF v
<1> QED BY <1>1, <1>3, <1>4, <1>5, <1>6

\* A stream takes the connection's increment along, not its window.
LEMMA EnsureFacts ==
  ASSUME NEW c \in FlowControllers, NEW inc \in Nat
  PROVE  LET u == EnsureMinimumWindowIncrement(c, inc) IN
         /\ u \in FlowControllers
         /\ u.bytesRead = c.bytesRead /\ u.highestReceived = c.highestReceived
         /\ u.receiveWindow = c.receiveWindow
         /\ u.maxReceiveWindowIncrement = c.maxReceiveWindowIncrement
         /\ c.receiveWindowIncrement <= c.maxReceiveWindowIncrement =>
              u.receiveWindowIncrement <= u.maxReceiveWindowIncrement
<1> DEFINE minimum == (inc * ConnectionFlowControlMultiplier) \div 100
           least == Least(minimum, c.maxReceiveWindowIncrement)
           v == [c EXCEPT !.receiveWindowIncrement = least]
<1>1. /\ c.bytesRead \in Nat /\ c.highestReceived \in Nat /\ c.receiveWindow \in Nat
      /\ c.receiveWindowIncrement \in Nat /\ c.maxReceiveWindowIncrement \in Nat
  BY ControllerFields
<1>2. minimum \in Nat
  <2>1. inc * ConnectionFlowControlMultiplier \in Nat
    BY MultiplierAssumption
  <2> DEFINE product == inc * ConnectionFlowControlMultiplier
  <2>2. product \in Nat
    BY <2>1
  <2> HIDE DEF product
  <2>3. product \div 100 \in Nat
    BY <2>2
  <2> QED BY <2>3 DEF product
<1> HIDE DEF minimum
<1>3. least \in Nat /\ least <= c.maxReceiveWindowIncrement
  BY <1>1, <1>2 DEF Least
<1>4. EnsureMinimumWindowIncrement(c, inc) = IF minimum > c.receiveWindowIncrement THEN v ELSE c
  BY DEF EnsureMinimumWindowIncrement, minimum
<1> HIDE DEF least
<1>5. /\ v \in FlowControllers
      /\ v.bytesRead = c.bytesRead /\ v.highestReceived = c.highestReceived
      /\ v.receiveWindow = c.receiveWindow
      /\ v.maxReceiveWindowIncrement = c.maxReceiveWindowIncrement
      /\ v.receiveWindowIncrement = least
  BY <1>1, <1>3 DEF FlowControllers
<1> HIDE DEF v
<1> QED BY <1>1, <1>3, <1>4, <1>5

\* There are finitely many streams.
LEMMA StreamsFinite == IsFiniteSet(StreamIDs) /\ \A S \in SUBSET StreamIDs : IsFiniteSet(S)
<1>1. NumStreams \in Int
  BY StreamsAssumption
<1>2. IsFiniteSet(StreamIDs)
  BY <1>1, FS_Interval DEF StreamIDs
<1> QED BY <1>2, FS_Subset

\* The connection's controller after the windows of the growing streams: only its increment
\* has changed.
LEMMA GrownFacts ==
  ASSUME NEW c \in FlowControllers, NEW updated \in [StreamIDs -> FlowControllers],
         NEW growing \in SUBSET StreamIDs
  PROVE  LET grown == FoldFunctionOnSet(
                        LAMBDA x, acc : EnsureMinimumWindowIncrement(acc, x.receiveWindowIncrement),
                        c, updated, growing) IN
         /\ grown \in FlowControllers
         /\ grown.bytesRead = c.bytesRead /\ grown.highestReceived = c.highestReceived
         /\ grown.receiveWindow = c.receiveWindow
         /\ grown.maxReceiveWindowIncrement = c.maxReceiveWindowIncrement
         /\ c.receiveWindowIncrement <= c.maxReceiveWindowIncrement =>
              grown.receiveWindowIncrement <= grown.maxReceiveWindowIncrement
<1> DEFINE V == {u \in FlowControllers :
                   /\ u.bytesRead = c.bytesRead /\ u.highestReceived = c.highestReceived
                   /\ u.receiveWindow = c.receiveWindow
                   /\ u.maxReceiveWindowIncrement = c.maxReceiveWindowIncrement
                   /\ c.receiveWindowIncrement <= c.maxReceiveWindowIncrement =>
                        u.receiveWindowIncrement <= u.maxReceiveWindowIncrement}
           one(x, acc) == EnsureMinimumWindowIncrement(acc, updated[x].receiveWindowIncrement)
           step == [p \in growing \X V |-> one(p[1], p[2])]
           Rec(g) == [s \in SUBSET growing |-> IF s = {} THEN c ELSE one(Taking(s), g[s \ {Taking(s)}])]
           it == CHOOSE g : g = Rec(g)
<1>1. IsFiniteSet(growing)
  BY StreamsFinite
<1>2. ASSUME NEW x \in growing, NEW acc \in V PROVE one(x, acc) \in V
  <2>1. updated[x].receiveWindowIncrement \in Nat
    BY ControllerFields
  <2> QED BY <2>1, EnsureFacts
<1>3. c \in V
  OBVIOUS
<1> HIDE DEF V, one
<1>4. PICK g : Folds(g, growing, V, c, step)
  <2>1. step \in [growing \X V -> V]
    BY <1>2
  <2> HIDE DEF step, Rec, it
  <2> QED BY <1>1, <1>3, <2>1, FoldExists
<1>5. ASSUME NEW s \in SUBSET growing, s # {}
      PROVE  step[<<Taking(s), g[s \ {Taking(s)}]>>] = one(Taking(s), g[s \ {Taking(s)}])
  <2>1. Taking(s) \in growing /\ g[s \ {Taking(s)}] \in V
    BY <1>4, <1>5 DEF Taking, Folds
  <2> QED BY <2>1
<1>6. g = Rec(g)
  <2> HIDE DEF step
  <2> QED BY <1>4, <1>5 DEF Folds
<1>7. it = Rec(it)
  <2> HIDE DEF step
  <2> QED BY <1>6
<1> HIDE DEF step
<1>8. \A s \in SUBSET growing : it[s] = IF s = {} THEN c ELSE one(Taking(s), it[s \ {Taking(s)}])
  <2> HIDE DEF it
  <2> QED BY <1>7
<1> DEFINE same == {s \in SUBSET growing : it[s] = g[s]}
<1>9. same = SUBSET growing
  <2> HIDE DEF it
  <2>1. \A s \in SUBSET growing : g[s] = IF s = {} THEN c ELSE one(Taking(s), g[s \ {Taking(s)}])
    BY <1>4, <1>5 DEF Folds
  <2>2. {} \in same
    BY <1>8, <2>1
  <2>3. \A s \in SUBSET growing : s # {} /\ s \ {Taking(s)} \in same => s \in same
    BY <1>8, <2>1
  <2>4. same \in SUBSET SUBSET growing
    OBVIOUS
  <2> HIDE DEF same
  <2> QED BY <1>1, <2>2, <2>3, <2>4, FoldInduction
<1>10. FoldFunctionOnSet(LAMBDA x, acc : EnsureMinimumWindowIncrement(acc, x.receiveWindowIncrement),
                         c, updated, growing) = it[growing]
  BY DEF FoldFunctionOnSet, MapThenFoldSet, Taking, one
<1>11. it[growing] \in V
  <2> HIDE DEF it
  <2>1. it[growing] = g[growing]
    BY <1>9
  <2> QED BY <1>4, <2>1 DEF Folds
<1> HIDE DEF it
<1> QED BY <1>10, <1>11 DEF V

-----------------------------------------------------------------------------
(* The inductive invariant. *)

Flags == {"resetLocally", "resetRemotely", "cancelled", "finishedReading", "finishedWriting",
          "finSent", "rstSent"}

PeerTypes ==
  /\ peerSent \in [StreamIDs -> Nat]
  /\ peerEnd \in [StreamIDs -> {"none", "fin", "rst"}]
  /\ peerWindow \in [StreamIDs -> Nat]
  /\ peerConnWindow \in Nat

SessionTypes ==
  /\ status \in [StreamIDs -> {"none", "open", "gone"}]
  /\ nextStreamToAccept \in 1..NumStreams + 1
  /\ error \in BOOLEAN /\ closed \in BOOLEAN
  /\ flags \in [StreamIDs -> SUBSET Flags]

ControllerTypes ==
  /\ fc \in [StreamIDs -> FlowControllers]
  /\ conn \in FlowControllers

ReadTypes ==
  /\ received \in [StreamIDs -> SUBSET Nat]
  /\ readOffset \in [StreamIDs -> Nat]
  /\ reader \in [StreamIDs -> {"idle", "wait", "frame"}]
  /\ readChan \in [StreamIDs -> BOOLEAN]

WriteTypes ==
  /\ writer \in [StreamIDs -> {"idle", "wait"}]
  /\ writeChan \in [StreamIDs -> BOOLEAN]
  /\ dataForWriting \in [StreamIDs -> Nat]
  /\ bytesSent \in [StreamIDs -> Nat]
  /\ sendWindow \in [StreamIDs -> Nat]
  /\ connBytesSent \in Nat /\ connSendWindow \in Nat
  /\ popping \in [stream : {0} \cup Writers, len : Nat, max : Nat]

Typing == PeerTypes /\ SessionTypes /\ ControllerTypes /\ ReadTypes /\ WriteTypes

\* The application writes no more than the bound.
WritingBounded ==
  /\ \A s \in StreamIDs : bytesSent[s] + dataForWriting[s] <= MaxWritten
  /\ Sum(peerSent) <= MaxSent

\* What has arrived was sent, and all before the place of Read has arrived.
ArrivedWasSent ==
  \A s \in StreamIDs :
    /\ FIN \in received[s] => peerEnd[s] = "fin"
    /\ \A u \in received[s] : u = FIN \/ u < peerSent[s]
    /\ \A u \in 0..(readOffset[s] - 1) : u \in received[s]

\* Between looking at the frame queue and taking the frame, Read keeps the frame.
FrameStays == \A s \in StreamIDs : reader[s] = "frame" => HasHead(s)

\* A stream is read only while it is there, and not beyond its end; only a stream that ended
\* is gone; the session ends once.
ReadWhileThere ==
  \A s \in StreamIDs :
    /\ reader[s] # "idle" => accepted(s) /\ "finishedReading" \notin flags[s]
    /\ accepted(s) => status[s] # "none"
    /\ "cancelled" \in flags[s] => closed /\ status[s] = "open"
    /\ status[s] = "gone" => flags[s] \cap {"finishedReading", "resetRemotely"} # {}

\* Until the peer resets a stream, its controller counts what Read has taken.
ReadCounted ==
  \A s \in StreamIDs : "resetRemotely" \notin flags[s] => fc[s].bytesRead = readOffset[s]

IInv ==
  /\ Typing
  /\ WritingBounded
  /\ ArrivedWasSent
  /\ FrameStays
  /\ ReadWhileThere
  /\ ReadCounted
  /\ CreditAccounted
  /\ NoLostWakeup

\* The constants are natural numbers.
LEMMA ConstantTypes ==
  /\ NumStreams \in Nat \ {0} /\ Readers \subseteq StreamIDs /\ Writers \subseteq StreamIDs
  /\ MaxIncomingStreams \in Nat /\ SendWindow \in Nat /\ MaxSent \in Nat /\ MaxWritten \in Nat
  /\ ReceiveStreamWindow \in Nat /\ MaxReceiveStreamWindow \in Nat
  /\ ReceiveConnectionWindow \in Nat /\ MaxReceiveConnectionWindow \in Nat
  /\ FIN \in Nat
  /\ 0 \notin StreamIDs
<1>1. /\ NumStreams \in Nat \ {0} /\ Readers \subseteq StreamIDs /\ Writers \subseteq StreamIDs
      /\ MaxIncomingStreams \in Nat /\ SendWindow \in Nat /\ MaxSent \in Nat /\ MaxWritten \in Nat
      /\ ReceiveStreamWindow \in Nat /\ MaxReceiveStreamWindow \in Nat
      /\ ReceiveConnectionWindow \in Nat /\ MaxReceiveConnectionWindow \in Nat
  BY StreamsAssumption, Zenon
<1> QED BY <1>1 DEF FIN, StreamIDs

-----------------------------------------------------------------------------
(* The connection's credit. *)

\* What each stream holds of it, for the controllers cs, the flags fs and the offsets os.
Unread(cs, fs, os) ==
  [s \in StreamIDs |-> cs[s].highestReceived -
                         (IF "resetRemotely" \in fs[s] THEN cs[s].bytesRead ELSE os[s])]

Held == Unread(fc, flags, readOffset)

\* What streams hold is an integer: it is not clear yet that it is not negative.
LEMMA UnreadType ==
  ASSUME NEW cs \in [StreamIDs -> FlowControllers], NEW fs, NEW os \in [StreamIDs -> Nat]
  PROVE  Unread(cs, fs, os) \in [StreamIDs -> Int]
<1>1. ASSUME NEW s \in StreamIDs
      PROVE  cs[s].highestReceived -
               (IF "resetRemotely" \in fs[s] THEN cs[s].bytesRead ELSE os[s]) \in Int
  BY ControllerFields
<1> QED BY <1>1 DEF Unread

\* So it is in the present state.
LEMMA HeldType == Typing => Held \in [StreamIDs -> Int]
BY UnreadType DEF Held, Typing, ControllerTypes, ReadTypes

\* CreditAccounted in these words.
LEMMA CreditIs == CreditAccounted <=> conn.highestReceived - conn.bytesRead = Sum(Held)
BY DEF CreditAccounted, Held, Unread

\* What moves on one stream moves on the connection.
LEMMA CreditMoved ==
  ASSUME Typing, CreditAccounted, Typing', NEW y \in StreamIDs,
         \A s \in StreamIDs : s # y => Held'[s] = Held[s],
         (conn'.highestReceived - conn'.bytesRead) - (conn.highestReceived - conn.bytesRead)
           = Held'[y] - Held[y]
  PROVE  CreditAccounted'
<1>1. Held \in [StreamIDs -> Int]
  BY HeldType
<1>2. Held' \in [StreamIDs -> Int]
  <2>1. fc' \in [StreamIDs -> FlowControllers] /\ readOffset' \in [StreamIDs -> Nat]
    BY DEF Typing, ControllerTypes, ReadTypes
  <2> QED BY <2>1, UnreadType DEF Held
<1>3. conn.highestReceived - conn.bytesRead = Sum(Held)
  BY CreditIs
<1>4. CreditAccounted' <=> conn'.highestReceived - conn'.bytesRead = Sum(Held')
  BY DEF CreditAccounted, Held, Unread
<1>5. PICK g, h : g = Held /\ h = Held'
  OBVIOUS
<1>6. /\ g \in [StreamIDs -> Int] /\ h \in [StreamIDs -> Int]
      /\ \A s \in StreamIDs : s # y => h[s] = g[s]
  BY <1>1, <1>2, <1>5
<1>7. Sum(g) \in Int /\ Sum(h) \in Int /\ Sum(h) - Sum(g) = h[y] - g[y]
  BY <1>6, StreamsFinite, SumChange
<1>8. /\ conn.highestReceived \in Nat /\ conn.bytesRead \in Nat
      /\ conn'.highestReceived \in Nat /\ conn'.bytesRead \in Nat
  BY ControllerFields DEF Typing, ControllerTypes
<1>9. conn.highestReceived - conn.bytesRead = Sum(g)
  BY <1>3, <1>5
<1>10. CreditAccounted' <=> conn'.highestReceived - conn'.bytesRead = Sum(h)
  BY <1>4, <1>5
<1>11. (conn'.highestReceived - conn'.bytesRead) - (conn.highestReceived - conn.bytesRead)
         = h[y] - g[y]
  BY <1>5
<1>12. g[y] \in Int /\ h[y] \in Int
  BY <1>6
<1> QED BY <1>7, <1>8, <1>9, <1>10, <1>11, <1>12

\* A step that moves nothing.
LEMMA CreditKept ==
  ASSUME Typing, CreditAccounted, Typing',
         \A s \in StreamIDs : Held'[s] = Held[s],
         conn'.highestReceived = conn.highestReceived, conn'.bytesRead = conn.bytesRead
  PROVE  CreditAccounted'
<1>1. 1 \in StreamIDs
  BY ConstantTypes DEF StreamIDs
<1>2. conn.highestReceived \in Nat /\ conn.bytesRead \in Nat /\ Held[1] \in Int
  BY <1>1, ControllerFields, HeldType DEF Typing, ControllerTypes
<1>3. (conn'.highestReceived - conn'.bytesRead) - (conn.highestReceived - conn.bytesRead)
           = Held'[1] - Held[1]
  BY <1>1, <1>2
<1> QED BY <1>1, <1>3, CreditMoved

-----------------------------------------------------------------------------
(* The peer. *)

\* What the peer does leaves the session alone.
LEMMA PeerStep ==
  ASSUME IInv, Peer
  PROVE  IInv'
<1>1. /\ Typing /\ WritingBounded /\ ArrivedWasSent /\ FrameStays /\ ReadWhileThere /\ ReadCounted
      /\ CreditAccounted /\ NoLostWakeup
  BY DEF IInv
<1>2. UNCHANGED <<status, nextStreamToAccept, fc, conn, error, closed, flags, received, readOffset,
                  reader, readChan, writer, writeChan, dataForWriting, bytesSent, sendWindow,
                  connBytesSent, connSendWindow, popping>>
  BY DEF Peer, readVars, writeVars
<1>3. /\ PeerTypes'
      /\ \A s \in StreamIDs : \/ peerSent'[s] = peerSent[s] /\ (peerEnd'[s] = peerEnd[s] \/ peerEnd[s] = "none")
                              \/ peerEnd[s] = "none" /\ peerSent'[s] >= peerSent[s]
      /\ Sum(peerSent') <= MaxSent
  <2>0. /\ peerSent \in [StreamIDs -> Nat] /\ peerEnd \in [StreamIDs -> {"none", "fin", "rst"}]
        /\ peerWindow \in [StreamIDs -> Nat] /\ peerConnWindow \in Nat
        /\ fc \in [StreamIDs -> FlowControllers] /\ conn \in FlowControllers
        /\ Sum(peerSent) <= MaxSent
    BY <1>1 DEF Typing, PeerTypes, ControllerTypes, WritingBounded
  <2>1. CASE PeerLearnsConnWindow
    BY <2>0, <2>1, ControllerFields DEF PeerLearnsConnWindow, PeerTypes
  <2>2. ASSUME NEW s \in StreamIDs, PeerSend(s)
        PROVE  <1>3!:
    <3>1. /\ peerEnd[s] = "none" /\ Sum(peerSent) < MaxSent
          /\ peerSent' = [peerSent EXCEPT ![s] = @ + 1]
          /\ UNCHANGED <<peerEnd, peerWindow, peerConnWindow>>
      BY <2>2 DEF PeerSend
    <3>2. peerSent' \in [StreamIDs -> Nat] /\ peerSent'[s] = peerSent[s] + 1
          /\ \A t \in StreamIDs : t # s => peerSent'[t] = peerSent[t]
      BY <2>0, <3>1
    <3>3. Sum(peerSent) \in Int /\ Sum(peerSent') \in Int
          /\ Sum(peerSent') - Sum(peerSent) = peerSent'[s] - peerSent[s]
      <4>1. PICK g, h : g = peerSent /\ h = peerSent'
        OBVIOUS
      <4>2. g \in [StreamIDs -> Int] /\ h \in [StreamIDs -> Int]
            /\ \A t \in StreamIDs : t # s => h[t] = g[t]
        BY <2>0, <3>2, <4>1
      <4> QED BY <4>1, <4>2, StreamsFinite, SumChange
    <3>4. Sum(peerSent') <= MaxSent
      BY <2>0, <3>1, <3>2, <3>3, ConstantTypes
    <3>5. PeerTypes'
      BY <2>0, <3>1, <3>2 DEF PeerTypes
    <3>6. \A t \in StreamIDs : \/ peerSent'[t] = peerSent[t] /\ peerEnd'[t] = peerEnd[t]
                               \/ peerEnd[t] = "none" /\ peerSent'[t] >= peerSent[t]
      BY <2>0, <3>1, <3>2
    <3> QED BY <3>4, <3>5, <3>6
  <2>3. ASSUME NEW s \in StreamIDs, PeerEnds(s)
        PROVE  <1>3!:
    BY <2>0, <2>3 DEF PeerEnds, PeerTypes
  <2>4. ASSUME NEW s \in StreamIDs, PeerLearnsWindow(s)
        PROVE  <1>3!:
    <3>1. fc[s].receiveWindow \in Nat
      BY <2>0, ControllerFields
    <3> QED BY <2>0, <2>4, <3>1 DEF PeerLearnsWindow, PeerTypes
  <2> QED BY <2>1, <2>2, <2>3, <2>4 DEF Peer
<1>4. Typing'
  BY <1>1, <1>2, <1>3 DEF Typing, SessionTypes, ControllerTypes, ReadTypes, WriteTypes
<1>5. WritingBounded'
  BY <1>1, <1>2, <1>3 DEF WritingBounded
<1>6. ArrivedWasSent'
  <2> SUFFICES ASSUME NEW s \in StreamIDs
               PROVE  /\ FIN \in received[s] => peerEnd'[s] = "fin"
                      /\ \A u \in received[s] : u = FIN \/ u < peerSent'[s]
                      /\ \A u \in 0..(readOffset[s] - 1) : u \in received[s]
    BY <1>2 DEF ArrivedWasSent
  <2>1. /\ peerSent[s] \in Nat /\ peerSent'[s] \in Nat /\ received[s] \subseteq Nat
    BY <1>1, <1>3 DEF Typing, PeerTypes, ReadTypes
  <2>2. peerSent'[s] >= peerSent[s] /\ (peerEnd[s] = "fin" => peerEnd'[s] = "fin")
    BY <1>3, <2>1, <1>1, <1>3 DEF Typing, PeerTypes, PeerSend
  <2> QED BY <1>1, <2>1, <2>2 DEF ArrivedWasSent
<1>7. \A s \in StreamIDs : HasHead(s)' <=> HasHead(s)
  BY <1>1, <1>2, <1>3 DEF HasHead, ArrivedWasSent
<1>8. FrameStays' /\ ReadWhileThere' /\ ReadCounted' /\ NoLostWakeup'
  BY <1>1, <1>2, <1>7 DEF FrameStays, ReadWhileThere, ReadCounted, NoLostWakeup, accepted, HasErr
<1>9. CreditAccounted'
  BY <1>1, <1>2 DEF CreditAccounted
<1> QED BY <1>4, <1>5, <1>6, <1>8, <1>9 DEF IInv

-----------------------------------------------------------------------------
(* Writing. *)

\* A blocked Write has a reason to wait.
WriterAwake(s) == writer[s] = "wait" /\ ~writeChan[s] => dataForWriting[s] # 0 /\ ~HasErr(s)

\* A blocked Read has none to return.
ReaderAwake(s) ==
  reader[s] = "wait" /\ ~readChan[s] =>
    /\ ~HasHead(s)
    /\ flags[s] \cap {"resetLocally", "cancelled"} # {} => "resetRemotely" \in flags[s]

\* NoLostWakeup is about readers and writers, which are disturbed by different steps.
LEMMA WakeupHalves == NoLostWakeup <=> \A s \in StreamIDs : ReaderAwake(s) /\ WriterAwake(s)
BY DEF NoLostWakeup, ReaderAwake, WriterAwake

\* A step of the writing side sets no flag the reading side looks at.
LEMMA WriteSideStep ==
  ASSUME IInv,
         UNCHANGED <<peerVars, status, nextStreamToAccept, fc, conn, error, closed, readVars>>,
         flags' \in [StreamIDs -> SUBSET Flags],
         \A s \in StreamIDs : /\ flags[s] \subseteq flags'[s]
                              /\ flags'[s] \subseteq flags[s] \cup {"finSent", "finishedWriting"},
         WriteTypes',
         \A s \in StreamIDs : bytesSent'[s] + dataForWriting'[s] <= MaxWritten,
         \A s \in StreamIDs : WriterAwake(s)'
  PROVE  IInv'
<1>1. /\ Typing /\ WritingBounded /\ ArrivedWasSent /\ FrameStays /\ ReadWhileThere /\ ReadCounted
      /\ CreditAccounted /\ NoLostWakeup
  BY DEF IInv
<1>2. UNCHANGED <<peerSent, peerEnd, peerWindow, peerConnWindow, status, nextStreamToAccept, fc, conn,
                  error, closed, received, readOffset, reader, readChan>>
  BY DEF peerVars, readVars
<1>3. \A s \in StreamIDs :
        \A f \in {"resetLocally", "resetRemotely", "cancelled", "finishedReading"} :
          f \in flags'[s] <=> f \in flags[s]
  OBVIOUS
<1>4. Typing'
  BY <1>1, <1>2 DEF Typing, PeerTypes, SessionTypes, ControllerTypes, ReadTypes
<1>5. WritingBounded'
  BY <1>1, <1>2 DEF WritingBounded
<1>6. ArrivedWasSent' /\ FrameStays'
  BY <1>1, <1>2 DEF ArrivedWasSent, FrameStays, HasHead
<1>7. ReadWhileThere' /\ ReadCounted'
  <2>1. \A s \in StreamIDs : flags[s] \cap {"finishedReading", "resetRemotely"} # {}
                              => flags'[s] \cap {"finishedReading", "resetRemotely"} # {}
    OBVIOUS
  <2> QED BY <1>1, <1>2, <1>3, <2>1 DEF ReadWhileThere, ReadCounted, accepted
<1>8. CreditAccounted'
  <2>1. \A s \in StreamIDs : Held'[s] = Held[s]
    BY <1>2, <1>3 DEF Held, Unread
  <2> QED BY <1>1, <1>2, <1>4, <2>1, CreditKept
<1>9. NoLostWakeup'
  <2>1. \A s \in StreamIDs : ReaderAwake(s)'
    <3> SUFFICES ASSUME NEW s \in StreamIDs PROVE ReaderAwake(s)'
      OBVIOUS
    <3>1. ReaderAwake(s)
      BY <1>1, WakeupHalves
    <3>2. flags'[s] \cap {"resetLocally", "cancelled"} = flags[s] \cap {"resetLocally", "cancelled"}
      BY <1>3
    <3> QED BY <1>2, <1>3, <3>1, <3>2 DEF ReaderAwake, HasHead
  <2> QED BY <2>1 DEF NoLostWakeup, ReaderAwake, WriterAwake
<1> QED BY <1>4, <1>5, <1>6, <1>7, <1>8, <1>9 DEF IInv

\* An error stays, and comes from nothing else.
LEMMA ErrOfFlags ==
  ASSUME NEW s \in StreamIDs, NEW f \in SUBSET Flags, NEW g \in SUBSET Flags, f \subseteq g,
         g \subseteq f \cup {"finSent", "finishedWriting", "finishedReading", "rstSent"}
  PROVE  g \cap {"resetLocally", "resetRemotely", "cancelled"}
           = f \cap {"resetLocally", "resetRemotely", "cancelled"}
OBVIOUS

\* A window update for our data.
LEMMA WindowUpdateFrameStep ==
  ASSUME IInv, NEW s \in StreamIDs, WindowUpdateFrame(s)
  PROVE  IInv'
<1>1. Typing /\ WritingBounded /\ NoLostWakeup
  BY DEF IInv
<1>2. UNCHANGED <<peerVars, status, nextStreamToAccept, fc, conn, error, closed, flags, readVars,
                 writer, writeChan, dataForWriting, bytesSent, connBytesSent, popping>>
  BY DEF WindowUpdateFrame
<1>3. WriteTypes'
  BY <1>1, <1>2 DEF Typing, WriteTypes, WindowUpdateFrame
<1>4. \A t \in StreamIDs : WriterAwake(t)'
  BY <1>1, <1>2, WakeupHalves DEF WriterAwake, HasErr
<1> QED BY <1>1, <1>2, <1>3, <1>4, WriteSideStep DEF Typing, SessionTypes, WritingBounded

\* The framer looks at a stream.
LEMMA PopCheckStep ==
  ASSUME IInv, NEW s \in StreamIDs, PopCheck(s)
  PROVE  IInv'
<1>1. Typing /\ WritingBounded /\ NoLostWakeup
  BY DEF IInv
<1>2. UNCHANGED <<peerVars, status, nextStreamToAccept, fc, conn, error, closed, flags, readVars,
                 writer, writeChan, dataForWriting, bytesSent, sendWindow, connBytesSent,
                 connSendWindow>>
  BY DEF PopCheck
<1> DEFINE len == IF HasErr(s) THEN 0 ELSE dataForWriting[s]
           window == Least(SendWindowSize(sendWindow[s], bytesSent[s]),
                           SendWindowSize(connSendWindow, connBytesSent))
           max == IF len # 0 THEN window ELSE MaxWritten
<1>3. s \in Writers /\ popping' = [stream |-> s, len |-> len, max |-> max]
  BY DEF PopCheck
<1>4. len \in Nat /\ max \in Nat
  BY <1>1, ConstantTypes DEF Typing, WriteTypes, Least, SendWindowSize
<1>5. popping' \in [stream : {0} \cup Writers, len : Nat, max : Nat]
  <2> HIDE DEF len, max
  <2> QED BY <1>3, <1>4
<1>6. WriteTypes'
  BY <1>1, <1>2, <1>5 DEF Typing, WriteTypes
<1>7. \A t \in StreamIDs : WriterAwake(t)'
  BY <1>1, <1>2, WakeupHalves DEF WriterAwake, HasErr
<1> QED BY <1>1, <1>2, <1>6, <1>7, WriteSideStep DEF Typing, SessionTypes, WritingBounded

\* The framer takes data, and wakes Write up if that was all.
LEMMA PopTakeStep ==
  ASSUME IInv, NEW s \in StreamIDs, PopTake(s)
  PROVE  IInv'
<1>1. Typing /\ WritingBounded /\ NoLostWakeup
  BY DEF IInv
<1>2. UNCHANGED <<peerVars, status, nextStreamToAccept, fc, conn, error, closed, readVars, writer,
                  sendWindow, connSendWindow>>
  BY DEF PopTake
<1>3. /\ dataForWriting[s] \in Nat /\ bytesSent[s] \in Nat /\ connBytesSent \in Nat
      /\ popping.max \in Nat /\ flags[s] \in SUBSET Flags
      /\ bytesSent[s] + dataForWriting[s] <= MaxWritten
  BY <1>1 DEF Typing, WriteTypes, SessionTypes, WritingBounded
<1>4. PICK taken \in {Taken(s)} \cup (1..Taken(s)) :
        /\ dataForWriting' = [dataForWriting EXCEPT ![s] = @ - taken]
        /\ writeChan' = [writeChan EXCEPT ![s] = SignalWrite(s, taken)]
        /\ bytesSent' = [bytesSent EXCEPT ![s] = @ + taken]
        /\ connBytesSent' = connBytesSent + taken
        /\ flags' = [flags EXCEPT ![s] =
             IF "finishedWriting" \in @ /\ ~HasErr(s) /\ dataForWriting'[s] = 0
             THEN @ \cup {"finSent"} ELSE @]
  BY DEF PopTake
<1>5. taken \in Nat /\ taken <= dataForWriting[s]
  <2>1. Taken(s) \in Nat /\ Taken(s) <= dataForWriting[s]
    BY <1>3 DEF Taken, Least
  <2> QED BY <1>3, <1>4, <2>1
<1>6. popping' \in [stream : {0} \cup Writers, len : Nat, max : Nat]
  BY DEF PopTake, NoPop
<1>7. WriteTypes'
  <2>1. SignalWrite(s, taken) \in BOOLEAN
    BY <1>1 DEF SignalWrite, Typing, WriteTypes
  <2> QED BY <1>1, <1>2, <1>3, <1>4, <1>5, <1>6, <2>1 DEF Typing, WriteTypes
<1>8. /\ flags' \in [StreamIDs -> SUBSET Flags]
      /\ \A t \in StreamIDs : /\ flags[t] \subseteq flags'[t]
                              /\ flags'[t] \subseteq flags[t] \cup {"finSent", "finishedWriting"}
  <2>1. (flags[s] \cup {"finSent"}) \in SUBSET Flags
    BY <1>3 DEF Flags
  <2> QED BY <1>1, <1>3, <1>4, <2>1 DEF Typing, SessionTypes
<1>9. \A t \in StreamIDs : bytesSent'[t] + dataForWriting'[t] <= MaxWritten
  <2> TAKE t \in StreamIDs
  <2>1. bytesSent[t] + dataForWriting[t] <= MaxWritten
    BY <1>1 DEF WritingBounded
  <2>2. CASE t = s
    <3>1. bytesSent'[s] = bytesSent[s] + taken /\ dataForWriting'[s] = dataForWriting[s] - taken
      BY <1>1, <1>4 DEF Typing, WriteTypes
    <3> QED BY <1>3, <1>5, <2>1, <2>2, <3>1, ConstantTypes
  <2>3. CASE t # s
    BY <1>1, <1>4, <2>1, <2>3 DEF Typing, WriteTypes
  <2> QED BY <2>2, <2>3
<1>10. \A t \in StreamIDs : WriterAwake(t)'
  <2> SUFFICES ASSUME NEW t \in StreamIDs, writer[t] = "wait", ~writeChan'[t]
               PROVE  dataForWriting'[t] # 0 /\ ~HasErr(t)'
    BY <1>2 DEF WriterAwake
  <2>1. WriterAwake(t)
    BY <1>1, WakeupHalves
  <2>2. HasErr(t)' <=> HasErr(t)
    <3>1. /\ flags[t] \in SUBSET Flags /\ flags'[t] \in SUBSET Flags
          /\ flags[t] \subseteq flags'[t]
          /\ flags'[t] \subseteq flags[t] \cup {"finSent", "finishedWriting"}
      BY <1>1, <1>8 DEF Typing, SessionTypes
    <3> QED BY <3>1, ErrOfFlags DEF HasErr
  <2>3. CASE t = s
    <3>1. writeChan'[s] = SignalWrite(s, taken) /\ dataForWriting'[s] = dataForWriting[s] - taken
      BY <1>1, <1>4 DEF Typing, WriteTypes
    <3>2. ~writeChan[s] /\ ~(taken > 0 /\ taken = dataForWriting[s])
      BY <2>3, <3>1 DEF SignalWrite
    <3>3. dataForWriting[s] # 0 /\ ~HasErr(s)
      BY <2>1, <2>3, <3>2 DEF WriterAwake
    <3> QED BY <1>3, <1>5, <2>2, <2>3, <3>1, <3>2, <3>3
  <2>4. CASE t # s
    <3>1. writeChan'[t] = writeChan[t] /\ dataForWriting'[t] = dataForWriting[t]
      BY <1>1, <1>4, <2>4 DEF Typing, WriteTypes
    <3> QED BY <2>1, <2>2, <3>1 DEF WriterAwake
  <2> QED BY <2>3, <2>4
<1> QED BY <1>2, <1>7, <1>8, <1>9, <1>10, WriteSideStep

\* Write blocks only with data to be sent.
LEMMA WriteStep ==
  ASSUME IInv, NEW s \in StreamIDs, Write(s)
  PROVE  IInv'
<1>1. Typing /\ WritingBounded /\ NoLostWakeup
  BY DEF IInv
<1>2. UNCHANGED <<peerVars, status, nextStreamToAccept, fc, conn, error, closed, flags, readVars,
                  writeChan, bytesSent, sendWindow, connBytesSent, connSendWindow, popping>>
      /\ writer' = [writer EXCEPT ![s] = "wait"] /\ ~HasErr(s)
  BY DEF Write
<1>3. PICK n \in 1..MaxWritten : /\ bytesSent[s] + n <= MaxWritten
                                 /\ dataForWriting' = [dataForWriting EXCEPT ![s] = n]
  BY DEF Write
<1>4. n \in Nat /\ n # 0
  BY ConstantTypes
<1>5. WriteTypes'
  BY <1>1, <1>2, <1>3, <1>4 DEF Typing, WriteTypes
<1>6. \A t \in StreamIDs : bytesSent'[t] + dataForWriting'[t] <= MaxWritten
  BY <1>1, <1>2, <1>3, <1>4 DEF Typing, WriteTypes, WritingBounded
<1>7. \A t \in StreamIDs : WriterAwake(t)'
  BY <1>1, <1>2, <1>3, <1>4, WakeupHalves DEF WriterAwake, HasErr, Typing, WriteTypes
<1> QED BY <1>1, <1>2, <1>5, <1>6, <1>7, WriteSideStep DEF Typing, SessionTypes

\* Write looks again after every token.
LEMMA WriteWakesStep ==
  ASSUME IInv, NEW s \in StreamIDs, WriteWakes(s)
  PROVE  IInv'
<1>1. Typing /\ WritingBounded /\ NoLostWakeup
  BY DEF IInv
<1>2. /\ UNCHANGED <<peerVars, status, nextStreamToAccept, fc, conn, error, closed, flags, readVars,
                     dataForWriting, bytesSent, sendWindow, connBytesSent, connSendWindow, popping>>
      /\ writeChan' = [writeChan EXCEPT ![s] = FALSE]
      /\ writer' = [writer EXCEPT ![s] = IF dataForWriting[s] = 0 \/ HasErr(s) THEN "idle" ELSE "wait"]
  BY DEF WriteWakes
<1>3. WriteTypes'
  BY <1>1, <1>2 DEF Typing, WriteTypes
<1>4. \A t \in StreamIDs : WriterAwake(t)'
  BY <1>1, <1>2, WakeupHalves DEF WriterAwake, HasErr, Typing, WriteTypes
<1> QED BY <1>1, <1>2, <1>3, <1>4, WriteSideStep DEF Typing, SessionTypes, WritingBounded

\* Close sets a flag that wakes nobody.
LEMMA CloseStep ==
  ASSUME IInv, NEW s \in StreamIDs, Close(s)
  PROVE  IInv'
<1>1. Typing /\ WritingBounded /\ NoLostWakeup
  BY DEF IInv
<1>2. /\ UNCHANGED <<peerVars, status, nextStreamToAccept, fc, conn, error, closed, readVars, writeVars>>
      /\ flags' = [flags EXCEPT ![s] = @ \cup {"finishedWriting"}]
  BY DEF Close
<1>3. UNCHANGED <<writer, writeChan, dataForWriting, bytesSent, sendWindow, connBytesSent,
                  connSendWindow, popping>>
  BY <1>2 DEF writeVars
<1>4. WriteTypes'
  BY <1>1, <1>3 DEF Typing, WriteTypes
<1>5. /\ flags' \in [StreamIDs -> SUBSET Flags]
      /\ \A t \in StreamIDs : /\ flags[t] \subseteq flags'[t]
                              /\ flags'[t] \subseteq flags[t] \cup {"finSent", "finishedWriting"}
  <2>1. (flags[s] \cup {"finishedWriting"}) \in SUBSET Flags
    BY <1>1 DEF Typing, SessionTypes, Flags
  <2> QED BY <1>1, <1>2, <2>1 DEF Typing, SessionTypes
<1>6. \A t \in StreamIDs : WriterAwake(t)'
  <2> TAKE t \in StreamIDs
  <2>1. WriterAwake(t)
    BY <1>1, WakeupHalves
  <2>2. HasErr(t)' <=> HasErr(t)
    <3>1. /\ flags[t] \in SUBSET Flags /\ flags'[t] \in SUBSET Flags
          /\ flags[t] \subseteq flags'[t]
          /\ flags'[t] \subseteq flags[t] \cup {"finSent", "finishedWriting"}
      BY <1>1, <1>5 DEF Typing, SessionTypes
    <3> QED BY <3>1, ErrOfFlags DEF HasErr
  <2> QED BY <1>3, <2>1, <2>2 DEF WriterAwake
<1>7. \A t \in StreamIDs : bytesSent'[t] + dataForWriting'[t] <= MaxWritten
  BY <1>1, <1>3 DEF WritingBounded
<1> QED BY <1>2, <1>4, <1>5, <1>6, <1>7, WriteSideStep

-----------------------------------------------------------------------------
(* Collecting, accepting and reading. *)

\* While the session is not closed a finished stream was read to its end or reset by the peer.
LEMMA garbageCollectStreamsStep ==
  ASSUME IInv, garbageCollectStreams
  PROVE  IInv'
<1>1. /\ Typing /\ WritingBounded /\ ArrivedWasSent /\ FrameStays /\ ReadWhileThere /\ ReadCounted
      /\ CreditAccounted /\ NoLostWakeup
  BY DEF IInv
<1>2. /\ UNCHANGED <<peerSent, peerEnd, peerWindow, peerConnWindow, nextStreamToAccept, fc, conn,
                     error, closed, flags, received, readOffset, reader, readChan, writer, writeChan,
                     dataForWriting, bytesSent, sendWindow, connBytesSent, connSendWindow, popping>>
      /\ ~closed
      /\ status' = [s \in StreamIDs |-> IF s \in open /\ finished(flags[s]) THEN "gone" ELSE status[s]]
  BY DEF garbageCollectStreams, RunLoopFree, peerVars, readVars, writeVars, RemoveStreams
<1>3. Typing'
  BY <1>1, <1>2 DEF Typing, PeerTypes, SessionTypes, ControllerTypes, ReadTypes, WriteTypes
<1>4. ReadWhileThere'
  <2> SUFFICES ASSUME NEW s \in StreamIDs
               PROVE  /\ reader[s] # "idle" => accepted(s) /\ "finishedReading" \notin flags[s]
                      /\ accepted(s) => status'[s] # "none"
                      /\ "cancelled" \in flags[s] => closed /\ status'[s] = "open"
                      /\ status'[s] = "gone" => flags[s] \cap {"finishedReading", "resetRemotely"} # {}
    BY <1>2 DEF ReadWhileThere, accepted
  <2>1. /\ reader[s] # "idle" => accepted(s) /\ "finishedReading" \notin flags[s]
        /\ accepted(s) => status[s] # "none"
        /\ "cancelled" \notin flags[s]
        /\ status[s] = "gone" => flags[s] \cap {"finishedReading", "resetRemotely"} # {}
    BY <1>1, <1>2 DEF ReadWhileThere
  <2>2. finished(flags[s]) => flags[s] \cap {"finishedReading", "resetRemotely"} # {}
    BY <2>1 DEF finished
  <2>3. status'[s] = status[s] \/ (status'[s] = "gone" /\ finished(flags[s]))
    BY <1>2
  <2> QED BY <2>1, <2>2, <2>3
<1>5. WritingBounded' /\ ArrivedWasSent' /\ FrameStays' /\ ReadCounted' /\ NoLostWakeup'
  BY <1>1, <1>2 DEF WritingBounded, ArrivedWasSent, FrameStays, ReadCounted, NoLostWakeup, HasHead, HasErr
<1>6. CreditAccounted'
  BY <1>1, <1>2 DEF CreditAccounted
<1> QED BY <1>3, <1>4, <1>5, <1>6 DEF IInv

\* Only a stream in the map is accepted.
LEMMA AcceptStreamStep ==
  ASSUME IInv, AcceptStream
  PROVE  IInv'
<1>1. /\ Typing /\ WritingBounded /\ ArrivedWasSent /\ FrameStays /\ ReadWhileThere /\ ReadCounted
      /\ CreditAccounted /\ NoLostWakeup
  BY DEF IInv
<1>2. /\ UNCHANGED <<peerSent, peerEnd, peerWindow, peerConnWindow, status, fc, conn,
                     error, closed, flags, received, readOffset, reader, readChan, writer, writeChan,
                     dataForWriting, bytesSent, sendWindow, connBytesSent, connSendWindow, popping>>
      /\ nextStreamToAccept \in open /\ nextStreamToAccept' = nextStreamToAccept + 1
  BY DEF AcceptStream, peerVars, readVars, writeVars
<1>3. nextStreamToAccept \in StreamIDs /\ status[nextStreamToAccept] = "open"
  BY <1>2 DEF open
<1>4. Typing'
  <2>1. nextStreamToAccept' \in 1..NumStreams + 1
    BY <1>2, <1>3, ConstantTypes DEF StreamIDs
  <2> QED BY <1>1, <1>2, <2>1 DEF Typing, PeerTypes, SessionTypes, ControllerTypes, ReadTypes, WriteTypes
<1>5. ReadWhileThere'
  <2>1. \A s \in StreamIDs : accepted(s)' <=> accepted(s) \/ s = nextStreamToAccept
    BY <1>2, <1>3 DEF accepted, StreamIDs
  <2> QED BY <1>1, <1>2, <1>3, <2>1 DEF ReadWhileThere
<1>6. WritingBounded' /\ ArrivedWasSent' /\ FrameStays' /\ ReadCounted' /\ NoLostWakeup'
  BY <1>1, <1>2 DEF WritingBounded, ArrivedWasSent, FrameStays, ReadCounted, NoLostWakeup, HasHead, HasErr
<1>7. CreditAccounted'
  BY <1>1, <1>2 DEF CreditAccounted
<1> QED BY <1>4, <1>5, <1>6, <1>7 DEF IInv

\* Read waits only if it found nothing to return.
LEMMA ReadStep ==
  ASSUME IInv, NEW s \in StreamIDs, Read(s)
  PROVE  IInv'
<1>1. /\ Typing /\ WritingBounded /\ ArrivedWasSent /\ FrameStays /\ ReadWhileThere /\ ReadCounted
      /\ CreditAccounted /\ NoLostWakeup
  BY DEF IInv
<1> DEFINE next == CASE flags[s] \cap {"resetLocally", "cancelled"} # {} -> "idle"
                     [] HasHead(s) -> "frame"
                     [] OTHER -> "wait"
<1>2. /\ UNCHANGED <<peerSent, peerEnd, peerWindow, peerConnWindow, status, nextStreamToAccept, fc,
                     conn, error, closed, flags, received, readOffset, writer, writeChan,
                     dataForWriting, bytesSent, sendWindow, connBytesSent, connSendWindow, popping>>
      /\ accepted(s)
      /\ reader' = [reader EXCEPT ![s] = next]
      /\ \/ reader[s] = "idle" /\ "finishedReading" \notin flags[s] /\ UNCHANGED readChan
         \/ reader[s] = "wait" /\ readChan' = [readChan EXCEPT ![s] = FALSE]
  BY DEF Read, peerVars, writeVars
<1>3. /\ next \in {"idle", "wait", "frame"}
      /\ next = "frame" => HasHead(s)
      /\ next = "wait" => ~HasHead(s) /\ flags[s] \cap {"resetLocally", "cancelled"} = {}
  OBVIOUS
<1> HIDE DEF next
<1>4. /\ reader' \in [StreamIDs -> {"idle", "wait", "frame"}] /\ reader'[s] = next
      /\ \A t \in StreamIDs : t # s => reader'[t] = reader[t] /\ readChan'[t] = readChan[t]
      /\ readChan' \in [StreamIDs -> BOOLEAN]
  BY <1>1, <1>2, <1>3 DEF Typing, ReadTypes
<1>5. Typing'
  BY <1>1, <1>2, <1>4 DEF Typing, PeerTypes, SessionTypes, ControllerTypes, ReadTypes, WriteTypes
<1>6. "finishedReading" \notin flags[s]
  BY <1>1, <1>2 DEF ReadWhileThere
<1>7. ReadWhileThere'
  <2> SUFFICES ASSUME NEW t \in StreamIDs
               PROVE  reader'[t] # "idle" => accepted(t) /\ "finishedReading" \notin flags[t]
    BY <1>1, <1>2 DEF ReadWhileThere, accepted
  <2> QED BY <1>1, <1>2, <1>4, <1>6 DEF ReadWhileThere
<1>8. \A t \in StreamIDs : HasHead(t)' <=> HasHead(t)
  BY <1>2 DEF HasHead
<1>9. FrameStays'
  BY <1>1, <1>3, <1>4, <1>8 DEF FrameStays
<1>10. WritingBounded' /\ ArrivedWasSent' /\ ReadCounted'
  BY <1>1, <1>2 DEF WritingBounded, ArrivedWasSent, ReadCounted
<1>11. NoLostWakeup'
  <2>1. \A t \in StreamIDs : ReaderAwake(t)'
    <3> TAKE t \in StreamIDs
    <3>1. ReaderAwake(t)
      BY <1>1, WakeupHalves
    <3>2. CASE t = s
      BY <1>2, <1>3, <1>4, <1>8, <3>2 DEF ReaderAwake
    <3>3. CASE t # s
      BY <1>2, <1>4, <1>8, <3>1, <3>3 DEF ReaderAwake
    <3> QED BY <3>2, <3>3
  <2>2. \A t \in StreamIDs : WriterAwake(t)'
    BY <1>1, <1>2, WakeupHalves DEF WriterAwake, HasErr
  <2> QED BY <2>1, <2>2 DEF NoLostWakeup, ReaderAwake, WriterAwake
<1>12. CreditAccounted'
  BY <1>1, <1>2 DEF CreditAccounted
<1> QED BY <1>5, <1>7, <1>9, <1>10, <1>11, <1>12 DEF IInv

\* Read takes a frame: the stream's and the connection's controller are told, unless the peer
\* has reset the stream, which is not gone then.
LEMMA ReadFrameStep ==
  ASSUME IInv, NEW s \in StreamIDs, ReadFrame(s)
  PROVE  IInv'
<1>1. /\ Typing /\ WritingBounded /\ ArrivedWasSent /\ FrameStays /\ ReadWhileThere /\ ReadCounted
      /\ CreditAccounted /\ NoLostWakeup
  BY DEF IInv
<1>2. /\ UNCHANGED <<peerSent, peerEnd, peerWindow, peerConnWindow, status, nextStreamToAccept,
                     error, closed, received, readChan, writer, writeChan,
                     dataForWriting, bytesSent, sendWindow, connBytesSent, connSendWindow, popping>>
      /\ reader[s] = "frame" /\ reader' = [reader EXCEPT ![s] = "idle"]
  BY DEF ReadFrame, peerVars, writeVars
<1>3. /\ reader' \in [StreamIDs -> {"idle", "wait", "frame"}] /\ reader'[s] = "idle"
      /\ \A t \in StreamIDs : t # s => reader'[t] = reader[t]
  BY <1>1, <1>2 DEF Typing, ReadTypes
<1>4. /\ accepted(s) /\ "finishedReading" \notin flags[s]
      /\ "resetRemotely" \notin flags[s] => s \in open
  <2>1. accepted(s) /\ "finishedReading" \notin flags[s] /\ status[s] # "none"
        /\ (status[s] = "gone" => "resetRemotely" \in flags[s])
    BY <1>1, <1>2 DEF ReadWhileThere
  <2> QED BY <1>1, <2>1 DEF Typing, SessionTypes, open
<1>5. WritingBounded'
  BY <1>1, <1>2 DEF WritingBounded
<1>6. CASE HeadIsFin(s)
  <2>1. UNCHANGED <<readOffset, fc, conn>>
        /\ flags' = [flags EXCEPT ![s] = @ \cup {"finishedReading"}]
    BY <1>6 DEF ReadFrame
  <2>2. /\ flags' \in [StreamIDs -> SUBSET Flags]
        /\ \A t \in StreamIDs : /\ flags[t] \subseteq flags'[t]
                                /\ flags'[t] \subseteq flags[t] \cup {"finishedReading"}
                                /\ t # s => flags'[t] = flags[t]
    <3>1. (flags[s] \cup {"finishedReading"}) \in SUBSET Flags
      BY <1>1 DEF Typing, SessionTypes, Flags
    <3> QED BY <1>1, <2>1, <3>1 DEF Typing, SessionTypes
  <2>3. \A t \in StreamIDs :
          \A f \in {"resetLocally", "resetRemotely", "cancelled"} : f \in flags'[t] <=> f \in flags[t]
    BY <2>2
  <2>4. Typing'
    BY <1>1, <1>2, <1>3, <2>1, <2>2 DEF Typing, PeerTypes, SessionTypes, ControllerTypes, ReadTypes, WriteTypes
  <2>5. ArrivedWasSent' /\ ReadCounted'
    BY <1>1, <1>2, <2>1, <2>3 DEF ArrivedWasSent, ReadCounted
  <2>6. \A t \in StreamIDs : HasHead(t)' <=> HasHead(t)
    BY <1>2, <2>1 DEF HasHead
  <2>7. FrameStays'
    BY <1>1, <1>3, <2>6 DEF FrameStays
  <2>8. ReadWhileThere'
    <3>1. \A t \in StreamIDs : flags[t] \cap {"finishedReading", "resetRemotely"} # {}
                                => flags'[t] \cap {"finishedReading", "resetRemotely"} # {}
      BY <2>2
    <3> QED BY <1>1, <1>2, <1>3, <2>2, <2>3, <3>1 DEF ReadWhileThere, accepted
  <2>9. NoLostWakeup'
    <3>1. \A t \in StreamIDs : ReaderAwake(t)'
      BY <1>1, <1>2, <1>3, <2>2, <2>6, WakeupHalves DEF ReaderAwake
    <3>2. \A t \in StreamIDs : WriterAwake(t)'
      BY <1>1, <1>2, <2>3, WakeupHalves DEF WriterAwake, HasErr
    <3> QED BY <3>1, <3>2 DEF NoLostWakeup, ReaderAwake, WriterAwake
  <2>10. CreditAccounted'
    <3>1. \A t \in StreamIDs : Held'[t] = Held[t]
      BY <2>1, <2>3 DEF Held, Unread
    <3> QED BY <1>1, <2>1, <2>4, <3>1, CreditKept
  <2> QED BY <1>5, <2>4, <2>5, <2>7, <2>8, <2>9, <2>10 DEF IInv
<1>7. CASE ~HeadIsFin(s)
  <2>1. readOffset' = [readOffset EXCEPT ![s] = @ + 1] /\ CountRead(s) /\ UNCHANGED flags
    BY <1>7 DEF ReadFrame
  <2>2. readOffset[s] \in Nat /\ readOffset[s] \in received[s]
    BY <1>1, <1>7 DEF Typing, ReadTypes, HeadIsFin
  <2>3. /\ readOffset' \in [StreamIDs -> Nat] /\ readOffset'[s] = readOffset[s] + 1
        /\ \A t \in StreamIDs : t # s => readOffset'[t] = readOffset[t]
    BY <1>1, <2>1, <2>2 DEF Typing, ReadTypes
  <2>4. ArrivedWasSent'
    <3> SUFFICES ASSUME NEW t \in StreamIDs, NEW u \in 0..(readOffset'[t] - 1) PROVE u \in received[t]
      BY <1>1, <1>2 DEF ArrivedWasSent
    <3>1. \A v \in 0..(readOffset[t] - 1) : v \in received[t]
      BY <1>1 DEF ArrivedWasSent
    <3>2. CASE t = s
      <4>1. u = readOffset[s] \/ u \in 0..(readOffset[s] - 1)
        BY <2>2, <2>3, <3>2
      <4> QED BY <2>2, <3>1, <3>2, <4>1
    <3>3. CASE t # s
      BY <2>3, <3>1, <3>3
    <3> QED BY <3>2, <3>3
  <2>5. \A t \in StreamIDs : t # s => (HasHead(t)' <=> HasHead(t))
    BY <1>2, <2>3 DEF HasHead
  <2>6. FrameStays'
    BY <1>1, <1>3, <2>5 DEF FrameStays
  <2>7. ReadWhileThere'
    BY <1>1, <1>2, <1>3, <2>1 DEF ReadWhileThere, accepted
  <2>8. NoLostWakeup'
    <3>1. \A t \in StreamIDs : ReaderAwake(t)'
      BY <1>1, <1>2, <1>3, <2>1, <2>5, WakeupHalves DEF ReaderAwake
    <3>2. \A t \in StreamIDs : WriterAwake(t)'
      BY <1>1, <1>2, <2>1, WakeupHalves DEF WriterAwake, HasErr
    <3> QED BY <3>1, <3>2 DEF NoLostWakeup, ReaderAwake, WriterAwake
  <2>9. fc \in [StreamIDs -> FlowControllers] /\ conn \in FlowControllers /\ fc[s] \in FlowControllers
    BY <1>1 DEF Typing, ControllerTypes
  <2>10. CASE "resetRemotely" \in flags[s]
    <3>1. UNCHANGED <<fc, conn>>
      BY <2>1, <2>10 DEF CountRead
    <3>2. Typing'
      BY <1>1, <1>2, <1>3, <2>1, <2>3, <3>1 DEF Typing, PeerTypes, SessionTypes, ControllerTypes, ReadTypes, WriteTypes
    <3>3. ReadCounted'
      BY <1>1, <2>1, <2>3, <2>10, <3>1 DEF ReadCounted
    <3>4. \A t \in StreamIDs : Held'[t] = Held[t]
      BY <2>1, <2>3, <2>10, <3>1 DEF Held, Unread
    <3>5. CreditAccounted'
      BY <1>1, <3>1, <3>2, <3>4, CreditKept
    <3> QED BY <1>5, <2>4, <2>6, <2>7, <2>8, <3>2, <3>3, <3>5 DEF IInv
  <2>11. CASE "resetRemotely" \notin flags[s]
    <3>1. fc' = [fc EXCEPT ![s] = AddBytesRead(@, 1)] /\ conn' = AddBytesRead(conn, 1)
      BY <1>4, <2>1, <2>11 DEF CountRead
    <3>2. /\ AddBytesRead(fc[s], 1) \in FlowControllers /\ conn' \in FlowControllers
          /\ AddBytesRead(fc[s], 1).bytesRead = fc[s].bytesRead + 1
          /\ AddBytesRead(fc[s], 1).highestReceived = fc[s].highestReceived
          /\ conn'.bytesRead = conn.bytesRead + 1
          /\ conn'.highestReceived = conn.highestReceived
      BY <2>9, <3>1, AddBytesReadFacts
    <3>3. /\ fc' \in [StreamIDs -> FlowControllers]
          /\ fc'[s].bytesRead = fc[s].bytesRead + 1 /\ fc'[s].highestReceived = fc[s].highestReceived
          /\ \A t \in StreamIDs : t # s => fc'[t] = fc[t]
      BY <2>9, <3>1, <3>2
    <3>4. Typing'
      BY <1>1, <1>2, <1>3, <2>1, <2>3, <3>2, <3>3 DEF Typing, PeerTypes, SessionTypes, ControllerTypes, ReadTypes, WriteTypes
    <3>5. ReadCounted'
      BY <1>1, <2>1, <2>3, <3>3 DEF ReadCounted
    <3>6. \A t \in StreamIDs : t # s => Held'[t] = Held[t]
      BY <2>1, <2>3, <3>3 DEF Held, Unread
    <3>7. Held[s] = fc[s].highestReceived - readOffset[s]
          /\ Held'[s] = fc[s].highestReceived - (readOffset[s] + 1)
      BY <2>1, <2>3, <2>11, <3>3 DEF Held, Unread
    <3>8. /\ conn.highestReceived \in Nat /\ conn.bytesRead \in Nat /\ fc[s].highestReceived \in Nat
      BY <2>9, ControllerFields
    <3>9. (conn'.highestReceived - conn'.bytesRead) - (conn.highestReceived - conn.bytesRead)
            = Held'[s] - Held[s]
      BY <2>2, <3>2, <3>7, <3>8
    <3>10. CreditAccounted'
      BY <1>1, <3>4, <3>6, <3>9, CreditMoved
    <3> QED BY <1>5, <2>4, <2>6, <2>7, <2>8, <3>4, <3>5, <3>10 DEF IInv
  <2> QED BY <2>10, <2>11
<1> QED BY <1>6, <1>7

-----------------------------------------------------------------------------
(* The end of the session, and Reset. *)

\* Cancel gives a token to every stream that had no error yet; the others had one before.
LEMMA CloseWithErrorStep ==
  ASSUME IInv, CloseWithError
  PROVE  IInv'
<1>1. /\ Typing /\ WritingBounded /\ ArrivedWasSent /\ FrameStays /\ ReadWhileThere /\ ReadCounted
      /\ CreditAccounted /\ NoLostWakeup
  BY DEF IInv
<1>2. /\ UNCHANGED <<peerSent, peerEnd, peerWindow, peerConnWindow, status, nextStreamToAccept, fc,
                     conn, error, received, readOffset, reader, writer, dataForWriting, bytesSent,
                     sendWindow, connBytesSent, connSendWindow, popping>>
      /\ ~closed /\ closed'
      /\ flags' = [s \in StreamIDs |-> IF s \in open THEN flags[s] \cup {"cancelled"} ELSE flags[s]]
      /\ readChan' = [s \in StreamIDs |-> readChan[s] \/ (s \in open /\ ~HasErr(s))]
      /\ writeChan' = [s \in StreamIDs |-> writeChan[s] \/ (s \in open /\ ~HasErr(s))]
  BY DEF CloseWithError, peerVars
<1>3. /\ flags' \in [StreamIDs -> SUBSET Flags]
      /\ readChan' \in [StreamIDs -> BOOLEAN] /\ writeChan' \in [StreamIDs -> BOOLEAN]
      /\ \A s \in StreamIDs : \/ flags'[s] = flags[s] /\ s \notin open
                              \/ flags'[s] = flags[s] \cup {"cancelled"} /\ s \in open
  <2>1. \A s \in StreamIDs : (flags[s] \cup {"cancelled"}) \in SUBSET Flags /\ flags[s] \in SUBSET Flags
    BY <1>1 DEF Typing, SessionTypes, Flags
  <2>2. \A s \in StreamIDs : (readChan[s] \/ (s \in open /\ ~HasErr(s))) \in BOOLEAN
                             /\ (writeChan[s] \/ (s \in open /\ ~HasErr(s))) \in BOOLEAN
    OBVIOUS
  <2> QED BY <1>2, <2>1, <2>2
<1>4. Typing'
  <2>1. closed' \in BOOLEAN
    BY DEF CloseWithError
  <2> QED BY <1>1, <1>2, <1>3, <2>1 DEF Typing, PeerTypes, SessionTypes, ControllerTypes, ReadTypes, WriteTypes
<1>5. WritingBounded' /\ ArrivedWasSent' /\ FrameStays'
  BY <1>1, <1>2 DEF WritingBounded, ArrivedWasSent, FrameStays, HasHead
<1>6. \A s \in StreamIDs :
        \A f \in {"resetRemotely", "finishedReading"} : f \in flags'[s] <=> f \in flags[s]
  BY <1>3
<1>7. ReadWhileThere'
  <2> SUFFICES ASSUME NEW s \in StreamIDs
               PROVE  /\ reader[s] # "idle" => accepted(s) /\ "finishedReading" \notin flags'[s]
                      /\ accepted(s) => status[s] # "none"
                      /\ "cancelled" \in flags'[s] => status[s] = "open"
                      /\ status[s] = "gone" => flags'[s] \cap {"finishedReading", "resetRemotely"} # {}
    BY <1>2 DEF ReadWhileThere, accepted
  <2>1. /\ reader[s] # "idle" => accepted(s) /\ "finishedReading" \notin flags[s]
        /\ accepted(s) => status[s] # "none"
        /\ "cancelled" \notin flags[s]
        /\ status[s] = "gone" => flags[s] \cap {"finishedReading", "resetRemotely"} # {}
    BY <1>1, <1>2 DEF ReadWhileThere
  <2>2. s \in open => status[s] = "open"
    BY DEF open
  <2> QED BY <1>3, <1>6, <2>1, <2>2
<1>8. ReadCounted'
  BY <1>1, <1>2, <1>6 DEF ReadCounted
<1>9. CreditAccounted'
  <2>1. \A s \in StreamIDs : Held'[s] = Held[s]
    BY <1>2, <1>6 DEF Held, Unread
  <2> QED BY <1>1, <1>2, <1>4, <2>1, CreditKept
<1>10. NoLostWakeup'
  <2>1. ASSUME NEW s \in StreamIDs PROVE ReaderAwake(s)'
    <3> SUFFICES ASSUME reader[s] = "wait", ~readChan'[s]
                 PROVE  /\ ~HasHead(s)
                        /\ flags'[s] \cap {"resetLocally", "cancelled"} # {} => "resetRemotely" \in flags'[s]
      BY <1>2 DEF ReaderAwake, HasHead
    <3>1. ~readChan[s] /\ (s \in open => HasErr(s))
      BY <1>2
    <3>2. /\ ~HasHead(s)
          /\ flags[s] \cap {"resetLocally", "cancelled"} # {} => "resetRemotely" \in flags[s]
      BY <1>1, <3>1, WakeupHalves DEF ReaderAwake
    <3>3. s \in open => "resetRemotely" \in flags[s]
      BY <3>1, <3>2 DEF HasErr
    <3> QED BY <1>3, <1>6, <3>2, <3>3
  <2>2. ASSUME NEW s \in StreamIDs PROVE WriterAwake(s)'
    <3> SUFFICES ASSUME writer[s] = "wait", ~writeChan'[s]
                 PROVE  dataForWriting[s] # 0 /\ ~HasErr(s)'
      BY <1>2 DEF WriterAwake
    <3>1. ~writeChan[s] /\ (s \in open => HasErr(s))
      BY <1>2
    <3>2. dataForWriting[s] # 0 /\ ~HasErr(s)
      BY <1>1, <3>1, WakeupHalves DEF WriterAwake
    <3> QED BY <1>3, <3>1, <3>2 DEF HasErr
  <2> QED BY <2>1, <2>2 DEF NoLostWakeup, ReaderAwake, WriterAwake
<1> QED BY <1>4, <1>5, <1>7, <1>8, <1>9, <1>10 DEF IInv

\* Reset gives tokens unless there was an error before, and then Write is not blocked.
LEMMA ResetStep ==
  ASSUME IInv, NEW s \in StreamIDs, Reset(s)
  PROVE  IInv'
<1>1. /\ Typing /\ WritingBounded /\ ArrivedWasSent /\ FrameStays /\ ReadWhileThere /\ ReadCounted
      /\ CreditAccounted /\ NoLostWakeup
  BY DEF IInv
<1>2. /\ UNCHANGED <<peerSent, peerEnd, peerWindow, peerConnWindow, status, nextStreamToAccept, fc,
                     conn, error, closed, received, readOffset, reader, writer, dataForWriting,
                     bytesSent, sendWindow, connBytesSent, connSendWindow, popping>>
      /\ "resetLocally" \notin flags[s]
      /\ flags' = [flags EXCEPT ![s] = MaybeSendReset(@ \cup {"resetLocally"})]
      /\ readChan' = [readChan EXCEPT ![s] = @ \/ ~HasErr(s)]
      /\ writeChan' = [writeChan EXCEPT ![s] = @ \/ ~HasErr(s)]
  BY DEF Reset, peerVars
<1>3. /\ flags' \in [StreamIDs -> SUBSET Flags]
      /\ \A t \in StreamIDs : t # s => flags'[t] = flags[t]
      /\ flags[s] \subseteq flags'[s] /\ flags'[s] \subseteq flags[s] \cup {"resetLocally", "rstSent"}
  <2>1. /\ MaybeSendReset(flags[s] \cup {"resetLocally"}) \in SUBSET Flags
        /\ flags[s] \subseteq MaybeSendReset(flags[s] \cup {"resetLocally"})
        /\ MaybeSendReset(flags[s] \cup {"resetLocally"}) \subseteq flags[s] \cup {"resetLocally", "rstSent"}
    BY <1>1 DEF Typing, SessionTypes, Flags, MaybeSendReset
  <2> QED BY <1>1, <1>2, <2>1 DEF Typing, SessionTypes
<1>4. /\ readChan' \in [StreamIDs -> BOOLEAN] /\ writeChan' \in [StreamIDs -> BOOLEAN]
      /\ \A t \in StreamIDs : t # s => readChan'[t] = readChan[t] /\ writeChan'[t] = writeChan[t]
      /\ readChan'[s] <=> (readChan[s] \/ ~HasErr(s))
      /\ writeChan'[s] <=> (writeChan[s] \/ ~HasErr(s))
  <2>1. readChan \in [StreamIDs -> BOOLEAN] /\ writeChan \in [StreamIDs -> BOOLEAN]
    BY <1>1 DEF Typing, ReadTypes, WriteTypes
  <2>2. (readChan[s] \/ ~HasErr(s)) \in BOOLEAN /\ (writeChan[s] \/ ~HasErr(s)) \in BOOLEAN
    OBVIOUS
  <2> QED BY <1>2, <2>1, <2>2, Zenon
<1>5. Typing'
  BY <1>1, <1>2, <1>3, <1>4 DEF Typing, PeerTypes, SessionTypes, ControllerTypes, ReadTypes, WriteTypes
<1>6. WritingBounded' /\ ArrivedWasSent' /\ FrameStays'
  BY <1>1, <1>2 DEF WritingBounded, ArrivedWasSent, FrameStays, HasHead
<1>7. \A t \in StreamIDs :
        \A f \in {"resetRemotely", "finishedReading", "cancelled"} : f \in flags'[t] <=> f \in flags[t]
  BY <1>3
<1>8. ReadWhileThere'
  <2>1. \A t \in StreamIDs : flags[t] \cap {"finishedReading", "resetRemotely"} # {}
                              => flags'[t] \cap {"finishedReading", "resetRemotely"} # {}
    BY <1>3
  <2> QED BY <1>1, <1>2, <1>7, <2>1 DEF ReadWhileThere, accepted
<1>9. ReadCounted'
  BY <1>1, <1>2, <1>7 DEF ReadCounted
<1>10. CreditAccounted'
  <2>1. \A t \in StreamIDs : Held'[t] = Held[t]
    BY <1>2, <1>7 DEF Held, Unread
  <2> QED BY <1>1, <1>2, <1>5, <2>1, CreditKept
<1>11. NoLostWakeup'
  <2>1. ASSUME NEW t \in StreamIDs PROVE ReaderAwake(t)'
    <3>1. ReaderAwake(t)
      BY <1>1, WakeupHalves
    <3>2. CASE t = s
      <4> SUFFICES ASSUME reader[s] = "wait", ~readChan'[s]
                   PROVE  ~HasHead(s) /\ "resetRemotely" \in flags[s]
        BY <1>2, <1>7, <3>2 DEF ReaderAwake, HasHead
      <4>1. ~readChan[s] /\ HasErr(s)
        BY <1>4
      <4> QED BY <3>1, <3>2, <4>1 DEF ReaderAwake, HasErr
    <3>3. CASE t # s
      BY <1>2, <1>3, <1>4, <3>1, <3>3 DEF ReaderAwake, HasHead
    <3> QED BY <3>2, <3>3
  <2>2. ASSUME NEW t \in StreamIDs PROVE WriterAwake(t)'
    <3>1. WriterAwake(t)
      BY <1>1, WakeupHalves
    <3>2. CASE t = s
      BY <1>2, <1>4, <3>1, <3>2 DEF WriterAwake
    <3>3. CASE t # s
      BY <1>2, <1>3, <1>4, <3>1, <3>3 DEF WriterAwake, HasErr
    <3> QED BY <3>2, <3>3
  <2> QED BY <2>1, <2>2 DEF NoLostWakeup, ReaderAwake, WriterAwake
<1> QED BY <1>5, <1>6, <1>8, <1>9, <1>10, <1>11 DEF IInv

-----------------------------------------------------------------------------
(* Frames. *)

\* What offset byteOffset of stream s changes in the two controllers.
LEMMA ReceiveOffsetFacts ==
  ASSUME ControllerTypes, NEW s \in StreamIDs, NEW byteOffset \in Nat, ReceiveOffset(s, byteOffset)
  PROVE  /\ ControllerTypes' /\ error' \in BOOLEAN
         /\ \A t \in StreamIDs : t # s => fc'[t] = fc[t]
         /\ fc'[s].bytesRead = fc[s].bytesRead /\ conn'.bytesRead = conn.bytesRead
         /\ fc'[s].highestReceived = fc[s].highestReceived + Increment(fc[s], byteOffset)
         /\ conn'.highestReceived = conn.highestReceived + Increment(fc[s], byteOffset)
         /\ Increment(fc[s], byteOffset) \in Nat
<1>1. /\ fc \in [StreamIDs -> FlowControllers] /\ conn \in FlowControllers
      /\ fc[s] \in FlowControllers
  BY DEF ControllerTypes
<1>2. /\ fc' = [fc EXCEPT ![s] = UpdateHighestReceived(@, byteOffset)]
      /\ conn' = IncrementHighestReceived(conn, Increment(fc[s], byteOffset))
      /\ error' = (CheckFlowControlViolation(fc'[s]) \/ CheckFlowControlViolation(conn'))
  BY DEF ReceiveOffset
<1>3. /\ UpdateHighestReceived(fc[s], byteOffset) \in FlowControllers
      /\ UpdateHighestReceived(fc[s], byteOffset).bytesRead = fc[s].bytesRead
      /\ UpdateHighestReceived(fc[s], byteOffset).highestReceived
           = fc[s].highestReceived + Increment(fc[s], byteOffset)
      /\ Increment(fc[s], byteOffset) \in Nat
  BY <1>1, ReceiveFacts
<1>4. /\ conn' \in FlowControllers /\ conn'.bytesRead = conn.bytesRead
      /\ conn'.highestReceived = conn.highestReceived + Increment(fc[s], byteOffset)
  BY <1>1, <1>2, <1>3, IncrementFacts
<1>5. /\ fc' \in [StreamIDs -> FlowControllers] /\ \A t \in StreamIDs : t # s => fc'[t] = fc[t]
      /\ fc'[s] = UpdateHighestReceived(fc[s], byteOffset)
  BY <1>1, <1>2, <1>3
<1>6. error' \in BOOLEAN
  BY <1>2 DEF CheckFlowControlViolation
<1> QED BY <1>3, <1>4, <1>5, <1>6 DEF ControllerTypes

\* Streams are only opened.
LEMMA OpenFacts ==
  ASSUME NEW s \in StreamIDs, SessionTypes, GetOrOpenStream(s)
  PROVE  /\ status' \in [StreamIDs -> {"none", "open", "gone"}]
         /\ \A t \in StreamIDs : status'[t] = status[t] \/ (status[t] = "none" /\ status'[t] = "open")
<1>1. \A t \in StreamIDs : t \in New(s) => status[t] = "none"
  BY DEF New
<1> QED BY <1>1 DEF GetOrOpenStream, SessionTypes

\* The sum of zeros.
LEMMA SumOfZeros ==
  ASSUME NEW S, IsFiniteSet(S), NEW f \in [S -> Int], \A x \in S : f[x] = 0
  PROVE  Sum(f) = 0
<1>1. PICK g : Sums(g, f, S) /\ Sum(f) = g[S]
  BY SumUnfolds
<1> DEFINE zero == {s \in SUBSET S : g[s] = 0}
<1>2. {} \in zero
  BY <1>1 DEF Sums
<1>3. ASSUME NEW s \in SUBSET S, s # {}, s \ {Taking(s)} \in zero
      PROVE  s \in zero
  <2>1. Taking(s) \in S
    BY <1>3 DEF Taking
  <2> QED BY <1>1, <1>3, <2>1 DEF Sums
<1>4. zero = SUBSET S
  <2>1. zero \in SUBSET SUBSET S
    OBVIOUS
  <2> HIDE DEF zero
  <2> QED BY <1>2, <1>3, <2>1, FoldInduction
<1> QED BY <1>1, <1>4

\* No summand exceeds the sum.
LEMMA SummandBounded ==
  ASSUME NEW f \in [StreamIDs -> Nat], NEW y \in StreamIDs
  PROVE  Sum(f) \in Int /\ f[y] <= Sum(f)
<1> DEFINE zeros == [x \in StreamIDs |-> 0]
           only == [x \in StreamIDs |-> IF x = y THEN f[y] ELSE 0]
<1>1. /\ f \in [StreamIDs -> Int] /\ zeros \in [StreamIDs -> Int] /\ only \in [StreamIDs -> Int]
      /\ \A x \in StreamIDs : zeros[x] = 0
      /\ \A x \in StreamIDs : x # y => only[x] = zeros[x]
      /\ \A x \in StreamIDs : only[x] <= f[x]
      /\ only[y] = f[y]
  OBVIOUS
<1> HIDE DEF zeros, only
<1>2. Sum(zeros) = 0
  BY <1>1, StreamsFinite, SumOfZeros
<1>3. Sum(only) \in Int /\ Sum(only) - Sum(zeros) = only[y] - zeros[y]
  BY <1>1, StreamsFinite, SumChange
<1>4. Sum(f) \in Int /\ Sum(only) <= Sum(f)
  BY <1>1, StreamsFinite, SumMonotone
<1>5. zeros[y] = 0 /\ f[y] \in Nat
  BY <1>1
<1> QED BY <1>1, <1>2, <1>3, <1>4, <1>5

\* The bound of the model, by stream.
LEMMA PeerSentBounded ==
  ASSUME PeerTypes, WritingBounded, NEW s \in StreamIDs
  PROVE  peerSent[s] \in 0..MaxSent
<1>1. Sum(peerSent) \in Int /\ peerSent[s] <= Sum(peerSent) /\ peerSent[s] \in Nat
  BY SummandBounded DEF PeerTypes
<1> QED BY <1>1, ConstantTypes DEF WritingBounded

\* A stream frame wakes Read up, unless it is refused.
LEMMA StreamFrameStep ==
  ASSUME IInv, NEW s \in StreamIDs, StreamFrame(s)
  PROVE  IInv'
<1>1. /\ Typing /\ WritingBounded /\ ArrivedWasSent /\ FrameStays /\ ReadWhileThere /\ ReadCounted
      /\ CreditAccounted /\ NoLostWakeup
  BY DEF IInv
<1>2. UNCHANGED <<peerSent, peerEnd, peerWindow, peerConnWindow, nextStreamToAccept, closed, flags,
                  readOffset, reader, writer, writeChan, dataForWriting, bytesSent, sendWindow,
                  connBytesSent, connSendWindow, popping>>
  BY DEF StreamFrame, peerVars, writeVars
<1>3. WritingBounded'
  BY <1>1, <1>2 DEF WritingBounded
<1>4. CASE TooManyOpenStreams(s)
  <2>1. error' = TRUE /\ UNCHANGED <<status, fc, conn, received, readChan>>
    BY <1>4 DEF StreamFrame
  <2>2. Typing'
    BY <1>1, <1>2, <2>1 DEF Typing, PeerTypes, SessionTypes, ControllerTypes, ReadTypes, WriteTypes
  <2>3. ArrivedWasSent' /\ FrameStays' /\ ReadWhileThere' /\ ReadCounted' /\ NoLostWakeup'
    BY <1>1, <1>2, <2>1 DEF ArrivedWasSent, FrameStays, ReadWhileThere, ReadCounted, NoLostWakeup,
                            HasHead, HasErr, accepted
  <2>4. CreditAccounted'
    BY <1>1, <1>2, <2>1 DEF CreditAccounted
  <2> QED BY <1>3, <2>2, <2>3, <2>4 DEF IInv
<1>5. CASE ~TooManyOpenStreams(s)
  <2>1. /\ GetOrOpenStream(s)
        /\ \/ \E unit \in 0..peerSent[s] - 1 : AddStreamFrame(s, unit, unit + 1)
           \/ peerEnd[s] = "fin" /\ AddStreamFrame(s, FIN, peerSent[s])
    BY <1>5 DEF StreamFrame
  <2>2. PICK unit, byteOffset \in Nat :
          /\ AddStreamFrame(s, unit, byteOffset)
          /\ unit \in Nat
          /\ \/ unit < peerSent[s] /\ unit # FIN
             \/ unit = FIN /\ peerEnd[s] = "fin"
    <3>1. peerSent[s] \in 0..MaxSent
      BY <1>1, PeerSentBounded DEF Typing
    <3>2. CASE \E unit \in 0..peerSent[s] - 1 : AddStreamFrame(s, unit, unit + 1)
      <4>1. PICK unit \in 0..peerSent[s] - 1 : AddStreamFrame(s, unit, unit + 1)
        BY <3>2
      <4>2. unit \in Nat /\ unit + 1 \in Nat /\ unit < peerSent[s] /\ unit # FIN
        BY <3>1, ConstantTypes DEF FIN
      <4> QED BY <4>1, <4>2
    <3>3. CASE peerEnd[s] = "fin" /\ AddStreamFrame(s, FIN, peerSent[s])
      <4>1. FIN \in Nat /\ peerSent[s] \in Nat
        BY <3>1, ConstantTypes
      <4> QED BY <3>3, <4>1
    <3> QED BY <2>1, <3>2, <3>3
  <2>3. /\ ReceiveOffset(s, byteOffset)
        /\ received' = [received EXCEPT ![s] = IF error' THEN @ ELSE @ \cup {unit}]
        /\ readChan' = [readChan EXCEPT ![s] = @ \/ ~error']
    BY <2>2 DEF AddStreamFrame
  <2>4. /\ ControllerTypes' /\ error' \in BOOLEAN
        /\ \A t \in StreamIDs : t # s => fc'[t] = fc[t]
        /\ fc'[s].bytesRead = fc[s].bytesRead /\ conn'.bytesRead = conn.bytesRead
        /\ fc'[s].highestReceived = fc[s].highestReceived + Increment(fc[s], byteOffset)
        /\ conn'.highestReceived = conn.highestReceived + Increment(fc[s], byteOffset)
        /\ Increment(fc[s], byteOffset) \in Nat
    BY <1>1, <2>3, ReceiveOffsetFacts DEF Typing
  <2>5. /\ status' \in [StreamIDs -> {"none", "open", "gone"}]
        /\ \A t \in StreamIDs : status'[t] = status[t] \/ (status[t] = "none" /\ status'[t] = "open")
    BY <1>1, <2>1, OpenFacts DEF Typing
  <2>6. /\ received' \in [StreamIDs -> SUBSET Nat]
        /\ \A t \in StreamIDs : t # s => received'[t] = received[t] /\ readChan'[t] = readChan[t]
        /\ received[s] \subseteq received'[s] /\ received'[s] \subseteq received[s] \cup {unit}
        /\ readChan' \in [StreamIDs -> BOOLEAN]
        /\ ~readChan'[s] => ~readChan[s] /\ received'[s] = received[s]
    <3>1. /\ received \in [StreamIDs -> SUBSET Nat] /\ readChan \in [StreamIDs -> BOOLEAN]
      BY <1>1 DEF Typing, ReadTypes
    <3>2. (IF error' THEN received[s] ELSE received[s] \cup {unit}) \in SUBSET Nat
      BY <2>2, <3>1
    <3>3. (readChan[s] \/ ~error') \in BOOLEAN
      OBVIOUS
    <3>4. received' \in [StreamIDs -> SUBSET Nat] /\ readChan' \in [StreamIDs -> BOOLEAN]
      BY <2>3, <3>1, <3>2, <3>3
    <3>5. readChan'[s] <=> (readChan[s] \/ ~error')
      BY <2>3, <3>1, Zenon
    <3>6. received'[s] = IF error' THEN received[s] ELSE received[s] \cup {unit}
      BY <2>3, <3>1, Zenon
    <3> QED BY <2>3, <2>4, <3>1, <3>4, <3>5, <3>6
  <2>7. Typing'
    BY <1>1, <1>2, <2>4, <2>5, <2>6 DEF Typing, PeerTypes, SessionTypes, ReadTypes, WriteTypes
  <2>8. ArrivedWasSent'
    <3> SUFFICES ASSUME NEW t \in StreamIDs
                 PROVE  /\ FIN \in received'[t] => peerEnd[t] = "fin"
                        /\ \A u \in received'[t] : u = FIN \/ u < peerSent[t]
                        /\ \A u \in 0..(readOffset[t] - 1) : u \in received'[t]
      BY <1>2 DEF ArrivedWasSent
    <3>1. /\ FIN \in received[t] => peerEnd[t] = "fin"
          /\ \A u \in received[t] : u = FIN \/ u < peerSent[t]
          /\ \A u \in 0..(readOffset[t] - 1) : u \in received[t]
      BY <1>1 DEF ArrivedWasSent
    <3> QED BY <2>2, <2>6, <3>1
  <2>9. \A t \in StreamIDs : HasHead(t) => HasHead(t)'
    BY <1>2, <2>6 DEF HasHead
  <2>10. FrameStays'
    BY <1>1, <1>2, <2>9 DEF FrameStays
  <2>11. ReadWhileThere'
    BY <1>1, <1>2, <2>5 DEF ReadWhileThere, accepted
  <2>12. ReadCounted'
    BY <1>1, <1>2, <2>4 DEF ReadCounted
  <2>13. NoLostWakeup'
    <3>1. ASSUME NEW t \in StreamIDs PROVE ReaderAwake(t)'
      <4>1. ReaderAwake(t)
        BY <1>1, WakeupHalves
      <4>2. ~readChan'[t] => ~readChan[t] /\ received'[t] = received[t]
        BY <2>6
      <4> QED BY <1>2, <4>1, <4>2 DEF ReaderAwake, HasHead
    <3>2. \A t \in StreamIDs : WriterAwake(t)'
      BY <1>1, <1>2, WakeupHalves DEF WriterAwake, HasErr
    <3> QED BY <3>1, <3>2 DEF NoLostWakeup, ReaderAwake, WriterAwake
  <2>14. CreditAccounted'
    <3>1. \A t \in StreamIDs : t # s => Held'[t] = Held[t]
      BY <1>2, <2>4 DEF Held, Unread
    <3>2. PICK n \in Nat : n = Increment(fc[s], byteOffset)
      BY <2>4
    <3>3. /\ fc[s].highestReceived \in Nat /\ fc[s].bytesRead \in Nat /\ readOffset[s] \in Nat
          /\ conn.highestReceived \in Nat /\ conn.bytesRead \in Nat
      BY <1>1, ControllerFields DEF Typing, ControllerTypes, ReadTypes
    <3>4. Held'[s] - Held[s] = n
      BY <1>2, <2>4, <3>2, <3>3 DEF Held, Unread
    <3>5. (conn'.highestReceived - conn'.bytesRead) - (conn.highestReceived - conn.bytesRead) = n
      BY <2>4, <3>2, <3>3
    <3>6. (conn'.highestReceived - conn'.bytesRead) - (conn.highestReceived - conn.bytesRead)
            = Held'[s] - Held[s]
      BY <3>4, <3>5
    <3> QED BY <1>1, <2>7, <3>1, <3>6, CreditMoved
  <2> QED BY <1>3, <2>7, <2>8, <2>10, <2>11, <2>12, <2>13, <2>14 DEF IInv
<1> QED BY <1>4, <1>5

\* The reset is registered before its offset is looked at, and even if that is refused.
LEMMA RstStreamFrameStep ==
  ASSUME IInv, NEW s \in StreamIDs, RstStreamFrame(s)
  PROVE  IInv'
<1>1. /\ Typing /\ WritingBounded /\ ArrivedWasSent /\ FrameStays /\ ReadWhileThere /\ ReadCounted
      /\ CreditAccounted /\ NoLostWakeup
  BY DEF IInv
<1>2. UNCHANGED <<peerSent, peerEnd, peerWindow, peerConnWindow, nextStreamToAccept, closed,
                  received, readOffset, reader, readChan, writer, dataForWriting, bytesSent,
                  sendWindow, connBytesSent, connSendWindow, popping>>
  BY DEF RstStreamFrame, peerVars, readVars
<1>3. WritingBounded' /\ ArrivedWasSent' /\ FrameStays'
  BY <1>1, <1>2 DEF WritingBounded, ArrivedWasSent, FrameStays, HasHead
<1>4. CASE TooManyOpenStreams(s)
  <2>1. error' = TRUE /\ UNCHANGED <<status, flags, writeChan, fc, conn>>
    BY <1>4 DEF RstStreamFrame
  <2>2. Typing'
    BY <1>1, <1>2, <2>1 DEF Typing, PeerTypes, SessionTypes, ControllerTypes, ReadTypes, WriteTypes
  <2>3. ReadWhileThere' /\ ReadCounted' /\ NoLostWakeup'
    BY <1>1, <1>2, <2>1 DEF ReadWhileThere, ReadCounted, NoLostWakeup, HasHead, HasErr, accepted
  <2>4. CreditAccounted'
    BY <1>1, <1>2, <2>1 DEF CreditAccounted
  <2> QED BY <1>3, <2>2, <2>3, <2>4 DEF IInv
<1>5. CASE ~TooManyOpenStreams(s)
  <2>1. GetOrOpenStream(s) /\ RegisterRemoteError(s) /\ ResetStream(s, peerSent[s])
    BY <1>5 DEF RstStreamFrame
  <2>2. peerSent[s] \in Nat
    BY <1>1 DEF Typing, PeerTypes
  <2>3. PICK n \in Nat :
          /\ ControllerTypes' /\ error' \in BOOLEAN
          /\ \A t \in StreamIDs : t # s => fc'[t] = fc[t]
          /\ fc'[s].bytesRead = fc[s].bytesRead /\ conn'.bytesRead = conn.bytesRead
          /\ fc'[s].highestReceived = fc[s].highestReceived + n
          /\ conn'.highestReceived = conn.highestReceived + n
    <3>1. CASE ReceiveOffset(s, peerSent[s])
      BY <1>1, <2>2, <3>1, ReceiveOffsetFacts DEF Typing
    <3>2. CASE error' = TRUE /\ UNCHANGED <<fc, conn>>
      <4>1. fc[s].highestReceived \in Nat /\ conn.highestReceived \in Nat
        BY <1>1, ControllerFields DEF Typing, ControllerTypes
      <4>2. fc'[s].highestReceived = fc[s].highestReceived + 0
            /\ conn'.highestReceived = conn.highestReceived + 0
        BY <3>2, <4>1
      <4> QED BY <1>1, <3>2, <4>2 DEF Typing, ControllerTypes
    <3> QED BY <2>1, <3>1, <3>2 DEF ResetStream
  <2>4. /\ status' \in [StreamIDs -> {"none", "open", "gone"}]
        /\ \A t \in StreamIDs : status'[t] = status[t] \/ (status[t] = "none" /\ status'[t] = "open")
    BY <1>1, <2>1, OpenFacts DEF Typing
  <2>5. /\ flags' \in [StreamIDs -> SUBSET Flags]
        /\ \A t \in StreamIDs : t # s => flags'[t] = flags[t]
        /\ flags[s] \subseteq flags'[s] /\ flags'[s] \subseteq flags[s] \cup {"resetRemotely", "rstSent"}
        /\ "resetRemotely" \in flags'[s]
    <3> DEFINE new == IF "resetRemotely" \in flags[s] THEN flags[s]
                      ELSE MaybeSendReset(flags[s] \cup {"resetRemotely"})
    <3>1. flags[s] \in SUBSET Flags
      BY <1>1 DEF Typing, SessionTypes
    <3>2. /\ new \in SUBSET Flags /\ flags[s] \subseteq new /\ "resetRemotely" \in new
          /\ new \subseteq flags[s] \cup {"resetRemotely", "rstSent"}
      BY <3>1 DEF Flags, MaybeSendReset
    <3>3. flags' = [flags EXCEPT ![s] = new]
      BY <2>1 DEF RegisterRemoteError
    <3> HIDE DEF new
    <3> QED BY <1>1, <3>2, <3>3 DEF Typing, SessionTypes
  <2>6. /\ writeChan' \in [StreamIDs -> BOOLEAN]
        /\ \A t \in StreamIDs : t # s => writeChan'[t] = writeChan[t]
        /\ writeChan'[s] <=> (writeChan[s] \/ ~HasErr(s))
    <3>1. writeChan \in [StreamIDs -> BOOLEAN] /\ (writeChan[s] \/ ~HasErr(s)) \in BOOLEAN
      BY <1>1 DEF Typing, WriteTypes
    <3>2. writeChan' = [writeChan EXCEPT ![s] = @ \/ ~HasErr(s)]
      BY <2>1 DEF RegisterRemoteError
    <3> QED BY <3>1, <3>2, Zenon
  <2>7. Typing'
    BY <1>1, <1>2, <2>3, <2>4, <2>5, <2>6 DEF Typing, PeerTypes, SessionTypes, ReadTypes, WriteTypes
  <2>8. \A t \in StreamIDs :
          \A f \in {"resetLocally", "finishedReading", "cancelled"} : f \in flags'[t] <=> f \in flags[t]
    BY <2>5
  <2>9. ReadWhileThere'
    <3>1. \A t \in StreamIDs : flags[t] \cap {"finishedReading", "resetRemotely"} # {}
                                => flags'[t] \cap {"finishedReading", "resetRemotely"} # {}
      BY <2>5
    <3> QED BY <1>1, <1>2, <2>4, <2>8, <3>1 DEF ReadWhileThere, accepted
  <2>10. ReadCounted'
    BY <1>1, <1>2, <2>3, <2>5 DEF ReadCounted
  <2>11. NoLostWakeup'
    <3>1. ASSUME NEW t \in StreamIDs PROVE ReaderAwake(t)'
      <4>1. ReaderAwake(t)
        BY <1>1, WakeupHalves
      <4>2. t = s \/ flags'[t] = flags[t]
        BY <2>5
      <4> QED BY <1>2, <2>5, <4>1, <4>2 DEF ReaderAwake, HasHead
    <3>2. ASSUME NEW t \in StreamIDs PROVE WriterAwake(t)'
      <4>1. WriterAwake(t)
        BY <1>1, WakeupHalves
      <4>2. CASE t = s
        BY <1>2, <2>6, <4>1, <4>2 DEF WriterAwake
      <4>3. CASE t # s
        BY <1>2, <2>5, <2>6, <4>1, <4>3 DEF WriterAwake, HasErr
      <4> QED BY <4>2, <4>3
    <3> QED BY <3>1, <3>2 DEF NoLostWakeup, ReaderAwake, WriterAwake
  <2>12. CreditAccounted'
    <3>1. \A t \in StreamIDs : t # s => Held'[t] = Held[t]
      BY <1>2, <2>3, <2>5 DEF Held, Unread
    <3>2. /\ fc[s].highestReceived \in Nat /\ fc[s].bytesRead \in Nat
          /\ conn.highestReceived \in Nat /\ conn.bytesRead \in Nat
      BY <1>1, ControllerFields DEF Typing, ControllerTypes
    <3>3. Held[s] = fc[s].highestReceived - fc[s].bytesRead
      BY <1>1 DEF Held, Unread, ReadCounted
    <3>4. Held'[s] = (fc[s].highestReceived + n) - fc[s].bytesRead
      BY <2>3, <2>5 DEF Held, Unread
    <3>5. (conn'.highestReceived - conn'.bytesRead) - (conn.highestReceived - conn.bytesRead) = n
      BY <2>3, <3>2
    <3>6. (conn'.highestReceived - conn'.bytesRead) - (conn.highestReceived - conn.bytesRead)
            = Held'[s] - Held[s]
      BY <3>2, <3>3, <3>4, <3>5
    <3> QED BY <1>1, <2>7, <3>1, <3>6, CreditMoved
  <2> QED BY <1>3, <2>7, <2>9, <2>10, <2>11, <2>12 DEF IInv
<1> QED BY <1>4, <1>5

-----------------------------------------------------------------------------
(* Window updates. *)

\* They move windows and increments only.
LEMMA GetWindowUpdatesFacts ==
  ASSUME ControllerTypes, GetWindowUpdates
  PROVE  /\ ControllerTypes'
         /\ \A s \in StreamIDs :
              /\ fc'[s].bytesRead = fc[s].bytesRead
              /\ fc'[s].highestReceived = fc[s].highestReceived
              /\ fc'[s].maxReceiveWindowIncrement = fc[s].maxReceiveWindowIncrement
              /\ fc[s].receiveWindowIncrement <= fc[s].maxReceiveWindowIncrement =>
                   /\ fc'[s].receiveWindowIncrement <= fc'[s].maxReceiveWindowIncrement
                   /\ fc[s].receiveWindow <= fc'[s].receiveWindow
         /\ conn'.bytesRead = conn.bytesRead /\ conn'.highestReceived = conn.highestReceived
         /\ conn.receiveWindowIncrement <= conn.maxReceiveWindowIncrement =>
              /\ conn'.receiveWindowIncrement <= conn'.maxReceiveWindowIncrement
              /\ conn.receiveWindow <= conn'.receiveWindow
<1>1. fc \in [StreamIDs -> FlowControllers] /\ conn \in FlowControllers
  BY DEF ControllerTypes
<1>2. PICK fast \in SUBSET {s \in open : NeedsUpdate(fc[s])}, connFast \in BOOLEAN, force \in BOOLEAN :
       LET updated == [s \in StreamIDs |->
             IF s \in open THEN MaybeUpdateWindow(fc[s], s \in fast) ELSE fc[s]]
           growing == {s \in open :
             \/ updated[s].receiveWindowIncrement # fc[s].receiveWindowIncrement
             \/ force /\ ~NeedsUpdate(fc[s])}
           grown == FoldFunctionOnSet(LAMBDA c, acc : EnsureMinimumWindowIncrement(acc, c.receiveWindowIncrement),
                                      conn, updated, growing)
       IN /\ fc' = updated
          /\ conn' = MaybeUpdateWindow(grown, connFast)
  BY DEF GetWindowUpdates
<1> DEFINE updated == [s \in StreamIDs |->
             IF s \in open THEN MaybeUpdateWindow(fc[s], s \in fast) ELSE fc[s]]
           growing == {s \in open :
             \/ updated[s].receiveWindowIncrement # fc[s].receiveWindowIncrement
             \/ force /\ ~NeedsUpdate(fc[s])}
           grown == FoldFunctionOnSet(LAMBDA c, acc : EnsureMinimumWindowIncrement(acc, c.receiveWindowIncrement),
                                      conn, updated, growing)
<1>3. fc' = updated /\ conn' = MaybeUpdateWindow(grown, connFast)
  BY <1>2
<1>4. ASSUME NEW s \in StreamIDs
      PROVE  /\ updated[s] \in FlowControllers
             /\ updated[s].bytesRead = fc[s].bytesRead
             /\ updated[s].highestReceived = fc[s].highestReceived
             /\ updated[s].maxReceiveWindowIncrement = fc[s].maxReceiveWindowIncrement
             /\ fc[s].receiveWindowIncrement <= fc[s].maxReceiveWindowIncrement =>
                  /\ updated[s].receiveWindowIncrement <= updated[s].maxReceiveWindowIncrement
                  /\ fc[s].receiveWindow <= updated[s].receiveWindow
  <2>1. PICK c : c = fc[s]
    OBVIOUS
  <2>2. c \in FlowControllers /\ c.receiveWindow \in Nat
    BY <1>1, <2>1, ControllerFields
  <2>3. PICK b \in BOOLEAN : updated[s] = c \/ updated[s] = MaybeUpdateWindow(c, b)
    <3>1. s \in fast => MaybeUpdateWindow(c, s \in fast) = MaybeUpdateWindow(c, TRUE)
      BY DEF MaybeUpdateWindow
    <3>2. s \notin fast => MaybeUpdateWindow(c, s \in fast) = MaybeUpdateWindow(c, FALSE)
      BY DEF MaybeUpdateWindow
    <3>3. updated[s] = c \/ updated[s] = MaybeUpdateWindow(c, s \in fast)
      BY <2>1
    <3>4. TRUE \in BOOLEAN /\ FALSE \in BOOLEAN
      OBVIOUS
    <3> HIDE DEF updated
    <3> QED BY <3>1, <3>2, <3>3, <3>4
  <2> HIDE DEF updated
  <2>4. CASE updated[s] = c
    BY <2>1, <2>2, <2>4
  <2>5. CASE updated[s] = MaybeUpdateWindow(c, b)
    BY <2>1, <2>2, <2>5, UpdateFacts
  <2> QED BY <2>3, <2>4, <2>5
<1>5. updated \in [StreamIDs -> FlowControllers]
  <2>1. \A s \in StreamIDs :
          (IF s \in open THEN MaybeUpdateWindow(fc[s], s \in fast) ELSE fc[s]) \in FlowControllers
    BY <1>4
  <2> QED BY <2>1
<1>6. growing \in SUBSET StreamIDs
  BY DEF open
<1> HIDE DEF updated, growing
<1>7. /\ grown \in FlowControllers
      /\ grown.bytesRead = conn.bytesRead /\ grown.highestReceived = conn.highestReceived
      /\ grown.receiveWindow = conn.receiveWindow
      /\ grown.maxReceiveWindowIncrement = conn.maxReceiveWindowIncrement
      /\ conn.receiveWindowIncrement <= conn.maxReceiveWindowIncrement =>
           grown.receiveWindowIncrement <= grown.maxReceiveWindowIncrement
  <2>1. PICK c, u, g : c = conn /\ u = updated /\ g = growing
    OBVIOUS
  <2> QED BY <1>1, <1>5, <1>6, GrownFacts
<1> HIDE DEF grown
<1>8. /\ conn' \in FlowControllers
      /\ conn'.bytesRead = grown.bytesRead /\ conn'.highestReceived = grown.highestReceived
      /\ conn'.maxReceiveWindowIncrement = grown.maxReceiveWindowIncrement
      /\ grown.receiveWindowIncrement <= grown.maxReceiveWindowIncrement =>
           /\ conn'.receiveWindowIncrement <= conn'.maxReceiveWindowIncrement
           /\ grown.receiveWindow <= conn'.receiveWindow
  BY <1>3, <1>7, UpdateFacts
<1> QED BY <1>3, <1>4, <1>5, <1>7, <1>8 DEF ControllerTypes

\* Window updates do not touch what is counted.
LEMMA GetWindowUpdatesStep ==
  ASSUME IInv, GetWindowUpdates
  PROVE  IInv'
<1>1. /\ Typing /\ WritingBounded /\ ArrivedWasSent /\ FrameStays /\ ReadWhileThere /\ ReadCounted
      /\ CreditAccounted /\ NoLostWakeup
  BY DEF IInv
<1>2. UNCHANGED <<peerSent, peerEnd, peerWindow, peerConnWindow, status, nextStreamToAccept, error,
                  closed, flags, received, readOffset, reader, readChan, writer, writeChan,
                  dataForWriting, bytesSent, sendWindow, connBytesSent, connSendWindow, popping>>
  BY DEF GetWindowUpdates, peerVars, readVars, writeVars
<1>3. /\ ControllerTypes'
      /\ \A s \in StreamIDs : /\ fc'[s].bytesRead = fc[s].bytesRead
                              /\ fc'[s].highestReceived = fc[s].highestReceived
      /\ conn'.bytesRead = conn.bytesRead /\ conn'.highestReceived = conn.highestReceived
  BY <1>1, GetWindowUpdatesFacts DEF Typing
<1>4. Typing'
  BY <1>1, <1>2, <1>3 DEF Typing, PeerTypes, SessionTypes, ReadTypes, WriteTypes
<1>5. WritingBounded' /\ ArrivedWasSent' /\ FrameStays' /\ ReadWhileThere' /\ NoLostWakeup'
  BY <1>1, <1>2 DEF WritingBounded, ArrivedWasSent, FrameStays, ReadWhileThere, NoLostWakeup,
                    HasHead, HasErr, accepted
<1>6. ReadCounted'
  BY <1>1, <1>2, <1>3 DEF ReadCounted
<1>7. CreditAccounted'
  <2>1. \A s \in StreamIDs : Held'[s] = Held[s]
    BY <1>2, <1>3 DEF Held, Unread
  <2> QED BY <1>1, <1>3, <1>4, <2>1, CreditKept
<1> QED BY <1>3, <1>4, <1>5, <1>6, <1>7 DEF IInv

-----------------------------------------------------------------------------
(* The invariant. *)

\* The controllers start empty.
LEMMA NewControllerFacts ==
  ASSUME NEW window \in Nat, NEW maxWindow \in Nat
  PROVE  LET c == newFlowController(window, maxWindow) IN
         /\ c \in FlowControllers
         /\ c.bytesRead = 0 /\ c.highestReceived = 0
         /\ c.receiveWindow = window /\ c.receiveWindowIncrement = window
         /\ c.maxReceiveWindowIncrement = maxWindow
BY DEF newFlowController, FlowControllers

\* No stream, no data.
LEMMA InitIInv == Init => IInv
<1> SUFFICES ASSUME Init PROVE IInv
  OBVIOUS
<1>1. /\ newFlowController(ReceiveStreamWindow, MaxReceiveStreamWindow) \in FlowControllers
      /\ newFlowController(ReceiveStreamWindow, MaxReceiveStreamWindow).bytesRead = 0
      /\ newFlowController(ReceiveStreamWindow, MaxReceiveStreamWindow).highestReceived = 0
  BY ConstantTypes, NewControllerFacts
<1>2. /\ conn \in FlowControllers /\ conn.bytesRead = 0 /\ conn.highestReceived = 0
  BY ConstantTypes, NewControllerFacts DEF Init
<1>3. /\ fc \in [StreamIDs -> FlowControllers]
      /\ \A s \in StreamIDs : fc[s].bytesRead = 0 /\ fc[s].highestReceived = 0
  BY <1>1 DEF Init
<1>4. Typing
  <2>1. NoPop \in [stream : {0} \cup Writers, len : Nat, max : Nat]
    BY DEF NoPop
  <2>2. PeerTypes
    BY ConstantTypes DEF Init, PeerTypes
  <2>3. SessionTypes
    <3>1. status \in [StreamIDs -> {"none", "open", "gone"}] /\ flags \in [StreamIDs -> SUBSET Flags]
      BY DEF Init
    <3>2. nextStreamToAccept \in 1..NumStreams + 1
      BY ConstantTypes DEF Init
    <3>3. error \in BOOLEAN /\ closed \in BOOLEAN
      BY DEF Init
    <3> QED BY <3>1, <3>2, <3>3 DEF SessionTypes
  <2>4. ReadTypes
    BY DEF Init, ReadTypes
  <2>5. WriteTypes
    BY <2>1, ConstantTypes DEF Init, WriteTypes
  <2> QED BY <1>2, <1>3, <2>2, <2>3, <2>4, <2>5 DEF Typing, ControllerTypes
<1>5. Sum(peerSent) = 0
  BY StreamsFinite, SumOfZeros DEF Init
<1>6. WritingBounded
  BY <1>5, ConstantTypes DEF Init, WritingBounded
<1>7. ArrivedWasSent /\ FrameStays /\ ReadWhileThere /\ ReadCounted
  BY <1>3 DEF Init, ArrivedWasSent, FrameStays, ReadWhileThere, ReadCounted, accepted, StreamIDs
<1>8. NoLostWakeup
  BY DEF Init, NoLostWakeup
<1>9. CreditAccounted
  <2>1. Held \in [StreamIDs -> Int] /\ \A s \in StreamIDs : Held[s] = 0
    BY <1>3, <1>4, HeldType DEF Init, Held, Unread
  <2>2. Sum(Held) = 0
    BY <2>1, StreamsFinite, SumOfZeros
  <2> QED BY <1>2, <2>2, CreditIs
<1> QED BY <1>4, <1>6, <1>7, <1>8, <1>9 DEF IInv

\* Every step keeps it.
LEMMA NextIInv == IInv /\ [Next]_vars => IInv'
<1> SUFFICES ASSUME IInv, [Next]_vars PROVE IInv'
  OBVIOUS
<1>1. CASE Peer
  BY <1>1, PeerStep
<1>2. CASE GetWindowUpdates
  BY <1>2, GetWindowUpdatesStep
<1>3. CASE garbageCollectStreams
  BY <1>3, garbageCollectStreamsStep
<1>4. CASE CloseWithError
  BY <1>4, CloseWithErrorStep
<1>5. CASE AcceptStream
  BY <1>5, AcceptStreamStep
<1>6. ASSUME NEW s \in StreamIDs,
             \/ StreamFrame(s) \/ RstStreamFrame(s) \/ WindowUpdateFrame(s)
             \/ PopCheck(s) \/ PopTake(s)
             \/ Read(s) \/ ReadFrame(s) \/ Write(s) \/ WriteWakes(s) \/ Close(s) \/ Reset(s)
      PROVE  IInv'
  BY <1>6, StreamFrameStep, RstStreamFrameStep, WindowUpdateFrameStep, PopCheckStep, PopTakeStep,
     ReadStep, ReadFrameStep, WriteStep, WriteWakesStep, CloseStep, ResetStep
<1>7. CASE UNCHANGED vars
  <2>1. UNCHANGED <<peerSent, peerEnd, peerWindow, peerConnWindow, status, nextStreamToAccept, fc,
                    conn, error, closed, flags, received, readOffset, reader, readChan, writer,
                    writeChan, dataForWriting, bytesSent, sendWindow, connBytesSent, connSendWindow,
                    popping>>
    BY <1>7 DEF vars, peerVars, readVars, writeVars
  <2>2. /\ Typing /\ WritingBounded /\ ArrivedWasSent /\ FrameStays /\ ReadWhileThere /\ ReadCounted
        /\ CreditAccounted /\ NoLostWakeup
    BY DEF IInv
  <2>3. Typing'
    BY <2>1, <2>2 DEF Typing, PeerTypes, SessionTypes, ControllerTypes, ReadTypes, WriteTypes
  <2>4. /\ WritingBounded' /\ ArrivedWasSent' /\ FrameStays' /\ ReadWhileThere' /\ ReadCounted'
        /\ NoLostWakeup'
    BY <2>1, <2>2 DEF WritingBounded, ArrivedWasSent, FrameStays, ReadWhileThere, ReadCounted,
                      NoLostWakeup, HasHead, HasErr, accepted
  <2>5. CreditAccounted'
    BY <2>1, <2>2 DEF CreditAccounted
  <2> QED BY <2>2, <2>3, <2>4, <2>5 DEF IInv
<1> QED BY <1>1, <1>2, <1>3, <1>4, <1>5, <1>6, <1>7 DEF Next

\* The inductive invariant: it says what each part of a stream relies on the others for.
THEOREM InductiveInvariant == Spec => []IInv
<1>1. Init => IInv
  BY InitIInv
<1>2. IInv /\ [Next]_vars => IInv'
  BY NextIInv
<1> QED BY <1>1, <1>2, PTL DEF Spec

\* The type invariant: more is never read than was received, and a stream leaves the map
\* only after it was seen to end.
THEOREM TypeCorrect == Spec => []TypeOK
<1>1. IInv => TypeOK
  <2> SUFFICES ASSUME IInv PROVE TypeOK
    OBVIOUS
  <2>1. /\ PeerTypes /\ SessionTypes /\ ControllerTypes /\ ReadTypes /\ WriteTypes
        /\ WritingBounded /\ ArrivedWasSent /\ ReadWhileThere
    BY DEF IInv, Typing
  <2>2. peerSent \in [StreamIDs -> 0..MaxSent] /\ peerEnd \in [StreamIDs -> {"none", "fin", "rst"}]
    <3>1. \A s \in StreamIDs : peerSent[s] \in 0..MaxSent
      BY <2>1, PeerSentBounded
    <3> QED BY <2>1, <3>1 DEF PeerTypes
  <2>3. ASSUME NEW s \in StreamIDs
        PROVE  /\ status[s] = "gone" => "cancelled" \in flags[s] \/ flags[s] \cap {"finishedReading", "resetRemotely"} # {}
               /\ FIN \in received[s] => peerEnd[s] = "fin"
               /\ 0..readOffset[s] - 1 \subseteq received[s]
               /\ dataForWriting[s] \in 0..MaxWritten /\ bytesSent[s] \in 0..MaxWritten
    <3>1. dataForWriting[s] \in 0..MaxWritten /\ bytesSent[s] \in 0..MaxWritten
      BY <2>1, ConstantTypes DEF WriteTypes, WritingBounded
    <3>2. 0..readOffset[s] - 1 \subseteq received[s]
      BY <2>1 DEF ArrivedWasSent
    <3> QED BY <2>1, <3>1, <3>2 DEF ArrivedWasSent, ReadWhileThere
  <2>4. popping.stream \in {0} \cup Writers
    BY <2>1 DEF WriteTypes
  <2> QED BY <2>1, <2>2, <2>3, <2>4 DEF TypeOK, SessionTypes, ControllerTypes, ReadTypes, WriteTypes
<1> QED BY <1>1, InductiveInvariant, PTL

\* The connection's controller owes exactly what the streams still hold: UpdateHighestReceived
\* and AddBytesRead of the manager agree whatever the order of frames, reads and resets.
THEOREM CreditNeverLeaks == Spec => []CreditAccounted
<1>1. IInv => CreditAccounted
  BY DEF IInv
<1> QED BY <1>1, InductiveInvariant, PTL

\* The token of readChan or writeChan is there when Read or Write has a reason to return.
THEOREM WakeupsKept == Spec => []NoLostWakeup
<1>1. IInv => NoLostWakeup
  BY DEF IInv
<1> QED BY <1>1, InductiveInvariant, PTL

-----------------------------------------------------------------------------
(* What is sent fits the peer's windows. *)

\* What the framer has looked at still fits when it takes it.
SendingFits ==
  /\ \A s \in StreamIDs : bytesSent[s] <= sendWindow[s]
  /\ connBytesSent <= connSendWindow
  /\ popping.len # 0 =>
       /\ popping.stream \in StreamIDs
       /\ bytesSent[popping.stream] + popping.max <= sendWindow[popping.stream]
       /\ connBytesSent + popping.max <= connSendWindow

\* What SendingFits speaks of.
LEMMA SendingKept ==
  ASSUME SendingFits, UNCHANGED <<bytesSent, sendWindow, connBytesSent, connSendWindow, popping>>
  PROVE  SendingFits'
BY DEF SendingFits

\* A window of the peer's only grows.
LEMMA WindowUpdateFrameSending ==
  ASSUME WriteTypes, SendingFits, NEW s \in StreamIDs, WindowUpdateFrame(s)
  PROVE  SendingFits'
<1>1. popping'.len = 0 /\ UNCHANGED <<bytesSent, connBytesSent>>
  BY DEF WindowUpdateFrame, RunLoopFree, NoPop
<1>2. CASE /\ sendWindow' = [sendWindow EXCEPT ![s] = @ + 1] /\ UNCHANGED connSendWindow
  <2>1. \A t \in StreamIDs : sendWindow[t] <= sendWindow'[t]
    BY <1>2 DEF WriteTypes
  <2>2. sendWindow' \in [StreamIDs -> Nat]
    BY <1>2 DEF WriteTypes
  <2> QED BY <1>1, <1>2, <2>1, <2>2 DEF SendingFits, WriteTypes
<1>3. CASE /\ connSendWindow' = connSendWindow + 1 /\ UNCHANGED sendWindow
  BY <1>1, <1>3 DEF SendingFits, WriteTypes
<1> QED BY <1>2, <1>3 DEF WindowUpdateFrame

\* What the windows allow is the smaller of the two.
LEMMA PopCheckSending ==
  ASSUME WriteTypes, SendingFits, NEW s \in StreamIDs, PopCheck(s)
  PROVE  SendingFits'
<1> DEFINE len == IF HasErr(s) THEN 0 ELSE dataForWriting[s]
           window == Least(SendWindowSize(sendWindow[s], bytesSent[s]),
                           SendWindowSize(connSendWindow, connBytesSent))
<1>1. popping' = [stream |-> s, len |-> len, max |-> IF len # 0 THEN window ELSE MaxWritten]
      /\ UNCHANGED <<bytesSent, sendWindow, connBytesSent, connSendWindow>>
  BY DEF PopCheck
<1>2. /\ bytesSent[s] \in Nat /\ sendWindow[s] \in Nat /\ connBytesSent \in Nat /\ connSendWindow \in Nat
      /\ bytesSent[s] <= sendWindow[s] /\ connBytesSent <= connSendWindow
  BY DEF WriteTypes, SendingFits
<1>3. bytesSent[s] + window <= sendWindow[s] /\ connBytesSent + window <= connSendWindow
  BY <1>2 DEF Least, SendWindowSize
<1> HIDE DEF len, window
<1>4. popping'.stream = s /\ popping'.len = len /\ (len # 0 => popping'.max = window)
  BY <1>1
<1> QED BY <1>1, <1>3, <1>4 DEF SendingFits

\* No more is taken than was allowed, however much has been written since.
LEMMA PopTakeSending ==
  ASSUME WriteTypes, SendingFits, NEW s \in StreamIDs, PopTake(s)
  PROVE  SendingFits'
<1>1. popping.stream = s /\ popping' = NoPop /\ UNCHANGED <<sendWindow, connSendWindow>>
  BY DEF PopTake
<1>2. PICK taken \in {Taken(s)} \cup (1..Taken(s)) :
        /\ bytesSent' = [bytesSent EXCEPT ![s] = @ + taken]
        /\ connBytesSent' = connBytesSent + taken
  BY DEF PopTake
<1>3. /\ dataForWriting[s] \in Nat /\ popping.max \in Nat /\ popping.len \in Nat
      /\ bytesSent \in [StreamIDs -> Nat] /\ sendWindow \in [StreamIDs -> Nat]
      /\ connBytesSent \in Nat /\ connSendWindow \in Nat
  BY DEF WriteTypes
<1>4. taken \in Nat /\ (popping.len = 0 => taken = 0) /\ taken <= Taken(s)
  BY <1>2, <1>3 DEF Taken, Least
<1>5. popping.len # 0 => taken <= popping.max
  BY <1>3, <1>4 DEF Taken, Least
<1>6. bytesSent[s] + taken <= sendWindow[s] /\ connBytesSent + taken <= connSendWindow
  <2>1. /\ bytesSent[s] <= sendWindow[s] /\ connBytesSent <= connSendWindow
        /\ popping.len # 0 => /\ bytesSent[s] + popping.max <= sendWindow[s]
                              /\ connBytesSent + popping.max <= connSendWindow
    BY <1>1 DEF SendingFits
  <2>2. bytesSent[s] \in Nat /\ sendWindow[s] \in Nat
    BY <1>3
  <2> QED BY <1>3, <1>4, <1>5, <2>1, <2>2
<1>7. \A t \in StreamIDs : bytesSent'[t] <= sendWindow[t]
  BY <1>2, <1>3, <1>6 DEF SendingFits
<1>8. NoPop.len = 0
  BY DEF NoPop
<1> QED BY <1>1, <1>2, <1>6, <1>7, <1>8 DEF SendingFits

\* No other step touches what is sent or its windows.
LEMMA NextSending == IInv /\ SendingFits /\ [Next]_vars => SendingFits'
<1> SUFFICES ASSUME IInv, SendingFits, [Next]_vars PROVE SendingFits'
  OBVIOUS
<1>0. WriteTypes
  BY DEF IInv, Typing
<1>1. CASE Peer \/ GetWindowUpdates \/ garbageCollectStreams \/ CloseWithError \/ AcceptStream
  BY <1>1, SendingKept DEF Peer, GetWindowUpdates, garbageCollectStreams, CloseWithError, AcceptStream,
                           writeVars
<1>2. ASSUME NEW s \in StreamIDs,
             \/ StreamFrame(s) \/ RstStreamFrame(s) \/ Read(s) \/ ReadFrame(s)
             \/ Write(s) \/ WriteWakes(s) \/ Close(s) \/ Reset(s)
      PROVE  SendingFits'
  BY <1>2, SendingKept DEF StreamFrame, RstStreamFrame, Read, ReadFrame, Write, WriteWakes, Close, Reset,
                           writeVars
<1>3. ASSUME NEW s \in StreamIDs, WindowUpdateFrame(s) \/ PopCheck(s) \/ PopTake(s)
      PROVE  SendingFits'
  BY <1>0, <1>3, WindowUpdateFrameSending, PopCheckSending, PopTakeSending
<1>4. CASE UNCHANGED vars
  BY <1>4, SendingKept DEF vars, writeVars
<1> QED BY <1>1, <1>2, <1>3, <1>4 DEF Next

-----------------------------------------------------------------------------
(* What the peer sends fits the windows it was told. *)

\* The limits as a session is configured: a window is not larger than the maximum it may
\* grow to, and the peer opens no more streams than are allowed.
WindowsConfigured ==
  /\ NumStreams <= MaxIncomingStreams
  /\ ReceiveStreamWindow <= MaxReceiveStreamWindow
  /\ ReceiveConnectionWindow <= MaxReceiveConnectionWindow

\* What the controllers have received, by stream.
Heights(cs) == [s \in StreamIDs |-> cs[s].highestReceived]

\* A window the peer knows of is never larger than the present one, and the connection's
\* controller counts what those of the streams count.
ReceivingFits ==
  /\ error = FALSE
  /\ \A s \in StreamIDs :
       /\ fc[s].highestReceived <= peerSent[s] /\ peerSent[s] <= peerWindow[s]
       /\ peerWindow[s] <= fc[s].receiveWindow
       /\ fc[s].receiveWindowIncrement <= fc[s].maxReceiveWindowIncrement
  /\ Sum(peerSent) <= peerConnWindow /\ peerConnWindow <= conn.receiveWindow
  /\ conn.receiveWindowIncrement <= conn.maxReceiveWindowIncrement
  /\ conn.highestReceived = Sum(Heights(fc))

\* They are integers.
LEMMA HeightsType ==
  ASSUME NEW cs \in [StreamIDs -> FlowControllers]
  PROVE  Heights(cs) \in [StreamIDs -> Int]
BY ControllerFields DEF Heights

\* Heights is all ReceivingFits needs of highestReceived.
LEMMA ReceivingKept ==
  ASSUME ReceivingFits, ControllerTypes, ControllerTypes', error' = FALSE,
         UNCHANGED <<peerSent, peerWindow, peerConnWindow>>,
         \A s \in StreamIDs :
           /\ fc'[s].highestReceived = fc[s].highestReceived
           /\ fc[s].receiveWindow <= fc'[s].receiveWindow
           /\ fc'[s].receiveWindowIncrement <= fc'[s].maxReceiveWindowIncrement,
         conn'.highestReceived = conn.highestReceived,
         conn.receiveWindow <= conn'.receiveWindow,
         conn'.receiveWindowIncrement <= conn'.maxReceiveWindowIncrement,
         PeerTypes
  PROVE  ReceivingFits'
<1>1. Heights(fc') = Heights(fc)
  BY DEF Heights
<1>2. /\ conn.receiveWindow \in Nat /\ conn'.receiveWindow \in Nat
      /\ \A s \in StreamIDs : fc[s].receiveWindow \in Nat /\ fc'[s].receiveWindow \in Nat
  BY ControllerFields DEF ControllerTypes
<1>3. peerConnWindow \in Nat /\ \A s \in StreamIDs : peerWindow[s] \in Nat
  BY DEF PeerTypes
<1>4. peerConnWindow <= conn'.receiveWindow
  BY <1>2, <1>3 DEF ReceivingFits
<1>5. \A s \in StreamIDs : peerWindow[s] <= fc'[s].receiveWindow
  BY <1>2, <1>3 DEF ReceivingFits
<1> QED BY <1>1, <1>4, <1>5 DEF ReceivingFits

\* An offset the peer has reached violates no window.
LEMMA ReceiveOffsetFits ==
  ASSUME PeerTypes, ControllerTypes, ReceivingFits,
         UNCHANGED <<peerSent, peerWindow, peerConnWindow>>,
         NEW s \in StreamIDs, NEW byteOffset \in Nat, byteOffset <= peerSent[s],
         ReceiveOffset(s, byteOffset)
  PROVE  ReceivingFits'
<1>1. /\ fc \in [StreamIDs -> FlowControllers] /\ conn \in FlowControllers
      /\ fc[s] \in FlowControllers /\ peerSent \in [StreamIDs -> Nat]
      /\ peerWindow \in [StreamIDs -> Nat] /\ peerConnWindow \in Nat
  BY DEF ControllerTypes, PeerTypes
<1>2. /\ fc' = [fc EXCEPT ![s] = UpdateHighestReceived(@, byteOffset)]
      /\ conn' = IncrementHighestReceived(conn, Increment(fc[s], byteOffset))
      /\ error' = (CheckFlowControlViolation(fc'[s]) \/ CheckFlowControlViolation(conn'))
  BY DEF ReceiveOffset
<1>3. PICK n \in Nat : n = Increment(fc[s], byteOffset)
  BY <1>1, ReceiveFacts
<1>4. /\ fc'[s] \in FlowControllers
      /\ fc'[s].receiveWindow = fc[s].receiveWindow
      /\ fc'[s].receiveWindowIncrement = fc[s].receiveWindowIncrement
      /\ fc'[s].maxReceiveWindowIncrement = fc[s].maxReceiveWindowIncrement
      /\ fc'[s].highestReceived = fc[s].highestReceived + n
      /\ fc'[s].highestReceived \in {fc[s].highestReceived, byteOffset}
  <2>1. fc'[s] = UpdateHighestReceived(fc[s], byteOffset)
    BY <1>1, <1>2
  <2>2. /\ UpdateHighestReceived(fc[s], byteOffset) \in FlowControllers
        /\ UpdateHighestReceived(fc[s], byteOffset).receiveWindow = fc[s].receiveWindow
        /\ UpdateHighestReceived(fc[s], byteOffset).receiveWindowIncrement = fc[s].receiveWindowIncrement
        /\ UpdateHighestReceived(fc[s], byteOffset).maxReceiveWindowIncrement = fc[s].maxReceiveWindowIncrement
        /\ UpdateHighestReceived(fc[s], byteOffset).highestReceived
             = fc[s].highestReceived + Increment(fc[s], byteOffset)
        /\ UpdateHighestReceived(fc[s], byteOffset).highestReceived \in {fc[s].highestReceived, byteOffset}
    BY <1>1, ReceiveFacts
  <2> QED BY <1>3, <2>1, <2>2
<1>5. fc' \in [StreamIDs -> FlowControllers] /\ \A t \in StreamIDs : t # s => fc'[t] = fc[t]
  <2>1. UpdateHighestReceived(fc[s], byteOffset) \in FlowControllers
    BY <1>1, ReceiveFacts
  <2> QED BY <1>1, <1>2, <2>1
<1>6. /\ conn' \in FlowControllers
      /\ conn'.receiveWindow = conn.receiveWindow
      /\ conn'.receiveWindowIncrement = conn.receiveWindowIncrement
      /\ conn'.maxReceiveWindowIncrement = conn.maxReceiveWindowIncrement
      /\ conn'.highestReceived = conn.highestReceived + n
  BY <1>1, <1>2, <1>3, IncrementFacts
<1>7. \A t \in StreamIDs :
        /\ fc'[t].highestReceived <= peerSent[t]
        /\ fc'[t].receiveWindow = fc[t].receiveWindow
        /\ fc'[t].receiveWindowIncrement <= fc'[t].maxReceiveWindowIncrement
  BY <1>4, <1>5 DEF ReceivingFits
<1>8. conn'.highestReceived = Sum(Heights(fc')) /\ conn'.highestReceived <= Sum(peerSent)
  <2>1. PICK f, h, p : f = Heights(fc) /\ h = Heights(fc') /\ p = peerSent
    OBVIOUS
  <2>2. f \in [StreamIDs -> Int] /\ h \in [StreamIDs -> Int] /\ p \in [StreamIDs -> Int]
    BY <1>1, <1>5, <2>1, HeightsType
  <2>3. \A t \in StreamIDs : h[t] = fc'[t].highestReceived /\ f[t] = fc[t].highestReceived
    BY <2>1 DEF Heights
  <2>4. \A t \in StreamIDs : t # s => h[t] = f[t]
    BY <1>5, <2>3
  <2>5. Sum(f) \in Int /\ Sum(h) \in Int /\ Sum(h) - Sum(f) = h[s] - f[s]
    BY <2>2, <2>4, StreamsFinite, SumChange
  <2>6. h[s] - f[s] = n
    BY <1>1, <1>4, <2>3, ControllerFields
  <2>7. conn.highestReceived = Sum(f)
    BY <2>1 DEF ReceivingFits
  <2>8. conn'.highestReceived = Sum(h)
    BY <1>6, <2>5, <2>6, <2>7
  <2>9. \A t \in StreamIDs : h[t] <= p[t]
    BY <1>7, <2>1, <2>3
  <2>10. Sum(h) <= Sum(p)
    BY <2>2, <2>9, StreamsFinite, SumMonotone
  <2> QED BY <2>1, <2>8, <2>10
<1>9. Sum(peerSent) \in Int
  <2>1. peerSent \in [StreamIDs -> Int]
    BY <1>1
  <2> QED BY <2>1, StreamsFinite, SumMonotone
<1>10. ~CheckFlowControlViolation(conn')
  <2>1. /\ conn'.highestReceived \in Nat /\ conn.receiveWindow \in Nat
        /\ Sum(peerSent) <= peerConnWindow /\ peerConnWindow <= conn.receiveWindow
    BY <1>1, <1>6, ControllerFields DEF ReceivingFits
  <2>2. conn'.highestReceived <= conn.receiveWindow
    BY <1>1, <1>8, <1>9, <2>1
  <2> QED BY <1>6, <2>1, <2>2 DEF CheckFlowControlViolation
<1>11. ~CheckFlowControlViolation(fc'[s])
  <2>1. /\ fc'[s].highestReceived \in Nat /\ fc[s].receiveWindow \in Nat
        /\ peerSent[s] \in Nat /\ peerWindow[s] \in Nat
        /\ fc'[s].highestReceived <= peerSent[s] /\ peerSent[s] <= peerWindow[s]
        /\ peerWindow[s] <= fc[s].receiveWindow
    BY <1>1, <1>4, <1>7, ControllerFields DEF ReceivingFits
  <2>2. fc'[s].highestReceived <= fc[s].receiveWindow
    BY <2>1
  <2> QED BY <1>4, <2>1, <2>2 DEF CheckFlowControlViolation
<1>12. error' = FALSE
  BY <1>2, <1>10, <1>11
<1> QED BY <1>6, <1>7, <1>8, <1>12 DEF ReceivingFits

\* The peer stays within the windows it knows of.
LEMMA PeerReceiving ==
  ASSUME Typing, ReceivingFits, Peer
  PROVE  ReceivingFits'
<1>1. UNCHANGED <<error, fc, conn>>
  BY DEF Peer
<1>2. /\ peerSent \in [StreamIDs -> Nat] /\ peerWindow \in [StreamIDs -> Nat] /\ peerConnWindow \in Nat
      /\ fc \in [StreamIDs -> FlowControllers] /\ conn \in FlowControllers
  BY DEF Typing, PeerTypes, ControllerTypes
<1>3. /\ error = FALSE /\ conn.highestReceived = Sum(Heights(fc))
      /\ conn.receiveWindowIncrement <= conn.maxReceiveWindowIncrement
      /\ Sum(peerSent) <= peerConnWindow /\ peerConnWindow <= conn.receiveWindow
      /\ \A s \in StreamIDs :
           /\ fc[s].highestReceived <= peerSent[s] /\ peerSent[s] <= peerWindow[s]
           /\ peerWindow[s] <= fc[s].receiveWindow
           /\ fc[s].receiveWindowIncrement <= fc[s].maxReceiveWindowIncrement
  BY DEF ReceivingFits
<1>4. /\ conn.receiveWindow \in Nat
      /\ \A s \in StreamIDs : fc[s].receiveWindow \in Nat /\ fc[s].highestReceived \in Nat
  BY <1>2, ControllerFields
<1>5. Sum(peerSent) \in Int
  <2>1. peerSent \in [StreamIDs -> Int]
    BY <1>2
  <2> QED BY <2>1, StreamsFinite, SumMonotone
<1>6. /\ Sum(peerSent') <= peerConnWindow' /\ peerConnWindow' <= conn.receiveWindow
      /\ \A s \in StreamIDs : /\ fc[s].highestReceived <= peerSent'[s]
                              /\ peerSent'[s] <= peerWindow'[s]
                              /\ peerWindow'[s] <= fc[s].receiveWindow
  <2>1. CASE PeerLearnsConnWindow
    BY <1>2, <1>3, <1>4, <1>5, <2>1 DEF PeerLearnsConnWindow
  <2>2. ASSUME NEW s \in StreamIDs, PeerSend(s)
        PROVE  <1>6!:
    <3>1. /\ peerSent[s] < peerWindow[s] /\ Sum(peerSent) < peerConnWindow
          /\ peerSent' = [peerSent EXCEPT ![s] = @ + 1]
          /\ UNCHANGED <<peerWindow, peerConnWindow>>
      BY <2>2 DEF PeerSend
    <3>2. peerSent' \in [StreamIDs -> Nat] /\ peerSent'[s] = peerSent[s] + 1
          /\ \A t \in StreamIDs : t # s => peerSent'[t] = peerSent[t]
      BY <1>2, <3>1
    <3>3. Sum(peerSent') \in Int /\ Sum(peerSent') - Sum(peerSent) = peerSent'[s] - peerSent[s]
      <4>1. PICK g, h : g = peerSent /\ h = peerSent'
        OBVIOUS
      <4>2. g \in [StreamIDs -> Int] /\ h \in [StreamIDs -> Int]
            /\ \A t \in StreamIDs : t # s => h[t] = g[t]
        BY <1>2, <3>2, <4>1
      <4> QED BY <4>1, <4>2, StreamsFinite, SumChange
    <3>4. Sum(peerSent') <= peerConnWindow
      BY <1>2, <1>5, <3>1, <3>2, <3>3
    <3>5. \A t \in StreamIDs : fc[t].highestReceived <= peerSent'[t] /\ peerSent'[t] <= peerWindow[t]
      <4> TAKE t \in StreamIDs
      <4>1. /\ fc[t].highestReceived \in Nat /\ peerSent[t] \in Nat /\ peerWindow[t] \in Nat
            /\ fc[t].highestReceived <= peerSent[t] /\ peerSent[t] <= peerWindow[t]
        BY <1>2, <1>3, <1>4
      <4>2. peerSent'[t] = peerSent[t] \/ (t = s /\ peerSent'[t] = peerSent[t] + 1)
        BY <3>2
      <4> QED BY <3>1, <4>1, <4>2
    <3> QED BY <1>3, <3>1, <3>4, <3>5
  <2>3. ASSUME NEW s \in StreamIDs, PeerEnds(s)
        PROVE  <1>6!:
    BY <1>3, <2>3 DEF PeerEnds
  <2>4. ASSUME NEW s \in StreamIDs, PeerLearnsWindow(s)
        PROVE  <1>6!:
    <3>1. /\ peerWindow' = [peerWindow EXCEPT ![s] = fc[s].receiveWindow]
          /\ UNCHANGED <<peerSent, peerConnWindow>>
      BY <2>4 DEF PeerLearnsWindow
    <3>2. \A t \in StreamIDs : peerSent[t] <= peerWindow'[t] /\ peerWindow'[t] <= fc[t].receiveWindow
      <4> TAKE t \in StreamIDs
      <4>1. /\ peerSent[t] \in Nat /\ peerWindow[t] \in Nat /\ fc[t].receiveWindow \in Nat
            /\ peerSent[t] <= peerWindow[t] /\ peerWindow[t] <= fc[t].receiveWindow
        BY <1>2, <1>3, <1>4
      <4>2. peerWindow'[t] = peerWindow[t] \/ peerWindow'[t] = fc[t].receiveWindow
        BY <1>2, <3>1
      <4> QED BY <4>1, <4>2
    <3> QED BY <1>3, <3>1, <3>2
  <2> QED BY <2>1, <2>2, <2>3, <2>4 DEF Peer
<1> QED BY <1>1, <1>3, <1>6 DEF ReceivingFits

\* A peer that opens only the streams it may is never refused one.
LEMMA NeverTooMany ==
  ASSUME WindowsConfigured, NEW s \in StreamIDs
  PROVE  ~TooManyOpenStreams(s)
<1>1. open \cup New(s) \subseteq StreamIDs
  BY ConstantTypes DEF open, New, StreamIDs
<1>2. Cardinality(open \cup New(s)) \in Nat /\ Cardinality(open \cup New(s)) <= Cardinality(StreamIDs)
  BY <1>1, StreamsFinite, FS_Subset, FS_CardinalityType
<1>3. Cardinality(StreamIDs) = NumStreams
  BY ConstantTypes, FS_Interval DEF StreamIDs
<1> QED BY <1>2, <1>3, ConstantTypes DEF TooManyOpenStreams, WindowsConfigured

\* A frame ends at an offset the peer has reached.
LEMMA StreamFrameReceiving ==
  ASSUME WindowsConfigured, IInv, ReceivingFits, NEW s \in StreamIDs, StreamFrame(s)
  PROVE  ReceivingFits'
<1>1. PeerTypes /\ ControllerTypes /\ WritingBounded
  BY DEF IInv, Typing
<1>2. UNCHANGED <<peerSent, peerWindow, peerConnWindow>>
  BY DEF StreamFrame, peerVars
<1>3. \/ \E unit \in 0..peerSent[s] - 1 : AddStreamFrame(s, unit, unit + 1)
      \/ AddStreamFrame(s, FIN, peerSent[s])
  BY NeverTooMany DEF StreamFrame
<1>4. peerSent[s] \in Nat
  BY <1>1 DEF PeerTypes
<1>5. PICK byteOffset \in Nat : byteOffset <= peerSent[s] /\ ReceiveOffset(s, byteOffset)
  <2>1. CASE \E unit \in 0..peerSent[s] - 1 : AddStreamFrame(s, unit, unit + 1)
    <3>1. PICK unit \in 0..peerSent[s] - 1 : AddStreamFrame(s, unit, unit + 1)
      BY <2>1
    <3>2. unit + 1 \in Nat /\ unit + 1 <= peerSent[s]
      BY <1>4
    <3> QED BY <3>1, <3>2 DEF AddStreamFrame
  <2>2. CASE AddStreamFrame(s, FIN, peerSent[s])
    BY <1>4, <2>2 DEF AddStreamFrame
  <2> QED BY <1>3, <2>1, <2>2
<1> QED BY <1>1, <1>2, <1>5, ReceiveOffsetFits

\* So does a reset, and it is not behind what has been received.
LEMMA RstStreamFrameReceiving ==
  ASSUME WindowsConfigured, IInv, ReceivingFits, NEW s \in StreamIDs, RstStreamFrame(s)
  PROVE  ReceivingFits'
<1>1. PeerTypes /\ ControllerTypes
  BY DEF IInv, Typing
<1>2. UNCHANGED <<peerSent, peerWindow, peerConnWindow>>
  BY DEF RstStreamFrame, peerVars
<1>3. ResetStream(s, peerSent[s])
  BY NeverTooMany DEF RstStreamFrame
<1>4. peerSent[s] \in Nat /\ fc[s].highestReceived \in Nat /\ fc[s].highestReceived <= peerSent[s]
  BY <1>1, ControllerFields DEF PeerTypes, ControllerTypes, ReceivingFits
<1>5. ReceiveOffset(s, peerSent[s])
  BY <1>3, <1>4 DEF ResetStream
<1> QED BY <1>1, <1>2, <1>4, <1>5, ReceiveOffsetFits

\* Windows only grow.
LEMMA GetWindowUpdatesReceiving ==
  ASSUME IInv, ReceivingFits, GetWindowUpdates
  PROVE  ReceivingFits'
<1>1. PeerTypes /\ ControllerTypes
  BY DEF IInv, Typing
<1>2. UNCHANGED <<peerSent, peerWindow, peerConnWindow, error>>
  BY DEF GetWindowUpdates, peerVars
<1>3. /\ \A s \in StreamIDs : fc[s].receiveWindowIncrement <= fc[s].maxReceiveWindowIncrement
      /\ conn.receiveWindowIncrement <= conn.maxReceiveWindowIncrement
      /\ error = FALSE
  BY DEF ReceivingFits
<1> QED BY <1>1, <1>2, <1>3, GetWindowUpdatesFacts, ReceivingKept

\* Reading moves no window.
LEMMA ReadFrameReceiving ==
  ASSUME IInv, ReceivingFits, NEW s \in StreamIDs, ReadFrame(s)
  PROVE  ReceivingFits'
<1>1. PeerTypes /\ ControllerTypes
  BY DEF IInv, Typing
<1>2. UNCHANGED <<peerSent, peerWindow, peerConnWindow, error>>
  BY DEF ReadFrame, peerVars
<1>3. CASE UNCHANGED <<fc, conn>>
  BY <1>2, <1>3 DEF ReceivingFits
<1>4. CASE fc' = [fc EXCEPT ![s] = AddBytesRead(@, 1)] /\ conn' = AddBytesRead(conn, 1)
  <2>1. fc \in [StreamIDs -> FlowControllers] /\ fc[s] \in FlowControllers /\ conn \in FlowControllers
    BY <1>1 DEF ControllerTypes
  <2>2. /\ AddBytesRead(fc[s], 1) \in FlowControllers
        /\ AddBytesRead(fc[s], 1).highestReceived = fc[s].highestReceived
        /\ AddBytesRead(fc[s], 1).receiveWindow = fc[s].receiveWindow
        /\ AddBytesRead(fc[s], 1).receiveWindowIncrement = fc[s].receiveWindowIncrement
        /\ AddBytesRead(fc[s], 1).maxReceiveWindowIncrement = fc[s].maxReceiveWindowIncrement
    BY <2>1, AddBytesReadFacts
  <2>3. /\ conn' \in FlowControllers
        /\ conn'.highestReceived = conn.highestReceived
        /\ conn'.receiveWindow = conn.receiveWindow
        /\ conn'.receiveWindowIncrement = conn.receiveWindowIncrement
        /\ conn'.maxReceiveWindowIncrement = conn.maxReceiveWindowIncrement
    BY <1>4, <2>1, AddBytesReadFacts
  <2>4. /\ fc' \in [StreamIDs -> FlowControllers]
        /\ \A t \in StreamIDs :
             /\ fc'[t].highestReceived = fc[t].highestReceived
             /\ fc'[t].receiveWindow = fc[t].receiveWindow
             /\ fc'[t].receiveWindowIncrement = fc[t].receiveWindowIncrement
             /\ fc'[t].maxReceiveWindowIncrement = fc[t].maxReceiveWindowIncrement
    BY <1>4, <2>1, <2>2
  <2>5. Heights(fc') = Heights(fc)
    BY <2>4 DEF Heights
  <2> QED BY <1>2, <2>3, <2>4, <2>5 DEF ReceivingFits
<1> QED BY <1>3, <1>4 DEF ReadFrame, CountRead

\* Every step keeps it.
LEMMA NextReceiving ==
  ASSUME WindowsConfigured
  PROVE  IInv /\ ReceivingFits /\ [Next]_vars => ReceivingFits'
<1> SUFFICES ASSUME IInv, ReceivingFits, [Next]_vars PROVE ReceivingFits'
  OBVIOUS
<1>1. CASE Peer
  BY <1>1, PeerReceiving DEF IInv
<1>2. CASE GetWindowUpdates
  BY <1>2, GetWindowUpdatesReceiving
<1>3. ASSUME UNCHANGED <<peerSent, peerWindow, peerConnWindow, fc, conn, error>>
      PROVE  ReceivingFits'
  BY <1>3 DEF ReceivingFits
<1>4. CASE garbageCollectStreams \/ CloseWithError \/ AcceptStream
  BY <1>3, <1>4 DEF garbageCollectStreams, CloseWithError, AcceptStream, peerVars
<1>5. ASSUME NEW s \in StreamIDs,
             \/ WindowUpdateFrame(s) \/ PopCheck(s) \/ PopTake(s)
             \/ Read(s) \/ Write(s) \/ WriteWakes(s) \/ Close(s) \/ Reset(s)
      PROVE  ReceivingFits'
  BY <1>3, <1>5 DEF WindowUpdateFrame, PopCheck, PopTake, Read, Write, WriteWakes, Close, Reset, peerVars
<1>6. ASSUME NEW s \in StreamIDs, StreamFrame(s) \/ RstStreamFrame(s) \/ ReadFrame(s)
      PROVE  ReceivingFits'
  BY <1>6, StreamFrameReceiving, RstStreamFrameReceiving, ReadFrameReceiving
<1>7. CASE UNCHANGED vars
  BY <1>3, <1>7 DEF vars, peerVars
<1> QED BY <1>1, <1>2, <1>4, <1>5, <1>6, <1>7 DEF Next

\* A session starts with the windows it is configured with, and the peer knows them.
LEMMA InitWindows == Init /\ WindowsConfigured => SendingFits /\ ReceivingFits
<1> SUFFICES ASSUME Init, WindowsConfigured PROVE SendingFits /\ ReceivingFits
  OBVIOUS
<1>1. SendingFits
  BY ConstantTypes DEF Init, SendingFits, NoPop
<1> DEFINE c == newFlowController(ReceiveStreamWindow, MaxReceiveStreamWindow)
<1>2. /\ c \in FlowControllers /\ c.highestReceived = 0 /\ c.receiveWindow = ReceiveStreamWindow
      /\ c.receiveWindowIncrement = ReceiveStreamWindow
      /\ c.maxReceiveWindowIncrement = MaxReceiveStreamWindow
  BY ConstantTypes, NewControllerFacts
<1>3. /\ conn.highestReceived = 0 /\ conn.receiveWindow = ReceiveConnectionWindow
      /\ conn.receiveWindowIncrement = ReceiveConnectionWindow
      /\ conn.maxReceiveWindowIncrement = MaxReceiveConnectionWindow
  BY ConstantTypes, NewControllerFacts DEF Init
<1>4. fc = [s \in StreamIDs |-> c]
  BY DEF Init
<1> HIDE DEF c
<1>5. Sum(Heights(fc)) = 0
  <2>1. \A s \in StreamIDs : Heights(fc)[s] = 0
    BY <1>2, <1>4 DEF Heights
  <2>2. Heights(fc) \in [StreamIDs -> Int]
    BY <1>2, <1>4, HeightsType
  <2> QED BY <2>1, <2>2, StreamsFinite, SumOfZeros
<1>6. Sum(peerSent) = 0
  BY StreamsFinite, SumOfZeros DEF Init
<1>7. ReceivingFits
  BY <1>2, <1>3, <1>4, <1>5, <1>6, ConstantTypes DEF Init, WindowsConfigured, ReceivingFits
<1> QED BY <1>1, <1>7

\* Whatever Write and Reset do between PopCheck and PopTake, what is taken fits the windows
\* of the stream and of the connection.
THEOREM FramerFits == Spec => []SendingFits
<1>1. Init => SendingFits
  BY ConstantTypes DEF Init, SendingFits, NoPop
<1>2. IInv /\ SendingFits /\ [Next]_vars => SendingFits'
  BY NextSending
<1> QED BY <1>1, <1>2, InductiveInvariant, PTL DEF Spec

\* Neither end exceeds a window.  For what is sent this needs the room found by PopCheck to
\* be there when PopTake uses it; for what is received, that the session never takes back a
\* window it told the peer of, and that the connection counts what the streams count.
THEOREM WindowsNeverExceeded == WindowsConfigured => (Spec => []WindowsRespected)
<1> SUFFICES ASSUME WindowsConfigured PROVE Spec => []WindowsRespected
  OBVIOUS
<1>1. Init => IInv /\ SendingFits /\ ReceivingFits
  BY InitIInv, InitWindows
<1>2. IInv /\ SendingFits /\ ReceivingFits /\ [Next]_vars => (IInv /\ SendingFits /\ ReceivingFits)'
  BY NextIInv, NextSending, NextReceiving
<1>3. SendingFits /\ ReceivingFits => WindowsRespected
  BY ConstantTypes DEF SendingFits, ReceivingFits, WindowsRespected
<1> QED BY <1>1, <1>2, <1>3, PTL DEF Spec

=============================================================================

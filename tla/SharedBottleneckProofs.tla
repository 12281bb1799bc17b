----------------------- MODULE SharedBottleneckProofs -----------------------
(***************************************************************************)
(* What the sender of data learns of the receiver's groups, and that the   *)
(* windows shifted by it cancel, for every number of paths, every ring     *)
(* size and every statistics.                                              *)
(*                                                                         *)
(* The first part says of groupings only over which paths they are: that   *)
(* is what mergeObservations relies on when it deals the winner's groups   *)
(* to the paths in whatever order copyPaths found them.                    *)
(***************************************************************************)
EXTENDS SharedBottleneck, FiniteSetTheorems, SequenceTheorems, WellFoundedInduction, TLAPS

-----------------------------------------------------------------------------
(* Which paths a grouping is of. *)

\* A set of naturals with an upper bound has a least element.
LEMMA LeastNumber ==
  ASSUME NEW n \in Nat, NEW S \in SUBSET (0..n), S # {}
  PROVE  \E m \in S : \A x \in S : m <= x
<1> DEFINE below(x) == {y \in S : y <= x}
           family == {below(x) : x \in S}
<1>1. IsFiniteSet(S)
  <2>1. IsFiniteSet(0..n)
    BY FS_Interval
  <2> QED BY <2>1, FS_Subset
<1>2. IsWellFoundedOn(StrictSubsetOrdering(S), SUBSET S)
  BY <1>1, FS_FiniteSubsetsOfFinite, FS_StrictSubsetOrderingWellFounded
<1>3. \A z \in S : z \in Nat
  OBVIOUS
<1>4. family \subseteq SUBSET S /\ family # {}
  OBVIOUS
<1>5. PICK T \in family : \A U \in family : ~(<<U, T>> \in StrictSubsetOrdering(S))
  <2> HIDE DEF family
  <2> QED BY <1>2, <1>4, WFMin
<1>6. PICK x \in S : T = below(x)
  BY <1>5
<1>7. \A y \in S : x <= y
  <2> SUFFICES ASSUME NEW y \in S, y < x
               PROVE  FALSE
    BY <1>3
  <2>1. \A z \in below(y) : z \in S /\ z <= x
    BY <1>3
  <2>2. x <= x /\ ~(x <= y)
    BY <1>3
  <2>3. <<below(y), T>> \in StrictSubsetOrdering(S)
    BY <1>6, <2>1, <2>2 DEF StrictSubsetOrdering
  <2> QED BY <1>5, <2>3
<1> QED BY <1>7

\* The table of groupings is what its comment says.
LEMMA GroupingsTable ==
  ASSUME NEW n \in 1..MaxPaths
  PROVE  Groupings[n] = GroupingsOf(1..n)
<1> DEFINE table(k) == [i \in 1..k |-> GroupingsOf(1..i)]
           upTo[k \in 0..MaxPaths] == IF k = 0 THEN <<>> ELSE Append(upTo[k - 1], GroupingsOf(1..k))
<1> HIDE DEF upTo
<1>1. MaxPaths \in Nat /\ MaxPaths \in 0..MaxPaths
  BY SharedBottleneckAssumption
<1>2. Groupings = upTo[MaxPaths]
  BY DEF Groupings, upTo
<1>3. table(0) = <<>>
  OBVIOUS
<1>4. \A k \in 1..MaxPaths : Append(table(k - 1), GroupingsOf(1..k)) = table(k)
  <2> TAKE k \in 1..MaxPaths
  <2>1. k \in Nat /\ k - 1 \in Nat /\ (k - 1) + 1 = k
    BY <1>1
  <2> DEFINE S == {GroupingsOf(1..i) : i \in 1..k}
  <2>2. table(k - 1) \in [1..(k - 1) -> S]
    BY <2>1
  <2>3. table(k - 1) \in Seq(S) /\ Len(table(k - 1)) = k - 1
    BY <2>1, <2>2
  <2>4. GroupingsOf(1..k) \in S
    BY <2>1
  <2> QED BY <2>1, <2>3, <2>4
<1>5. upTo = [k \in 0..MaxPaths |->
                IF k = 0 THEN <<>> ELSE Append(upTo[k - 1], GroupingsOf(1..k))]
  <2> DEFINE f == [k \in 0..MaxPaths |-> table(k)]
  <2>1. f = [k \in 0..MaxPaths |-> IF k = 0 THEN <<>> ELSE Append(f[k - 1], GroupingsOf(1..k))]
    <3> SUFFICES ASSUME NEW k \in 0..MaxPaths
                 PROVE  f[k] = IF k = 0 THEN <<>> ELSE Append(f[k - 1], GroupingsOf(1..k))
      OBVIOUS
    <3>1. CASE k = 0
      BY <1>3, <3>1
    <3>2. CASE k # 0
      <4>1. k \in 1..MaxPaths /\ k - 1 \in 0..MaxPaths
        BY <1>1, <3>2
      <4>2. f[k - 1] = table(k - 1) /\ f[k] = table(k)
        BY <4>1
      <4> HIDE DEF f, table
      <4> QED BY <1>4, <3>2, <4>1, <4>2
    <3> QED BY <3>1, <3>2
  <2> HIDE DEF f
  <2> QED BY <2>1 DEF upTo
<1>6. \A k \in 0..MaxPaths : upTo[k] = table(k)
  <2> DEFINE wrong == {k \in 0..MaxPaths : upTo[k] # table(k)}
  <2>1. SUFFICES ASSUME wrong # {} PROVE FALSE
    OBVIOUS
  <2>2. PICK k \in wrong : \A x \in wrong : k <= x
    <3>1. wrong \in SUBSET (0..MaxPaths)
      OBVIOUS
    <3> HIDE DEF wrong
    <3> QED BY <1>1, <2>1, <3>1, LeastNumber
  <2>3. k \in 0..MaxPaths /\ upTo[k] # table(k)
    BY <2>2
  <2> HIDE DEF table
  <2>4. CASE k = 0
    <3>1. upTo[0] = <<>>
      BY <1>1, <1>5
    <3> QED BY <1>3, <2>3, <2>4, <3>1
  <2>5. CASE k # 0
    <3>1. k \in 1..MaxPaths /\ k - 1 \in 0..MaxPaths /\ ~(k <= k - 1)
      BY <1>1, <2>3, <2>5
    <3>2. upTo[k - 1] = table(k - 1)
      BY <2>2, <3>1
    <3>3. upTo[k] = Append(upTo[k - 1], GroupingsOf(1..k))
      BY <1>5, <2>3, <2>5
    <3> QED BY <1>4, <2>3, <3>1, <3>2, <3>3
  <2> QED BY <2>4, <2>5
<1>7. Groupings = table(MaxPaths)
  BY <1>1, <1>2, <1>6
<1> QED BY <1>7

\* A grouping is a function over its paths, the first n.
LEMMA GroupingDomain ==
  ASSUME NEW n \in 1..MaxPaths, NEW mgroup \in Groupings[n]
  PROVE  DOMAIN mgroup = 1..n
<1>1. mgroup \in GroupingsOf(1..n)
  BY GroupingsTable
<1> QED BY <1>1 DEF GroupingsOf, classify

\* So is the list made of it, sorted or not.
LEMMA ArrayDomain ==
  ASSUME NEW n \in Nat, NEW mgroup, DOMAIN mgroup = 1..n
  PROVE  DOMAIN arrayToString(mgroup) = 1..n
<1>1. Cardinality(DOMAIN mgroup) = n
  BY FS_Interval
<1>2. PICK b : b = [i \in 1..Cardinality(DOMAIN mgroup) |->
                      mgroup[CHOOSE p \in DOMAIN mgroup :
                               Cardinality({q \in DOMAIN mgroup : q < p}) = i - 1]]
  OBVIOUS
<1>3. DOMAIN b = 1..n /\ Len(b) = n
  BY <1>1, <1>2
<1>4. DOMAIN Sorted(b) = 1..n
  BY <1>3 DEF Sorted
<1>5. arrayToString(mgroup) = IF b[1] = 2 /\ b[2] = 1 THEN Sorted(b) ELSE b
  BY <1>2 DEF arrayToString
<1> QED BY <1>3, <1>4, <1>5

\* What mergeObservations votes on.
Arrays(observations) == [i \in DOMAIN observations |-> arrayToString(observations[i])]

\* The groups that win are of the first n paths, and there are that many.
LEMMA WinnerDomain ==
  ASSUME NEW k \in Nat, NEW observations, DOMAIN observations # {},
         \A i \in DOMAIN observations : \E n \in 1..k : DOMAIN observations[i] = 1..n,
         \A i \in DOMAIN observations : Cardinality(DOMAIN observations[i]) >= 2,
         NEW win \in Winners(Arrays(observations))
  PROVE  \E n \in 1..k : DOMAIN win = 1..n
<1>1. PICK groupings : groupings = [i \in DOMAIN observations |-> arrayToString(observations[i])]
  OBVIOUS
<1>2. \A i \in DOMAIN observations : \E n \in 1..k : DOMAIN groupings[i] = 1..n
  <2> TAKE i \in DOMAIN observations
  <2>1. PICK n \in 1..k : DOMAIN observations[i] = 1..n
    OBVIOUS
  <2>2. DOMAIN arrayToString(observations[i]) = 1..n
    BY <2>1, ArrayDomain
  <2> QED BY <1>1, <2>2
<1>3. win = <<1, 1>> \/ win \in ToSet(groupings)
  <2>1. win \in Winners(groupings)
    BY <1>1 DEF Arrays
  <2>2. PICK votes : votes = [g \in ToSet(groupings) |->
                                Cardinality({i \in DOMAIN groupings : groupings[i] = g})]
    OBVIOUS
  <2>3. DOMAIN votes = ToSet(groupings)
    BY <2>2
  <2>4. PICK is_tied : is_tied = (Cardinality(DOMAIN votes) = 2
                                  /\ \E g \in DOMAIN votes : 2 * votes[g] = SBD_MAX_OBSERVATIONS)
    OBVIOUS
  <2>5. Winners(groupings)
          = IF is_tied THEN {<<1, 1>>}
            ELSE {g \in DOMAIN votes : \A h \in DOMAIN votes : votes[h] <= votes[g]}
    BY <2>2, <2>4 DEF Winners
  <2> QED BY <2>1, <2>3, <2>5
<1>4. CASE win = <<1, 1>>
  <2>1. PICK i \in DOMAIN observations, n \in 1..k : DOMAIN observations[i] = 1..n
    OBVIOUS
  <2>2. Cardinality(1..n) = n
    BY FS_Interval
  <2>3. n >= 2
    BY <2>1, <2>2
  <2>4. DOMAIN <<1, 1>> = 1..2 /\ 2 \in 1..k
    BY <2>1, <2>3
  <2> QED BY <1>4, <2>4
<1>5. CASE win \in ToSet(groupings)
  <2>1. PICK i \in DOMAIN groupings : win = groupings[i]
    BY <1>5 DEF ToSet
  <2>2. DOMAIN groupings = DOMAIN observations
    BY <1>1
  <2> QED BY <1>2, <2>1, <2>2
<1> QED BY <1>3, <1>4, <1>5

-----------------------------------------------------------------------------
(***************************************************************************)
(* The inductive invariant.  Decisions are made with growing epochs, and   *)
(* what a path shows in between is the group of one epoch with that epoch, *)
(* or with the one before while only the group is written.                 *)
(***************************************************************************)

\* dec maps the epochs a path took part in to its groups: g is that of e or of the next.
Explains(dec, g, e) ==
  /\ e \in DOMAIN dec
  /\ \E d \in DOMAIN dec : /\ g = dec[d]
                           /\ d = e \/ (e < d /\ \A x \in DOMAIN dec : e < x => d <= x)

Pending(p) == {i \in DOMAIN writing : writing[i][1] = p}

PathsNumbered ==
  /\ paths = 1..Cardinality(paths)
  /\ Cardinality(paths) \in 0..MaxPaths

\* A grouping is of the paths there were when it was made.
ObservationsSound ==
  /\ \E n \in Nat : mgroupsObservation = [i \in 1..n |-> mgroupsObservation[i]]
  /\ \A i \in DOMAIN mgroupsObservation :
       \E n \in 1..Cardinality(paths) : DOMAIN mgroupsObservation[i] = 1..n

\* Each path has its decision written once.
WritingSound ==
  /\ \E n \in Nat : writing = [i \in 1..n |-> writing[i]]
  /\ \A i \in DOMAIN writing : writing[i][1] \in Paths /\ writing[i] = <<writing[i][1], writing[i][2]>>
  /\ \A i, j \in DOMAIN writing : i # j => writing[i][1] # writing[j][1]
  /\ half \in BOOLEAN /\ (half => writing # <<>>)

\* Nothing is grouped before that is done.
GroupedAfterWriting == writing # <<>> => mgroupsObservation = <<>>

DecisionTyping ==
  /\ sbdEpoch \in Nat
  /\ decided = [p \in Paths |-> decided[p]]
  /\ group = [p \in Paths |-> group[p]] /\ epoch = [p \in Paths |-> epoch[p]]
  /\ carried = [p \in Paths |-> carried[p]]
  /\ \A p \in Paths : DOMAIN decided[p] \subseteq 0..sbdEpoch /\ epoch[p] \in DOMAIN decided[p]

\* A path with nothing to be written shows its last decision; one that waits shows the
\* last but one, and the first that waits perhaps the new group already.
PathsCurrent ==
  \A p \in Paths :
    /\ Pending(p) = {} => /\ group[p] = decided[p][epoch[p]]
                          /\ \A d \in DOMAIN decided[p] : d <= epoch[p]
    /\ \A i \in Pending(p) :
         /\ sbdEpoch \in DOMAIN decided[p] /\ decided[p][sbdEpoch] = writing[i][2]
         /\ epoch[p] < sbdEpoch
         /\ \A d \in DOMAIN decided[p] : epoch[p] < d => sbdEpoch <= d
         /\ group[p] = IF i = 1 /\ half THEN writing[i][2] ELSE decided[p][epoch[p]]

CarriedExplained == \A p \in Paths : \A c \in carried[p] : Explains(decided[p], c[1], c[2])

SendersExplained ==
  /\ senders = [p \in Paths |-> senders[p]]
  /\ \A p \in Paths : \A i \in DOMAIN senders[p].items :
       Explains(decided[p], senders[p].items[i].group, senders[p].items[i].epoch)

IInv ==
  /\ PathsNumbered /\ ObservationsSound /\ WritingSound /\ GroupedAfterWriting /\ DecisionTyping
  /\ PathsCurrent /\ CarriedExplained /\ SendersExplained

\* A later decision takes no explanation away.
LEMMA ExplainedLater ==
  ASSUME NEW dec, NEW more, NEW n \in Nat, DOMAIN dec \subseteq 0..n,
         DOMAIN dec \subseteq DOMAIN more, DOMAIN more \subseteq DOMAIN dec \cup {n + 1},
         \A e \in DOMAIN dec : more[e] = dec[e],
         NEW g, NEW e, Explains(dec, g, e)
  PROVE  Explains(more, g, e)
<1>1. e \in DOMAIN dec
  BY DEF Explains
<1>2. PICK d \in DOMAIN dec : /\ g = dec[d]
                              /\ d = e \/ (e < d /\ \A x \in DOMAIN dec : e < x => d <= x)
  BY DEF Explains
<1>3. d \in DOMAIN more /\ e \in DOMAIN more /\ g = more[d]
  BY <1>1, <1>2
<1>4. \A x \in DOMAIN more \ DOMAIN dec : x = n + 1
  OBVIOUS
<1>5. d = e \/ (e < d /\ \A x \in DOMAIN more : e < x => d <= x)
  <2>1. d <= n + 1
    <3>1. d \in 0..n
      BY <1>2
    <3> QED BY <3>1
  <2> QED BY <1>2, <1>4, <2>1
<1> QED BY <1>3, <1>5 DEF Explains

\* What the property says of it.
LEMMA ExplainedIsCandidate ==
  ASSUME NEW dec, NEW n \in Nat, DOMAIN dec \subseteq 0..n, NEW g, NEW e, Explains(dec, g, e)
  PROVE  LET later == {d \in DOMAIN dec : d > e}
             candidates == {e} \cup (IF later = {} THEN {} ELSE {Min(later)})
         IN e \in DOMAIN dec /\ \E d \in candidates : g = dec[d]
<1>1. e \in DOMAIN dec
  BY DEF Explains
<1>2. PICK d \in DOMAIN dec : /\ g = dec[d]
                              /\ d = e \/ (e < d /\ \A x \in DOMAIN dec : e < x => d <= x)
  BY DEF Explains
<1>3. \A x \in DOMAIN dec : x \in Int
  OBVIOUS
<1>4. CASE d = e
  BY <1>1, <1>2, <1>4
<1>5. CASE d # e
  <2>1. PICK later : later = {x \in DOMAIN dec : x > e}
    OBVIOUS
  <2>2. d \in later /\ \A y \in later : d =< y
    BY <1>1, <1>2, <1>3, <1>5, <2>1
  <2>3. \A x \in later : (\A y \in later : x =< y) => x = d
    BY <1>3, <2>1, <2>2
  <2>4. Min(later) = d
    BY <2>2, <2>3 DEF Min
  <2> QED BY <1>1, <1>2, <2>1, <2>2, <2>4
<1> QED BY <1>4, <1>5

-----------------------------------------------------------------------------
(* The steps. *)

\* A function over the first numbers is a sequence.
LEMMA IsSequence ==
  ASSUME NEW S, NEW f, NEW n \in Nat, f = [i \in 1..n |-> f[i]], \A i \in 1..n : f[i] \in S
  PROVE  f \in Seq(S) /\ Len(f) = n /\ DOMAIN f = 1..n
<1>1. f \in [1..n -> S]
  OBVIOUS
<1> QED BY <1>1

\* Decisions are left alone.
LEMMA DecisionsUnchanged ==
  ASSUME IInv, UNCHANGED mergeVars
  PROVE  WritingSound' /\ DecisionTyping' /\ PathsCurrent' /\ CarriedExplained'
<1>1. UNCHANGED <<sbdEpoch, writing, half, group, epoch, decided, carried>>
  BY DEF mergeVars
<1>2. WritingSound'
  BY <1>1 DEF IInv, WritingSound
<1>3. DecisionTyping'
  BY <1>1 DEF IInv, DecisionTyping
<1>4. PathsCurrent'
  BY <1>1 DEF IInv, PathsCurrent, Pending
<1>5. CarriedExplained'
  BY <1>1 DEF IInv, CarriedExplained
<1> QED BY <1>2, <1>3, <1>4, <1>5

\* No path ever leaves.
LEMMA CreatePathStep ==
  ASSUME IInv, CreatePath
  PROVE  IInv'
<1>1. PICK k \in 0..MaxPaths : k = Cardinality(paths) /\ paths = 1..k
  BY DEF IInv, PathsNumbered
<1>2. k \in Nat /\ k < MaxPaths /\ k + 1 \in 0..MaxPaths /\ paths' = 1..(k + 1)
  <2>1. k < MaxPaths /\ paths' = (1..k) \cup {k + 1}
    BY <1>1 DEF CreatePath
  <2>2. k \in Nat /\ k + 1 \in 0..MaxPaths
    BY <2>1, SharedBottleneckAssumption
  <2>3. (1..k) \cup {k + 1} = 1..(k + 1)
    BY <2>2
  <2> QED BY <2>1, <2>2, <2>3
<1>3. Cardinality(paths') = k + 1
  BY <1>2, FS_Interval
<1>4. PathsNumbered'
  BY <1>2, <1>3 DEF PathsNumbered
<1>5. UNCHANGED <<mgroupsObservation, mergeVars, senders>>
  BY DEF CreatePath, receiverVars
<1>6. ObservationsSound'
  <2>1. \A n \in 1..k : n \in 1..Cardinality(paths')
    BY <1>2, <1>3
  <2>2. \A i \in DOMAIN mgroupsObservation : \E n \in 1..k : DOMAIN mgroupsObservation[i] = 1..n
    BY <1>1 DEF IInv, ObservationsSound
  <2>3. \A i \in DOMAIN mgroupsObservation :
          \E n \in 1..Cardinality(paths') : DOMAIN mgroupsObservation[i] = 1..n
    BY <2>1, <2>2
  <2> QED BY <1>5, <2>3 DEF IInv, ObservationsSound
<1>7. GroupedAfterWriting' /\ SendersExplained'
  BY <1>5 DEF IInv, GroupedAfterWriting, SendersExplained, mergeVars
<1> QED BY <1>4, <1>5, <1>6, <1>7, DecisionsUnchanged DEF IInv

\* What leaves paths, groupings, decisions and senders alone.
LEMMA OtherSteps ==
  ASSUME IInv, UNCHANGED <<paths, mgroupsObservation, mergeVars, senders>>
  PROVE  IInv'
<1>1. PathsNumbered' /\ ObservationsSound' /\ GroupedAfterWriting' /\ SendersExplained'
  BY DEF IInv, PathsNumbered, ObservationsSound, GroupedAfterWriting, SendersExplained, mergeVars
<1> QED BY <1>1, DecisionsUnchanged DEF IInv

\* A grouping of the paths there are.
LEMMA GroupingStep ==
  ASSUME IInv, Grouping
  PROVE  IInv'
<1>1. PICK k \in 0..MaxPaths : k = Cardinality(paths) /\ paths = 1..k
  BY DEF IInv, PathsNumbered
<1>2. k \in 1..MaxPaths
  <2>1. paths # {}
    BY DEF Grouping
  <2>2. 1..0 = {}
    OBVIOUS
  <2>3. k # 0
    BY <1>1, <2>1, <2>2
  <2> QED BY <2>3, SharedBottleneckAssumption
<1>3. PICK mgroup \in Groupings[k] : mgroupsObservation' = Append(mgroupsObservation, mgroup)
  BY <1>1 DEF Grouping
<1>4. DOMAIN mgroup = 1..k /\ k \in 1..k
  BY <1>2, GroupingDomain
<1>5. UNCHANGED <<paths, mergeVars, senders>> /\ writing = <<>>
  BY DEF Grouping
<1>6. PICK n \in Nat : mgroupsObservation = [i \in 1..n |-> mgroupsObservation[i]]
  BY DEF IInv, ObservationsSound
<1>7. PICK S : S = {mgroupsObservation[i] : i \in 1..n} \cup {mgroup}
  OBVIOUS
<1>8. /\ mgroupsObservation \in Seq(S) /\ mgroup \in S
      /\ Len(mgroupsObservation) = n /\ DOMAIN mgroupsObservation = 1..n
  BY <1>6, <1>7, IsSequence
<1>9. /\ mgroupsObservation' \in Seq(S) /\ Len(mgroupsObservation') = n + 1
      /\ DOMAIN mgroupsObservation' = 1..(n + 1) /\ mgroupsObservation'[n + 1] = mgroup
      /\ \A i \in 1..n : mgroupsObservation'[i] = mgroupsObservation[i]
  BY <1>3, <1>8, AppendProperties
<1>10. ObservationsSound'
  <2>1. mgroupsObservation' = [i \in 1..(n + 1) |-> mgroupsObservation'[i]] /\ n + 1 \in Nat
    BY <1>9
  <2>2. \A i \in DOMAIN mgroupsObservation' : \E m \in 1..k : DOMAIN mgroupsObservation'[i] = 1..m
    <3> TAKE i \in DOMAIN mgroupsObservation'
    <3>1. i \in 1..n \/ i = n + 1
      BY <1>9
    <3>2. CASE i \in 1..n
      BY <1>1, <1>8, <1>9, <3>2 DEF IInv, ObservationsSound
    <3>3. CASE i = n + 1
      BY <1>4, <1>9, <3>3
    <3> QED BY <3>1, <3>2, <3>3
  <2> QED BY <1>1, <1>5, <2>1, <2>2 DEF ObservationsSound
<1>11. PathsNumbered' /\ GroupedAfterWriting' /\ SendersExplained'
  BY <1>5 DEF IInv, PathsNumbered, GroupedAfterWriting, SendersExplained, mergeVars
<1> QED BY <1>5, <1>10, <1>11, DecisionsUnchanged DEF IInv

\* The ring of a sender takes what an ACK frame carried, or stays.
LEMMA ReceivedAckStep ==
  ASSUME IInv, ReceivedAck
  PROVE  IInv'
<1>1. PICK p \in paths : \E c \in carried[p] :
        senders' = [senders EXCEPT ![p] = UpdateGroupEpoch(@, c[1], c[2])]
  BY DEF ReceivedAck
<1>0. PICK c \in carried[p] : senders' = [senders EXCEPT ![p] = UpdateGroupEpoch(@, c[1], c[2])]
  BY <1>1
<1>2. UNCHANGED <<paths, mgroupsObservation, mergeVars>>
  BY DEF ReceivedAck, receiverVars
<1>3. p \in Paths
  <2>1. PICK k \in 0..MaxPaths : paths = 1..k
    BY DEF IInv, PathsNumbered
  <2> QED BY <2>1, SharedBottleneckAssumption DEF Paths
<1>4. Explains(decided[p], c[1], c[2])
  BY <1>3 DEF IInv, CarriedExplained
<1>5. senders' = [q \in Paths |-> senders'[q]] /\ \A q \in Paths \ {p} : senders'[q] = senders[q]
  <2>1. senders = [q \in Paths |-> senders[q]]
    BY DEF IInv, SendersExplained
  <2> QED BY <1>0, <2>1
<1>6. senders'[p] = UpdateGroupEpoch(senders[p], c[1], c[2])
  <2>1. senders = [q \in Paths |-> senders[q]]
    BY DEF IInv, SendersExplained
  <2>2. p \in DOMAIN senders
    BY <1>3, <2>1
  <2> QED BY <1>0, <2>2
<1>7. \A i \in DOMAIN senders'[p].items :
        Explains(decided[p], senders'[p].items[i].group, senders'[p].items[i].epoch)
  <2>1. PICK o : o = senders[p]
    OBVIOUS
  <2>2. \A i \in DOMAIN o.items : Explains(decided[p], o.items[i].group, o.items[i].epoch)
    BY <1>3, <2>1 DEF IInv, SendersExplained
  <2>3. CASE \E i \in DOMAIN o.items : o.items[i].epoch = c[2]
    <3>1. senders'[p] = o
      BY <1>6, <2>1, <2>3 DEF UpdateGroupEpoch
    <3> QED BY <2>2, <3>1
  <2>4. CASE ~\E i \in DOMAIN o.items : o.items[i].epoch = c[2]
    <3>1. PICK items : items = [o.items EXCEPT ![o.next] = [group |-> c[1], epoch |-> c[2]]]
      OBVIOUS
    <3>2. senders'[p].items = items
      BY <1>6, <2>1, <2>4, <3>1 DEF UpdateGroupEpoch
    <3>3. \A i \in DOMAIN items : /\ i \in DOMAIN o.items
                                  /\ items[i] = IF i = o.next THEN [group |-> c[1], epoch |-> c[2]]
                                                ELSE o.items[i]
      BY <3>1
    <3>4. ASSUME NEW i \in DOMAIN items PROVE Explains(decided[p], items[i].group, items[i].epoch)
      <4>1. CASE i = o.next
        <5>1. items[i].group = c[1] /\ items[i].epoch = c[2]
          BY <3>3, <4>1
        <5> QED BY <1>4, <5>1
      <4>2. CASE i # o.next
        BY <2>2, <3>3, <4>2
      <4> QED BY <4>1, <4>2
    <3> QED BY <3>2, <3>4
  <2> QED BY <2>3, <2>4
<1>8. decided' = decided
  BY <1>2 DEF mergeVars
<1>9. SendersExplained'
  <2> SUFFICES ASSUME NEW q \in Paths, NEW i \in DOMAIN senders'[q].items
               PROVE  Explains(decided'[q], senders'[q].items[i].group, senders'[q].items[i].epoch)
    BY <1>5 DEF SendersExplained
  <2>1. CASE q = p
    BY <1>7, <1>8, <2>1
  <2>2. CASE q # p
    BY <1>5, <1>8, <2>2 DEF IInv, SendersExplained
  <2> QED BY <2>1, <2>2
<1>10. PathsNumbered' /\ ObservationsSound' /\ GroupedAfterWriting'
  BY <1>2 DEF IInv, PathsNumbered, ObservationsSound, GroupedAfterWriting, mergeVars
<1> QED BY <1>2, <1>9, <1>10, DecisionsUnchanged DEF IInv

\* The first m groups of win are written, that of each number to the path arrPi says.
DealtBy(m, arrPi, win) ==
  /\ arrPi \in [1..m -> Paths] /\ \A i, j \in 1..m : arrPi[i] = arrPi[j] => i = j
  /\ writing' = [i \in 1..m |-> <<arrPi[i], win[i]>>]
  /\ decided' = [p \in Paths |-> decided'[p]]
  /\ \A p \in Paths : (\A i \in 1..m : arrPi[i] # p) => decided'[p] = decided[p]
  /\ \A i \in 1..m :
       decided'[arrPi[i]] = [e \in DOMAIN decided[arrPi[i]] \cup {sbdEpoch + 1} |->
                               IF e = sbdEpoch + 1 THEN win[i] ELSE decided[arrPi[i]][e]]

\* A vote deals the winner's groups to as many paths, each once, under a new epoch.
LEMMA Dealt ==
  ASSUME IInv, mergeObservations
  PROVE  \E m \in Nat : \E arrPi, win : DealtBy(m, arrPi, win)
<1>1. PICK k \in 0..MaxPaths : k = Cardinality(paths) /\ paths = 1..k
  BY DEF IInv, PathsNumbered
<1>2. k \in Nat /\ paths \subseteq Paths
  <2>1. k \in Nat /\ 1..k \subseteq 1..MaxPaths
    BY SharedBottleneckAssumption
  <2> QED BY <1>1, <2>1 DEF Paths
<1>3. DOMAIN mgroupsObservation # {}
  <2>1. PICK n \in Nat : mgroupsObservation = [i \in 1..n |-> mgroupsObservation[i]]
    BY DEF IInv, ObservationsSound
  <2>2. n = SBD_MAX_OBSERVATIONS
    BY <2>1 DEF mergeObservations
  <2>3. 1 \in 1..n
    BY <2>2, SharedBottleneckAssumption
  <2> QED BY <2>1, <2>3
<1>4. /\ \A i \in DOMAIN mgroupsObservation : Cardinality(DOMAIN mgroupsObservation[i]) >= 2
      /\ \A i \in DOMAIN mgroupsObservation : \E n \in 1..k : DOMAIN mgroupsObservation[i] = 1..n
  BY <1>1 DEF IInv, ObservationsSound, mergeObservations
<1> DEFINE dealt(win, arrPi, p) == {i \in DOMAIN win : arrPi[i] = p}
           taught(win, arrPi, p) ==
             IF dealt(win, arrPi, p) = {} THEN decided[p]
             ELSE [e \in DOMAIN decided[p] \cup {sbdEpoch'} |->
                     IF e = sbdEpoch' THEN win[CHOOSE i \in dealt(win, arrPi, p) : TRUE] ELSE decided[p][e]]
<1>5. PICK win \in Winners([i \in DOMAIN mgroupsObservation |-> arrayToString(mgroupsObservation[i])]),
           arrPi \in SetToSeqs(paths) :
             /\ writing' = [i \in DOMAIN win |-> <<arrPi[i], win[i]>>]
             /\ decided' = [p \in Paths |-> taught(win, arrPi, p)]
  BY DEF mergeObservations
<1>6. PICK m \in 1..k : DOMAIN win = 1..m
  <2>1. PICK observations : observations = mgroupsObservation
    OBVIOUS
  <2>2. /\ DOMAIN observations # {}
        /\ \A i \in DOMAIN observations : \E n \in 1..k : DOMAIN observations[i] = 1..n
        /\ \A i \in DOMAIN observations : Cardinality(DOMAIN observations[i]) >= 2
        /\ win \in Winners(Arrays(observations))
    BY <1>3, <1>4, <1>5, <2>1 DEF Arrays
  <2> HIDE DEF taught, dealt
  <2> QED BY <1>2, <2>2, WinnerDomain
<1>7. m \in Nat /\ \A i \in 1..m : i \in 1..k
  BY <1>2, <1>6
<1>8. arrPi \in [1..k -> 1..k] /\ \A i, j \in 1..k : i # j => arrPi[i] # arrPi[j]
  BY <1>1 DEF SetToSeqs
<1>9. PICK deal : deal = [i \in 1..m |-> arrPi[i]]
  OBVIOUS
<1>10. deal \in [1..m -> Paths] /\ \A i, j \in 1..m : deal[i] = deal[j] => i = j
  BY <1>1, <1>2, <1>7, <1>8, <1>9
<1>11. writing' = [i \in 1..m |-> <<deal[i], win[i]>>]
  BY <1>5, <1>6, <1>9
<1>12. \A p \in Paths : decided'[p] = taught(win, arrPi, p)
  BY <1>5
<1>13. decided' = [p \in Paths |-> decided'[p]]
  BY <1>5
<1>14. \A p \in Paths : (\A i \in 1..m : deal[i] # p) => decided'[p] = decided[p]
  BY <1>6, <1>9, <1>12
<1>15. sbdEpoch' = sbdEpoch + 1
  BY DEF mergeObservations
<1>16. \A i \in 1..m :
         decided'[deal[i]] = [e \in DOMAIN decided[deal[i]] \cup {sbdEpoch + 1} |->
                                IF e = sbdEpoch + 1 THEN win[i] ELSE decided[deal[i]][e]]
  <2> TAKE i \in 1..m
  <2>1. deal[i] \in Paths /\ deal[i] = arrPi[i]
    BY <1>9, <1>10
  <2>2. dealt(win, arrPi, deal[i]) = {i}
    BY <1>6, <1>9, <1>10, <2>1
  <2>3. (CHOOSE j \in dealt(win, arrPi, deal[i]) : TRUE) = i
    BY <2>2
  <2> QED BY <1>12, <1>15, <2>1, <2>2, <2>3
<1>17. DealtBy(m, deal, win)
  BY <1>10, <1>11, <1>13, <1>14, <1>16 DEF DealtBy
<1> QED BY <1>7, <1>17

\* The vote is taken when nothing is left to write, and changes nothing a path shows.
LEMMA MergeStep ==
  ASSUME IInv, mergeObservations
  PROVE  IInv'
<1>0. PICK m \in Nat : \E arrPi, win : DealtBy(m, arrPi, win)
  BY Dealt
<1>1. PICK arrPi, win : DealtBy(m, arrPi, win)
  BY <1>0
<1>2. arrPi \in [1..m -> Paths] /\ \A i, j \in 1..m : arrPi[i] = arrPi[j] => i = j
  BY <1>1 DEF DealtBy
<1>3. writing' = [i \in 1..m |-> <<arrPi[i], win[i]>>]
  BY <1>1 DEF DealtBy
<1>4. decided' = [p \in Paths |-> decided'[p]]
  BY <1>1 DEF DealtBy
<1>5. \A p \in Paths : (\A i \in 1..m : arrPi[i] # p) => decided'[p] = decided[p]
  BY <1>1 DEF DealtBy
<1>6. \A i \in 1..m :
        decided'[arrPi[i]] = [e \in DOMAIN decided[arrPi[i]] \cup {sbdEpoch + 1} |->
                                IF e = sbdEpoch + 1 THEN win[i] ELSE decided[arrPi[i]][e]]
  BY <1>1 DEF DealtBy
<1>7. /\ sbdEpoch' = sbdEpoch + 1 /\ mgroupsObservation' = <<>>
      /\ UNCHANGED <<paths, half, group, epoch, carried, senders>>
  BY DEF mergeObservations
<1>8. writing = <<>> /\ half = FALSE
  <2>1. PICK n \in Nat : mgroupsObservation = [i \in 1..n |-> mgroupsObservation[i]]
    BY DEF IInv, ObservationsSound
  <2>2. n = SBD_MAX_OBSERVATIONS
    BY <2>1 DEF mergeObservations
  <2>3. 1 \in 1..n
    BY <2>2, SharedBottleneckAssumption
  <2>4. mgroupsObservation # <<>>
    BY <2>1, <2>3
  <2> QED BY <2>4 DEF IInv, GroupedAfterWriting, WritingSound
<1>9. PICK n \in Nat : n = sbdEpoch
  BY DEF IInv, DecisionTyping
<1>10. \A p \in Paths : DOMAIN decided[p] \subseteq 0..n /\ epoch[p] \in DOMAIN decided[p]
  BY <1>9 DEF IInv, DecisionTyping
<1>11. \A p \in Paths : /\ DOMAIN decided[p] \subseteq DOMAIN decided'[p]
                        /\ DOMAIN decided'[p] \subseteq DOMAIN decided[p] \cup {n + 1}
                        /\ \A e \in DOMAIN decided[p] : decided'[p][e] = decided[p][e]
  <2> TAKE p \in Paths
  <2>1. CASE \A i \in 1..m : arrPi[i] # p
    BY <1>5, <2>1
  <2>2. CASE ~\A i \in 1..m : arrPi[i] # p
    <3>1. PICK i \in 1..m : arrPi[i] = p
      BY <2>2
    <3>2. decided'[p] = [e \in DOMAIN decided[p] \cup {n + 1} |->
                           IF e = n + 1 THEN win[i] ELSE decided[p][e]]
      BY <1>6, <1>9, <3>1
    <3>3. ~(n + 1 \in DOMAIN decided[p])
      <4>1. ~(n + 1 \in 0..n)
        OBVIOUS
      <4> QED BY <1>10, <4>1
    <3> QED BY <3>2, <3>3
  <2> QED BY <2>1, <2>2
<1>12. PathsNumbered'
  BY <1>7 DEF IInv, PathsNumbered
<1>13. ObservationsSound'
  <2>1. <<>> = [i \in 1..0 |-> <<>>[i]]
    OBVIOUS
  <2> QED BY <1>7, <2>1 DEF ObservationsSound
<1>14. WritingSound'
  <2>1. writing' = [i \in 1..m |-> writing'[i]] /\ DOMAIN writing' = 1..m
    BY <1>3
  <2>2. \A i \in 1..m : writing'[i] = <<arrPi[i], win[i]>>
    BY <1>3
  <2>3. \A i \in 1..m : writing'[i][1] \in Paths /\ writing'[i] = <<writing'[i][1], writing'[i][2]>>
    BY <1>2, <2>2
  <2>4. \A i, j \in 1..m : i # j => writing'[i][1] # writing'[j][1]
    BY <1>2, <2>2
  <2>5. half' = FALSE
    BY <1>7, <1>8
  <2> QED BY <2>1, <2>3, <2>4, <2>5 DEF WritingSound
<1>15. GroupedAfterWriting'
  BY <1>7 DEF GroupedAfterWriting
<1>16. DecisionTyping'
  <2>1. sbdEpoch' \in Nat /\ \A p \in Paths : DOMAIN decided'[p] \subseteq 0..sbdEpoch'
    BY <1>7, <1>9, <1>10, <1>11
  <2>2. \A p \in Paths : epoch'[p] \in DOMAIN decided'[p]
    BY <1>7, <1>10, <1>11
  <2>3. /\ group' = [p \in Paths |-> group'[p]] /\ epoch' = [p \in Paths |-> epoch'[p]]
        /\ carried' = [p \in Paths |-> carried'[p]]
    BY <1>7 DEF IInv, DecisionTyping
  <2> QED BY <1>4, <2>1, <2>2, <2>3 DEF DecisionTyping
<1>17. PathsCurrent'
  <2>1. \A p \in Paths : Pending(p)' = {i \in 1..m : arrPi[i] = p}
    BY <1>3 DEF Pending
  <2>2. \A p \in Paths : group[p] = decided[p][epoch[p]] /\ \A d \in DOMAIN decided[p] : d <= epoch[p]
    BY <1>8 DEF IInv, PathsCurrent, Pending
  <2> SUFFICES ASSUME NEW p \in Paths
               PROVE  /\ Pending(p)' = {} => /\ group'[p] = decided'[p][epoch'[p]]
                                             /\ \A d \in DOMAIN decided'[p] : d <= epoch'[p]
                      /\ \A i \in Pending(p)' :
                           /\ sbdEpoch' \in DOMAIN decided'[p] /\ decided'[p][sbdEpoch'] = writing'[i][2]
                           /\ epoch'[p] < sbdEpoch'
                           /\ \A d \in DOMAIN decided'[p] : epoch'[p] < d => sbdEpoch' <= d
                           /\ group'[p] = IF i = 1 /\ half' THEN writing'[i][2] ELSE decided'[p][epoch'[p]]
    BY DEF PathsCurrent
  <2>3. group'[p] = decided'[p][epoch'[p]]
    BY <1>7, <1>10, <1>11, <2>2
  <2>4. ASSUME Pending(p)' = {}
        PROVE  \A d \in DOMAIN decided'[p] : d <= epoch'[p]
    <3>1. decided'[p] = decided[p]
      BY <1>5, <2>1, <2>4
    <3> QED BY <1>7, <2>2, <3>1
  <2>5. ASSUME NEW i \in Pending(p)'
        PROVE  /\ sbdEpoch' \in DOMAIN decided'[p] /\ decided'[p][sbdEpoch'] = writing'[i][2]
               /\ epoch'[p] < sbdEpoch'
               /\ \A d \in DOMAIN decided'[p] : epoch'[p] < d => sbdEpoch' <= d
    <3>1. i \in 1..m /\ arrPi[i] = p
      BY <2>1
    <3>2. decided'[p] = [e \in DOMAIN decided[p] \cup {n + 1} |->
                           IF e = n + 1 THEN win[i] ELSE decided[p][e]]
      BY <1>6, <1>9, <3>1
    <3>3. n + 1 \in DOMAIN decided'[p] /\ decided'[p][n + 1] = win[i]
      BY <3>2
    <3>4. writing'[i][2] = win[i] /\ sbdEpoch' = n + 1
      BY <1>3, <1>7, <1>9, <3>1
    <3>5. epoch'[p] < n + 1
      <4>1. epoch'[p] = epoch[p] /\ epoch[p] \in 0..n
        BY <1>7, <1>10
      <4> QED BY <4>1
    <3>6. \A d \in DOMAIN decided'[p] : epoch'[p] < d => n + 1 <= d
      <4> TAKE d \in DOMAIN decided'[p]
      <4>1. CASE d \in DOMAIN decided[p]
        <5>1. d <= epoch[p] /\ d \in 0..n /\ epoch[p] \in 0..n
          BY <1>10, <2>2, <4>1
        <5> QED BY <1>7, <5>1
      <4>2. CASE d = n + 1
        BY <4>2
      <4> QED BY <1>11, <4>1, <4>2
    <3> QED BY <3>3, <3>4, <3>5, <3>6
  <2>6. half' = FALSE
    BY <1>7, <1>8
  <2> QED BY <2>3, <2>4, <2>5, <2>6
<1>18. \A p \in Paths : \A g, e : Explains(decided[p], g, e) => Explains(decided'[p], g, e)
  <2> SUFFICES ASSUME NEW p \in Paths, NEW g, NEW e, Explains(decided[p], g, e)
               PROVE  Explains(decided'[p], g, e)
    OBVIOUS
  <2>1. PICK dec, more : dec = decided[p] /\ more = decided'[p]
    OBVIOUS
  <2>2. DOMAIN dec \subseteq 0..n
    BY <1>10, <2>1
  <2>3. /\ DOMAIN dec \subseteq DOMAIN more /\ DOMAIN more \subseteq DOMAIN dec \cup {n + 1}
        /\ \A d \in DOMAIN dec : more[d] = dec[d]
    BY <1>11, <2>1
  <2>4. Explains(dec, g, e)
    BY <2>1
  <2>5. Explains(more, g, e)
    BY <2>2, <2>3, <2>4, ExplainedLater
  <2> QED BY <2>1, <2>5
<1>19. CarriedExplained'
  BY <1>7, <1>18 DEF IInv, CarriedExplained
<1>20. SendersExplained'
  BY <1>7, <1>18 DEF IInv, SendersExplained
<1> QED BY <1>12, <1>13, <1>14, <1>15, <1>16, <1>17, <1>19, <1>20 DEF IInv

\* One of the two assignments for the first path that waits.  What the path shows then, an
\* ACK frame may carry.
LEMMA WriteStep ==
  ASSUME IInv, WriteDecision
  PROVE  IInv'
<1>1. PICK n \in Nat : writing = [i \in 1..n |-> writing[i]]
  BY DEF IInv, WritingSound
<1>2. n # 0 /\ DOMAIN writing = 1..n
  <2>1. writing # <<>> /\ DOMAIN writing = 1..n
    BY <1>1 DEF WriteDecision
  <2>2. [i \in 1..0 |-> writing[i]] = <<>>
    OBVIOUS
  <2>3. n # 0
    BY <1>1, <2>1, <2>2
  <2> QED BY <2>1, <2>3
<1>3. /\ writing \in Seq({writing[i] : i \in 1..n}) /\ Len(writing) = n
  BY <1>1, IsSequence
<1>4. PICK q, w : q = writing[1][1] /\ w = writing[1][2]
  OBVIOUS
<1>5. Head(writing) = writing[1] /\ 1 \in 1..n
  BY <1>2, <1>3
<1>6. q \in Paths /\ \A i \in 1..n : writing[i][1] = q => i = 1
  BY <1>2, <1>4, <1>5 DEF IInv, WritingSound
<1>7. 1 \in Pending(q) /\ \A p \in Paths : p # q => ~(1 \in Pending(p))
  BY <1>2, <1>4, <1>5 DEF Pending
<1>8. UNCHANGED <<paths, mgroupsObservation, sbdEpoch, decided, senders>>
  BY DEF WriteDecision, receiverVars
<1>9. mgroupsObservation = <<>>
  BY DEF IInv, GroupedAfterWriting, WriteDecision
<1>10. PICK m \in Nat : m = sbdEpoch
  BY DEF IInv, DecisionTyping
<1>11. PICK dec : dec = decided[q]
  OBVIOUS
<1>12. /\ DOMAIN dec \subseteq 0..m /\ epoch[q] \in DOMAIN dec
       /\ m \in DOMAIN dec /\ dec[m] = w /\ epoch[q] < m
       /\ \A d \in DOMAIN dec : epoch[q] < d => m <= d
       /\ group[q] = IF half THEN w ELSE dec[epoch[q]]
  BY <1>4, <1>6, <1>7, <1>10, <1>11 DEF IInv, DecisionTyping, PathsCurrent
<1>13. /\ group = [p \in Paths |-> group[p]] /\ epoch = [p \in Paths |-> epoch[p]]
       /\ carried = [p \in Paths |-> carried[p]] /\ decided = [p \in Paths |-> decided[p]]
  BY DEF IInv, DecisionTyping
<1>14. /\ carried' = [carried EXCEPT ![q] = @ \cup {<<group'[q], epoch'[q]>>}]
       /\ half' = ~half
  BY <1>4, <1>5 DEF WriteDecision, Carry
<1>15. /\ carried' = [p \in Paths |-> carried'[p]]
       /\ \A p \in Paths : p # q => carried'[p] = carried[p]
       /\ carried'[q] = carried[q] \cup {<<group'[q], epoch'[q]>>}
  BY <1>6, <1>13, <1>14
<1>16. PathsNumbered' /\ ObservationsSound' /\ GroupedAfterWriting' /\ SendersExplained'
  BY <1>8, <1>9 DEF IInv, PathsNumbered, ObservationsSound, GroupedAfterWriting, SendersExplained
<1>17. ASSUME Explains(dec, group'[q], epoch'[q])
       PROVE  CarriedExplained'
  <2> SUFFICES ASSUME NEW p \in Paths, NEW c \in carried'[p]
               PROVE  Explains(decided'[p], c[1], c[2])
    BY DEF CarriedExplained
  <2>1. decided'[p] = decided[p]
    BY <1>8
  <2>2. CASE c \in carried[p]
    BY <2>1, <2>2 DEF IInv, CarriedExplained
  <2>3. CASE ~(c \in carried[p])
    <3>1. p = q
      BY <1>15, <2>3
    <3>2. c = <<group'[q], epoch'[q]>>
      BY <1>15, <2>3, <3>1
    <3>3. c[1] = group'[q] /\ c[2] = epoch'[q]
      BY <3>2
    <3> QED BY <1>11, <1>17, <2>1, <3>1, <3>3
  <2> QED BY <2>2, <2>3
<1>18. CASE ~half
  <2>1. group' = [group EXCEPT ![q] = w] /\ epoch' = epoch /\ writing' = writing
    BY <1>4, <1>5, <1>18 DEF WriteDecision
  <2>2. /\ group' = [p \in Paths |-> group'[p]] /\ group'[q] = w
        /\ \A p \in Paths : p # q => group'[p] = group[p]
    BY <1>6, <1>13, <2>1
  <2>3. half' = TRUE
    BY <1>14, <1>18
  <2>4. WritingSound'
    <3>1. writing # <<>>
      BY DEF WriteDecision
    <3> QED BY <2>1, <2>3, <3>1 DEF IInv, WritingSound
  <2>5. DecisionTyping'
    BY <1>8, <1>15, <2>1, <2>2 DEF IInv, DecisionTyping
  <2>6. Explains(dec, group'[q], epoch'[q])
    BY <1>12, <2>1, <2>2 DEF Explains
  <2>7. PathsCurrent'
    <3> SUFFICES ASSUME NEW p \in Paths
                 PROVE  /\ Pending(p)' = {} => /\ group'[p] = decided'[p][epoch'[p]]
                                               /\ \A d \in DOMAIN decided'[p] : d <= epoch'[p]
                        /\ \A i \in Pending(p)' :
                             /\ sbdEpoch' \in DOMAIN decided'[p] /\ decided'[p][sbdEpoch'] = writing'[i][2]
                             /\ epoch'[p] < sbdEpoch'
                             /\ \A d \in DOMAIN decided'[p] : epoch'[p] < d => sbdEpoch' <= d
                             /\ group'[p] = IF i = 1 /\ half' THEN writing'[i][2] ELSE decided'[p][epoch'[p]]
      BY DEF PathsCurrent
    <3>1. Pending(p)' = Pending(p)
      BY <2>1 DEF Pending
    <3>2. CASE p = q
      <4>1. \A i \in Pending(p) : i = 1
        BY <1>2, <1>6, <3>2 DEF Pending
      <4>2. Pending(p) # {}
        BY <1>7, <3>2
      <4>3. decided'[p] = dec /\ sbdEpoch' = m /\ epoch'[p] = epoch[q] /\ group'[p] = w
        BY <1>8, <1>10, <1>11, <2>1, <2>2, <3>2
      <4>4. writing'[1][2] = w
        BY <1>4, <2>1
      <4> QED BY <1>12, <2>3, <3>1, <4>1, <4>2, <4>3, <4>4
    <3>3. CASE p # q
      <4>1. ~(1 \in Pending(p)) /\ group'[p] = group[p]
        BY <1>7, <2>2, <3>3
      <4>2. /\ Pending(p) = {} => /\ group[p] = decided[p][epoch[p]]
                                  /\ \A d \in DOMAIN decided[p] : d <= epoch[p]
            /\ \A i \in Pending(p) :
                 /\ sbdEpoch \in DOMAIN decided[p] /\ decided[p][sbdEpoch] = writing[i][2]
                 /\ epoch[p] < sbdEpoch
                 /\ \A d \in DOMAIN decided[p] : epoch[p] < d => sbdEpoch <= d
                 /\ group[p] = decided[p][epoch[p]]
        BY <4>1 DEF IInv, PathsCurrent
      <4>3. \A i \in Pending(p) : i # 1
        BY <4>1
      <4> QED BY <1>8, <2>1, <3>1, <4>1, <4>2, <4>3
    <3> QED BY <3>2, <3>3
  <2> QED BY <1>16, <1>17, <2>4, <2>5, <2>6, <2>7 DEF IInv
<1>19. CASE half
  <2>1. epoch' = [epoch EXCEPT ![q] = sbdEpoch] /\ group' = group /\ writing' = Tail(writing)
    BY <1>4, <1>5, <1>19 DEF WriteDecision
  <2>2. /\ epoch' = [p \in Paths |-> epoch'[p]] /\ epoch'[q] = m
        /\ \A p \in Paths : p # q => epoch'[p] = epoch[p]
    BY <1>6, <1>10, <1>13, <2>1
  <2>3. half' = FALSE
    BY <1>14, <1>19
  <2>4. /\ writing' = [i \in 1..(n - 1) |-> writing'[i]] /\ DOMAIN writing' = 1..(n - 1)
        /\ \A i \in 1..(n - 1) : writing'[i] = writing[i + 1]
    <3>1. PICK S : S = {writing[i] : i \in 1..n}
      OBVIOUS
    <3>2. writing \in Seq(S) /\ writing # <<>>
      BY <1>3, <3>1 DEF WriteDecision
    <3>3. /\ Tail(writing) \in Seq(S) /\ Len(Tail(writing)) = n - 1
          /\ \A i \in 1..Len(Tail(writing)) : Tail(writing)[i] = writing[i + 1]
      BY <1>3, <3>2, HeadTailProperties
    <3>4. n - 1 \in Nat
      BY <1>2
    <3>5. PICK t : t = Tail(writing)
      OBVIOUS
    <3>6. t \in Seq(S) /\ Len(t) = n - 1 /\ \A i \in 1..Len(t) : t[i] = writing[i + 1]
      BY <3>3, <3>5
    <3>7. t \in [1..(n - 1) -> S]
      BY <3>4, <3>6, LenProperties
    <3> QED BY <2>1, <3>5, <3>6, <3>7
  <2>5. n - 1 \in Nat /\ \A i \in 1..(n - 1) : i + 1 \in 1..n /\ i + 1 # 1
    BY <1>2
  <2>6. WritingSound'
    <3>1. \A i \in 1..(n - 1) : writing'[i][1] \in Paths /\ writing'[i] = <<writing'[i][1], writing'[i][2]>>
      BY <1>2, <2>4, <2>5 DEF IInv, WritingSound
    <3>2. \A i, j \in 1..(n - 1) : i # j => writing'[i][1] # writing'[j][1]
      <4>1. \A i, j \in 1..n : i # j => writing[i][1] # writing[j][1]
        BY <1>2 DEF IInv, WritingSound
      <4>2. \A i, j \in 1..(n - 1) : i # j => i + 1 # j + 1
        OBVIOUS
      <4> QED BY <2>4, <2>5, <4>1, <4>2
    <3> QED BY <2>3, <2>4, <2>5, <3>1, <3>2 DEF WritingSound
  <2>7. DecisionTyping'
    <3>1. \A p \in Paths : epoch'[p] \in DOMAIN decided'[p]
      BY <1>8, <1>11, <1>12, <2>2 DEF IInv, DecisionTyping
    <3> QED BY <1>8, <1>13, <1>15, <2>1, <2>2, <3>1 DEF IInv, DecisionTyping
  <2>8. Explains(dec, group'[q], epoch'[q])
    BY <1>12, <1>19, <2>1, <2>2 DEF Explains
  <2>9. PathsCurrent'
    <3> SUFFICES ASSUME NEW p \in Paths
                 PROVE  /\ Pending(p)' = {} => /\ group'[p] = decided'[p][epoch'[p]]
                                               /\ \A d \in DOMAIN decided'[p] : d <= epoch'[p]
                        /\ \A i \in Pending(p)' :
                             /\ sbdEpoch' \in DOMAIN decided'[p] /\ decided'[p][sbdEpoch'] = writing'[i][2]
                             /\ epoch'[p] < sbdEpoch'
                             /\ \A d \in DOMAIN decided'[p] : epoch'[p] < d => sbdEpoch' <= d
                             /\ group'[p] = decided'[p][epoch'[p]]
      BY <2>3 DEF PathsCurrent
    <3>1. Pending(p)' = {i \in 1..(n - 1) : writing[i + 1][1] = p}
      BY <2>4 DEF Pending
    <3>2. CASE p = q
      <4>1. Pending(p)' = {}
        BY <1>6, <2>5, <3>1, <3>2
      <4>2. decided'[p] = dec /\ epoch'[p] = m /\ group'[p] = w
        BY <1>8, <1>11, <1>12, <1>19, <2>1, <2>2, <3>2
      <4>3. \A d \in DOMAIN dec : d <= m
        BY <1>12
      <4> QED BY <1>12, <4>1, <4>2, <4>3
    <3>3. CASE p # q
      <4>1. ~(1 \in Pending(p)) /\ epoch'[p] = epoch[p] /\ group'[p] = group[p] /\ decided'[p] = decided[p]
        BY <1>7, <1>8, <2>1, <2>2, <3>3
      <4>2. /\ Pending(p) = {} => /\ group[p] = decided[p][epoch[p]]
                                  /\ \A d \in DOMAIN decided[p] : d <= epoch[p]
            /\ \A i \in Pending(p) :
                 /\ sbdEpoch \in DOMAIN decided[p] /\ decided[p][sbdEpoch] = writing[i][2]
                 /\ epoch[p] < sbdEpoch
                 /\ \A d \in DOMAIN decided[p] : epoch[p] < d => sbdEpoch <= d
                 /\ group[p] = decided[p][epoch[p]]
        BY <4>1 DEF IInv, PathsCurrent
      <4>3. \A i \in Pending(p)' : i + 1 \in Pending(p) /\ writing'[i] = writing[i + 1]
        BY <1>2, <2>4, <2>5, <3>1 DEF Pending
      <4>4. Pending(p)' = {} => Pending(p) = {}
        <5> SUFFICES ASSUME NEW j \in Pending(p) PROVE Pending(p)' # {}
          OBVIOUS
        <5>1. j \in 1..n /\ j # 1 /\ writing[j][1] = p
          BY <1>2, <4>1 DEF Pending
        <5>2. j - 1 \in 1..(n - 1) /\ (j - 1) + 1 = j
          BY <5>1
        <5> QED BY <3>1, <5>1, <5>2
      <4> QED BY <1>8, <4>1, <4>2, <4>3, <4>4
    <3> QED BY <3>2, <3>3
  <2> QED BY <1>16, <1>17, <2>6, <2>7, <2>8, <2>9 DEF IInv
<1> QED BY <1>18, <1>19

\* Nothing is decided and nothing is carried but group 0 of epoch 0.
LEMMA InitIInv == Init => IInv
<1> SUFFICES ASSUME Init PROVE IInv
  OBVIOUS
<1>1. Cardinality(paths) = 0 /\ paths = {} /\ 1..0 = {} /\ 0 \in 0..MaxPaths
  BY FS_EmptySet, SharedBottleneckAssumption DEF Init
<1>2. PathsNumbered
  BY <1>1 DEF PathsNumbered
<1>3. <<>> = [i \in 1..0 |-> <<>>[i]] /\ DOMAIN <<>> = {}
  OBVIOUS
<1>4. ObservationsSound /\ WritingSound /\ GroupedAfterWriting
  BY <1>3 DEF Init, ObservationsSound, WritingSound, GroupedAfterWriting
<1>5. DecisionTyping
  BY DEF Init, DecisionTyping
<1>6. PathsCurrent
  BY <1>3 DEF Init, PathsCurrent, Pending
<1>7. CarriedExplained
  <2> SUFFICES ASSUME NEW p \in Paths, NEW c \in carried[p]
               PROVE  Explains(decided[p], c[1], c[2])
    BY DEF CarriedExplained
  <2>1. c[1] = 0 /\ c[2] = 0 /\ decided[p] = [e \in {0} |-> 0]
    BY DEF Init
  <2> QED BY <2>1 DEF Explains
<1>8. SendersExplained
  <2>1. senders = [p \in Paths |-> NewSender] /\ decided = [p \in Paths |-> [e \in {0} |-> 0]]
    BY DEF Init
  <2>2. \A i \in DOMAIN NewSender.items : NewSender.items[i].group = 0 /\ NewSender.items[i].epoch = 0
    BY DEF NewSender
  <2>3. Explains([e \in {0} |-> 0], 0, 0)
    BY DEF Explains
  <2> QED BY <2>1, <2>2, <2>3 DEF SendersExplained
<1> QED BY <1>2, <1>4, <1>5, <1>6, <1>7, <1>8 DEF IInv

\* Every action, and stuttering.
LEMMA NextIInv == IInv /\ [Next]_vars => IInv'
<1> SUFFICES ASSUME IInv, [Next]_vars PROVE IInv'
  OBVIOUS
<1>1. CASE CreatePath
  BY <1>1, CreatePathStep
<1>2. CASE Interval
  BY <1>2, OtherSteps DEF Interval
<1>3. CASE StreamFrames
  BY <1>3, OtherSteps DEF StreamFrames
<1>4. CASE computeSBD
  BY <1>4, OtherSteps DEF computeSBD
<1>5. CASE Grouping
  BY <1>5, GroupingStep
<1>6. CASE Panic
  BY <1>6, OtherSteps DEF Panic, receiverVars
<1>7. CASE mergeObservations
  BY <1>7, MergeStep
<1>8. CASE WriteDecision
  BY <1>8, WriteStep
<1>9. CASE ReceivedAck
  BY <1>9, ReceivedAckStep
<1>10. CASE UNCHANGED vars
  BY <1>10, OtherSteps DEF vars, receiverVars
<1> QED BY <1>1, <1>2, <1>3, <1>4, <1>5, <1>6, <1>7, <1>8, <1>9, <1>10 DEF Next

-----------------------------------------------------------------------------
\* What waits to be written, what the paths show, what ACK frames carry and what the
\* senders keep: each follows from the decisions made, in every reachable state.
THEOREM InductiveInvariant == Spec => []IInv
<1> QED BY InitIInv, NextIInv, PTL DEF Spec

\* mergeObservations writes the group and then the epoch of a path without a lock, and ACK
\* frames are lost, repeated and overtaken: the sender never learns a group older than the
\* epoch it keeps it for, and never one newer than the path's next decision.
THEOREM RecordedIsDecided == Spec => []RecordedWasDecided
<1>1. IInv => RecordedWasDecided
  <2> SUFFICES ASSUME IInv, NEW p \in Paths, NEW i \in DOMAIN senders[p].items
               PROVE  LET e == senders[p].items[i].epoch
                          later == {d \in DOMAIN decided[p] : d > e}
                          candidates == {e} \cup (IF later = {} THEN {} ELSE {Min(later)})
                      IN /\ e \in DOMAIN decided[p]
                         /\ \E d \in candidates : senders[p].items[i].group = decided[p][d]
    BY DEF RecordedWasDecided
  <2>1. PICK dec, g, e : /\ dec = decided[p]
                         /\ g = senders[p].items[i].group /\ e = senders[p].items[i].epoch
    OBVIOUS
  <2>0. PICK n \in Nat : n = sbdEpoch
    BY DEF IInv, DecisionTyping
  <2>2. DOMAIN dec \subseteq 0..n
    BY <2>0, <2>1 DEF IInv, DecisionTyping
  <2>3. Explains(dec, g, e)
    BY <2>1 DEF IInv, SendersExplained
  <2>4. PICK later, candidates : /\ later = {d \in DOMAIN dec : d > e}
                                 /\ candidates = {e} \cup (IF later = {} THEN {} ELSE {Min(later)})
    OBVIOUS
  <2>5. e \in DOMAIN dec /\ \E d \in candidates : g = dec[d]
    BY <2>2, <2>3, <2>4, ExplainedIsCandidate
  <2> QED BY <2>1, <2>4, <2>5
<1> QED BY <1>1, InductiveInvariant, PTL

-----------------------------------------------------------------------------
(* What getEpsilon gives and takes. *)

\* One of finitely many has the greatest value.
LEMMA GreatestValue ==
  ASSUME NEW C, IsFiniteSet(C), C # {}, NEW v, \A p \in C : v[p] \in Nat
  PROVE  \E p \in C : \A q \in C : v[q] <= v[p]
<1> DEFINE above(p) == {q \in C : v[q] >= v[p]}
           family == {above(p) : p \in C}
<1>1. IsWellFoundedOn(StrictSubsetOrdering(C), SUBSET C)
  BY FS_FiniteSubsetsOfFinite, FS_StrictSubsetOrderingWellFounded
<1>2. family \subseteq SUBSET C /\ family # {}
  OBVIOUS
<1>3. PICK T \in family : \A U \in family : ~(<<U, T>> \in StrictSubsetOrdering(C))
  <2> HIDE DEF family
  <2> QED BY <1>1, <1>2, WFMin
<1>4. PICK p \in C : T = above(p)
  BY <1>3
<1>5. \A q \in C : v[q] <= v[p]
  <2> SUFFICES ASSUME NEW q \in C, v[q] > v[p]
               PROVE  FALSE
    OBVIOUS
  <2>1. above(q) \subseteq above(p)
    OBVIOUS
  <2>2. p \in above(p) /\ ~(p \in above(q))
    OBVIOUS
  <2>3. <<above(q), T>> \in StrictSubsetOrdering(C)
    BY <1>4, <2>1, <2>2 DEF StrictSubsetOrdering
  <2> QED BY <1>3, <2>3
<1> QED BY <1>5

\* Any windows but zero, any bytes and any round trip times.
AnyFlows == [cwnd : Nat \ {0}, bytes : Nat, rtt2 : Nat \ {0}]

\* The largest window is that of one of them.
LEMMA LargestWindow ==
  ASSUME NEW C \in SUBSET Paths, C # {}, NEW flow \in [Paths -> AnyFlows]
  PROVE  \E p \in C : flow[p].cwnd = Max({0} \cup {flow[q].cwnd : q \in C})
<1>1. IsFiniteSet(C)
  <2>1. IsFiniteSet(Paths)
    BY FS_Interval, SharedBottleneckAssumption DEF Paths
  <2> QED BY <2>1, FS_Subset
<1>2. PICK v : v = [p \in C |-> flow[p].cwnd]
  OBVIOUS
<1>3. \A p \in C : v[p] \in Nat \ {0} /\ v[p] = flow[p].cwnd
  BY <1>2 DEF AnyFlows
<1>4. PICK p \in C : \A q \in C : v[q] <= v[p]
  BY <1>1, <1>3, GreatestValue
<1>5. PICK S : S = {0} \cup {flow[q].cwnd : q \in C}
  OBVIOUS
<1>6. v[p] \in S /\ \A y \in S : y \in Nat /\ v[p] >= y
  BY <1>3, <1>4, <1>5
<1>7. \A x \in S : (\A y \in S : x >= y) => x = v[p]
  BY <1>6
<1>8. Max(S) = v[p]
  BY <1>6, <1>7 DEF Max
<1> QED BY <1>3, <1>5, <1>8

\* The paths that get more and those that get less, however the best were found.
LEMMA FlowsCancel ==
  ASSUME NEW C \in SUBSET Paths, NEW flow \in [Paths -> AnyFlows]
  PROVE  Cancels(C, flow)
<1>1. PICK best : best = Best(flow, C)
  OBVIOUS
<1>2. PICK M : M = {p \in C : flow[p].cwnd = Max({0} \cup {flow[q].cwnd : q \in C})}
  OBVIOUS
<1>3. PICK BNotM : BNotM = {p \in C \ M : AsGood(flow, p, best)}
  OBVIOUS
<1>4. PICK n : n = Cardinality(C)
  OBVIOUS
<1>5. PICK eps : eps = [p \in C |->
                          CASE BNotM # {} /\ p \in BNotM -> [num |-> 1, den |-> n * Cardinality(BNotM)]
                            [] BNotM # {} /\ p \in M -> [num |-> -1, den |-> n * Cardinality(M)]
                            [] OTHER -> [num |-> 0, den |-> 1]]
  OBVIOUS
<1>6. getEpsilon(Paths, C, flow, Best(flow, C)) = eps
  BY <1>1, <1>2, <1>3, <1>4, <1>5 DEF getEpsilon
<1>7. M \subseteq C /\ BNotM \subseteq C /\ \A p \in BNotM : ~(p \in M)
  BY <1>2, <1>3
<1>8. BNotM # {} => M # {}
  <2> SUFFICES ASSUME BNotM # {} PROVE M # {}
    OBVIOUS
  <2>1. C # {}
    BY <1>7
  <2> QED BY <1>2, <2>1, LargestWindow
<1>9. n \in Nat /\ Cardinality(M) \in Nat /\ Cardinality(BNotM) \in Nat
  <2>1. IsFiniteSet(Paths)
    BY FS_Interval, SharedBottleneckAssumption DEF Paths
  <2>2. IsFiniteSet(C) /\ IsFiniteSet(M) /\ IsFiniteSet(BNotM)
    BY <1>7, <2>1, FS_Subset
  <2> QED BY <1>4, <2>2, FS_CardinalityType
<1>10. PICK up, down : up = {p \in C : eps[p].num = 1} /\ down = {p \in C : eps[p].num = -1}
  OBVIOUS
<1>11. \A p \in C :
         eps[p] = IF BNotM # {} /\ p \in BNotM THEN [num |-> 1, den |-> n * Cardinality(BNotM)]
                  ELSE IF BNotM # {} /\ p \in M THEN [num |-> -1, den |-> n * Cardinality(M)]
                  ELSE [num |-> 0, den |-> 1]
  BY <1>5, <1>7
<1>12. up = BNotM /\ down = IF BNotM = {} THEN {} ELSE M
  BY <1>7, <1>10, <1>11
<1>13. (up = {}) = (down = {})
  BY <1>8, <1>12
<1>14. ASSUME NEW p \in up, NEW q \in down
       PROVE  Cardinality(up) * eps[q].den = Cardinality(down) * eps[p].den
  <2>1. BNotM # {} /\ down = M /\ up = BNotM
    BY <1>12
  <2>2. eps[p].den = n * Cardinality(BNotM) /\ eps[q].den = n * Cardinality(M)
    BY <1>7, <1>11, <2>1
  <2>3. \A a, b, c \in Nat : a * (b * c) = c * (b * a)
    OBVIOUS
  <2> QED BY <1>9, <2>1, <2>2, <2>3
<1> DEFINE u == {p \in C : eps[p].num = 1}
           d == {p \in C : eps[p].num = -1}
<1>15. u = up /\ d = down
  BY <1>10
<1>16. (u = {}) = (d = {})
  BY <1>13, <1>15
<1>17. \A p \in u, q \in d : Cardinality(u) * eps[q].den = Cardinality(d) * eps[p].den
  BY <1>14, <1>15
<1> QED BY <1>6, <1>16, <1>17, Zenon DEF Cancels

\* What the model checker's flows are a part of.
LEMMA EveryGroupCancels ==
  ASSUME NEW C \in SUBSET Paths
  PROVE  C \in CancellingGroups
<1>1. \A flow \in [Paths -> Flows] : flow \in [Paths -> AnyFlows]
  <2>1. \A f \in Flows : f \in AnyFlows
    BY DEF Flows, AnyFlows
  <2> QED BY <2>1
<1>2. \A flow \in [Paths -> Flows] : Cancels(C, flow)
  BY <1>1, FlowsCancel
<1> QED BY <1>2 DEF CancellingGroups

\* maybeIncreaseCwnd adds getEpsilon to a window: whatever mix of epochs the senders have
\* recorded, what the paths coupled with one of them gain, those of the largest window lose.
THEOREM EpsilonsAlwaysCancel == Spec => []EpsilonsCancel
<1>1. IInv => EpsilonsCancel
  <2> SUFFICES ASSUME IInv, NEW o \in paths
               PROVE  Coupled([p \in paths |-> senders[p]], o) \in CancellingGroups
    BY DEF EpsilonsCancel
  <2>1. paths \subseteq Paths
    <3>1. PICK k \in 0..MaxPaths : paths = 1..k
      BY DEF IInv, PathsNumbered
    <3>2. 1..k \subseteq 1..MaxPaths
      BY SharedBottleneckAssumption
    <3> QED BY <3>1, <3>2 DEF Paths
  <2>2. PICK C : C = Coupled([p \in paths |-> senders[p]], o)
    OBVIOUS
  <2>3. C \subseteq paths
    BY <2>2 DEF Coupled
  <2> QED BY <2>1, <2>2, <2>3, EveryGroupCancels
<1> QED BY <1>1, InductiveInvariant, PTL

=============================================================================

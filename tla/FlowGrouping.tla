---------------------------- MODULE FlowGrouping ----------------------------
(***************************************************************************)
(* The grouping algorithm of shared bottleneck detection (flow_grouping.go)*)
(* on the statistics of the paths at one moment.  A group is a set of      *)
(* paths.  Statistics are integers: hundredths of the floating point value *)
(* (the program compares each with a constant of one or two decimals).  PB *)
(* is left out: setup makes it FALSE for every call, and splitCongestion   *)
(* sets it after its last use.                                             *)
(***************************************************************************)
EXTENDS Integers, SequencesExt

CONGESTION_THRESHOLD == 10
KEYFREQ_DELTA_THRESHOLD == 10
VARIANCE_DELTA_THRESHOLD == 10
LOSS_DELTA_THRESHOLD == 10
SKEWNESS_DELTA_THRESHOLD == 15
LOSS_THRESHOLD == 10

-----------------------------------------------------------------------------
\* splitCongestion: the paths under suspicion; the others form no group.
Congested(all, st) ==
  {p \in all : st[p].skewness < CONGESTION_THRESHOLD \/ st[p].loss > LOSS_THRESHOLD}

\* sortFlows, largest key first.  sort.Slice says nothing of equal keys and the paths come
\* from a map: ord, any order of all paths, decides.
sortFlows(flows, key, ord) == SortSeq(SelectSeq(ord, LAMBDA p : p \in flows),
                                      LAMBDA p, q : key[p] > key[q])

\* The flags 'a' and 'p': an absolute difference, or for the variance one in per cent of
\* the path before.
Near(name, prev, next) ==
  CASE name = "freqest" -> prev - next < KEYFREQ_DELTA_THRESHOLD
    [] name = "varest" -> (prev - next) * 100 < prev * VARIANCE_DELTA_THRESHOLD
    [] name = "loss" -> prev - next < LOSS_DELTA_THRESHOLD
    [] name = "skewness" -> prev - next < SKEWNESS_DELTA_THRESHOLD

\* Fault: the distance to the first path of the current group counts.
SplitFromFirst(flows, st, name, ord) ==
  LET key == [p \in flows |-> st[p][name]]
      sorted == sortFlows(flows, key, ord)
      number[i \in DOMAIN sorted] ==
        IF i = 1 THEN 1
        ELSE LET first == CHOOSE j \in 1..(i - 1) :
                            /\ number[j] = number[i - 1]
                            /\ \A k \in 1..(j - 1) : number[k] # number[j]
             IN IF Near(name, key[sorted[first]], key[sorted[i]]) THEN number[i - 1] ELSE number[i - 1] + 1
      n == IF sorted = <<>> THEN 0 ELSE number[Len(sorted)]
  IN [g \in 1..n |-> {sorted[i] : i \in {j \in DOMAIN sorted : number[j] = g}}]

\* splitFlows: a new group starts wherever the path before is too far away.
splitFlows(flows, st, name, ord) ==
  LET key == [p \in flows |-> st[p][name]]
      sorted == sortFlows(flows, key, ord)
      number[i \in DOMAIN sorted] ==
        IF i = 1 THEN 1
        ELSE IF Near(name, key[sorted[i - 1]], key[sorted[i]]) THEN number[i - 1] ELSE number[i - 1] + 1
      n == IF sorted = <<>> THEN 0 ELSE number[Len(sorted)]
  IN [g \in 1..n |-> {sorted[i] : i \in {j \in DOMAIN sorted : number[j] = g}}]

splitSkewness(flows, st, ord) ==
  IF \E p \in flows : st[p].loss > LOSS_THRESHOLD
  THEN splitFlows(flows, st, "loss", ord)
  ELSE splitFlows(flows, st, "skewness", ord)

\* processOwds: for every group by frequency and variance, its split by loss or skewness.
FlowGroups(all, st, ord) ==
  LET groupsFreq == splitFlows(Congested(all, st), st, "freqest", ord)
      groupsVar[n \in 0..Len(groupsFreq)] ==
        IF n = 0 THEN <<>>
        ELSE groupsVar[n - 1] \o splitFlows(groupsFreq[n], st, "varest", ord)
      groups == groupsVar[Len(groupsFreq)]
  IN [i \in DOMAIN groups |-> splitSkewness(groups[i], st, ord)]

\* The numbers grouping gives: it flattens the last split, and 0 is a path in no group.
classify(all, groups) ==
  LET found(p) == {i \in DOMAIN groups : \E j \in DOMAIN groups[i] : p \in groups[i][j]}
  IN [p \in all |-> IF found(p) = {} THEN 0 ELSE CHOOSE i \in found(p) : TRUE]

-----------------------------------------------------------------------------
(***************************************************************************)
(* What the numbers should mean, without sorting: two congested paths are  *)
(* linked when they are near each other, and a group is a component.       *)
(***************************************************************************)
Linked(flows, st, name) ==
  LET key == [p \in flows |-> st[p][name]]
      near(p, q) == \/ p = q
                    \/ key[p] >= key[q] /\ Near(name, key[p], key[q])
                    \/ key[q] >= key[p] /\ Near(name, key[q], key[p])
      link[n \in 0..Cardinality(flows)] ==
        IF n = 0 THEN {e \in flows \X flows : near(e[1], e[2])}
        ELSE LET before == link[n - 1]
             IN {e \in flows \X flows :
                   \E r \in flows : <<e[1], r>> \in before /\ <<r, e[2]>> \in before}
  IN link[Cardinality(flows)]

SameBottleneck(all, st) ==
  LET suspects == Congested(all, st)
      freq == Linked(suspects, st, "freqest")
      var(p) == Linked({q \in suspects : <<p, q>> \in freq}, st, "varest")
  IN UNION {var(p) : p \in suspects}
=============================================================================

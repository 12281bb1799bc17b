-------------------------- MODULE SharedBottleneck --------------------------
(***************************************************************************)
(* Shared bottleneck detection from the receiver of data to the windows of *)
(* its sender (compute_sbd.go, congestion/olia_sender.go).  At the         *)
(* receiver the run loop hands one way delays to the goroutine computeSBD, *)
(* which wakes the goroutine grouping once per interval; every             *)
(* SBD_MAX_OBSERVATIONS groupings are merged by vote into a new epoch and  *)
(* written into the paths.  Each ACK frame carries the (group, epoch) of   *)
(* its path, and the sender keeps them in the ring of OliaGroups.          *)
(*                                                                         *)
(* One session: the channels, the epoch and the observations are globals   *)
(* of the process.  The initial path takes no part.  The statistics are    *)
(* floating point results another goroutine computes: any of Statistics.   *)
(***************************************************************************)
EXTENDS FlowGrouping, OliaGroups

CONSTANTS
  MaxPaths,              \* bound: paths besides the initial one, numbered as they are created
  SBD_M,                 \* 50
  SBD_MAX_OBSERVATIONS,  \* 10, and even: a tie is half of it
  SbdChanCap, GroupChanCap,
  SkewValues, LossValues, FreqValues, VarValues,   \* bounds: what the statistics may be
  MaxEpoch,              \* bound
  GroupedPaths           \* bound: paths the grouping algorithm alone is checked with

ASSUME SharedBottleneckAssumption ==
  /\ MaxPaths \in Nat
  /\ SBD_M \in Nat /\ SBD_MAX_OBSERVATIONS \in Nat \ {0} /\ MaxEpoch \in Nat /\ GroupedPaths \in Nat
  /\ SbdChanCap \in Nat \ {0} /\ GroupChanCap \in Nat \ {0}
  /\ SkewValues \cup LossValues \cup FreqValues \cup VarValues \subseteq Nat

Paths == 1..MaxPaths

Statistics ==
  {[skewness |-> s, loss |-> l, freqest |-> f, varest |-> v] :
     s \in SkewValues, l \in LossValues, f \in FreqValues, v \in VarValues}

VARIABLES
  paths,                 \* s.paths of the receiver and oliaSenders of the sender
  state, numberInterval, \* of the session
  sbdChanStruct, groupChan,    \* how full they are
  mgroupsObservation,    \* sequence of groupings, each a sequence over the sorted paths
  sbdEpoch,
  writing,               \* what mergeObservations has still to write: <<path, group>>
  half,                  \* the group of the first of them is written, its epoch is not
  group, epoch,          \* of the paths
  decided,               \* history: for each path, epoch -> group
  carried,               \* history: for each path, what an ACK frame has carried or may carry
  senders,               \* OliaSender of each path, at the peer
  panicked               \* the process is gone

receiverVars == <<state, numberInterval, sbdChanStruct, groupChan, mgroupsObservation>>
mergeVars == <<sbdEpoch, writing, half, group, epoch, decided, carried>>
vars == <<paths, receiverVars, mergeVars, senders, panicked>>

Init ==
  /\ paths = {}
  /\ state = FALSE /\ numberInterval = 0
  /\ sbdChanStruct = 0 /\ groupChan = 0
  /\ mgroupsObservation = <<>>
  /\ sbdEpoch = 0
  /\ writing = <<>> /\ half = FALSE
  /\ group = [p \in Paths |-> 0] /\ epoch = [p \in Paths |-> 0]
  /\ decided = [p \in Paths |-> [e \in {0} |-> 0]]
  /\ carried = [p \in Paths |-> {<<0, 0>>}]
  /\ senders = [p \in Paths |-> NewSender]
  /\ panicked = FALSE

-----------------------------------------------------------------------------
(* The run loop of the receiver, and its path manager. *)

CreatePath ==
  /\ Cardinality(paths) < MaxPaths
  /\ paths' = paths \cup {Cardinality(paths) + 1}
  /\ UNCHANGED <<receiverVars, mergeVars, senders, panicked>>

\* handlePacketImpl: an interval is over.  The count stops mattering at 2 * SBD_M.
Interval ==
  /\ state' = TRUE
  /\ numberInterval' = Min({numberInterval + 1, 2 * SBD_M})
  /\ UNCHANGED <<paths, sbdChanStruct, groupChan, mgroupsObservation, mergeVars, senders, panicked>>

\* handleFrames: a packet with stream frames, not overtaken by another.
StreamFrames ==
  /\ paths # {}
  /\ sbdChanStruct < SbdChanCap
  /\ sbdChanStruct' = sbdChanStruct + 1
  /\ UNCHANGED <<paths, state, numberInterval, groupChan, mgroupsObservation, mergeVars, senders, panicked>>

\* One turn of computeSBD.
computeSBD ==
  /\ sbdChanStruct > 0
  /\ sbdChanStruct' = sbdChanStruct - 1
  /\ state' = FALSE
  /\ IF state /\ numberInterval >= 2 * SBD_M
     THEN groupChan < GroupChanCap /\ groupChan' = groupChan + 1
     ELSE UNCHANGED groupChan
  /\ UNCHANGED <<paths, numberInterval, mgroupsObservation, mergeVars, senders, panicked>>

-----------------------------------------------------------------------------
(***************************************************************************)
(* The goroutine grouping.                                                 *)
(***************************************************************************)
\* sort.Ints: SortSeq is a primitive of TLC, which the proofs cannot look into.
Sorted(b) ==
  LET perm == CHOOSE f \in SetToSeqs(DOMAIN b) : \A i, j \in DOMAIN b : i < j => b[f[i]] <= b[f[j]]
  IN [i \in DOMAIN b |-> b[perm[i]]]

\* The groups of all paths in the order of their IDs, as arrayToString writes them: a
\* grouping that begins [2,1] is sorted, and fewer than two paths panic.
arrayToString(mgroup) ==
  LET b == [i \in 1..Cardinality(DOMAIN mgroup) |->
              mgroup[CHOOSE p \in DOMAIN mgroup : Cardinality({q \in DOMAIN mgroup : q < p}) = i - 1]]
  IN IF b[1] = 2 /\ b[2] = 1 THEN Sorted(b) ELSE b

\* What the paths S are grouped into, for any statistics and any order of the map.
GroupingsOf(S) ==
  {classify(S, FlowGroups(S, st, ord)) : st \in [S -> Statistics], ord \in SetToSeqs(S)}

\* The same as a table over the number of paths.
Groupings ==
  LET upTo[n \in 0..MaxPaths] == IF n = 0 THEN <<>> ELSE Append(upTo[n - 1], GroupingsOf(1..n))
  IN upTo[MaxPaths]

Grouping ==
  /\ groupChan > 0 /\ paths # {} /\ sbdEpoch < MaxEpoch
  /\ writing = <<>>
  /\ Len(mgroupsObservation) < SBD_MAX_OBSERVATIONS
  /\ groupChan' = groupChan - 1
  /\ \E mgroup \in Groupings[Cardinality(paths)] : mgroupsObservation' = Append(mgroupsObservation, mgroup)
  /\ UNCHANGED <<paths, state, numberInterval, sbdChanStruct, mergeVars, senders, panicked>>

Panic ==
  /\ Len(mgroupsObservation) = SBD_MAX_OBSERVATIONS
  /\ \E i \in DOMAIN mgroupsObservation : Cardinality(DOMAIN mgroupsObservation[i]) < 2
  /\ panicked' = TRUE
  /\ UNCHANGED <<paths, receiverVars, mergeVars, senders>>

\* Their groups are the components.
RightGroups(S) ==
  \A st \in [S -> Statistics] :
    LET same == SameBottleneck(S, st) IN
    \A ord \in SetToSeqs(S) :
      LET mgroup == classify(S, FlowGroups(S, st, ord)) IN
      \A p, q \in S : <<p, q>> \in same <=> mgroup[p] # 0 /\ mgroup[p] = mgroup[q]

GroupsRight == \A n \in 1..GroupedPaths : RightGroups(1..n)

\* Windows, bytes between losses and squared RTTs that tell getEpsilon's cases apart.
Flows == [cwnd : 1..2, bytes : 0..1, rtt2 : 1..2]

\* What the largest windows give up is what the others get.
Cancels(coupled, flow) ==
  LET eps == getEpsilon(Paths, coupled, flow, Best(flow, coupled))
      up == {p \in coupled : eps[p].num = 1}
      down == {p \in coupled : eps[p].num = -1}
  IN /\ (up = {}) = (down = {})
     /\ \A p \in up, q \in down : Cardinality(up) * eps[q].den = Cardinality(down) * eps[p].den

\* The groups for which it is, whatever the flows are like.
CancellingGroups ==
  {C : C \in {S \in SUBSET Paths : \A flow \in [Paths -> Flows] : Cancels(S, flow)}}

\* The winners: [1,1] when two groupings were seen half of the time each.
Winners(groupings) ==
  LET votes == [g \in ToSet(groupings) |-> Cardinality({i \in DOMAIN groupings : groupings[i] = g})]
      is_tied == Cardinality(DOMAIN votes) = 2
                 /\ \E g \in DOMAIN votes : 2 * votes[g] = SBD_MAX_OBSERVATIONS
  IN IF is_tied THEN {<<1, 1>>} ELSE {g \in DOMAIN votes : \A h \in DOMAIN votes : votes[h] <= votes[g]}

\* The winning groups go to the paths in the order copyPaths found them, any order.
mergeObservations ==
  /\ Len(mgroupsObservation) = SBD_MAX_OBSERVATIONS
  /\ \A i \in DOMAIN mgroupsObservation : Cardinality(DOMAIN mgroupsObservation[i]) >= 2
  /\ sbdEpoch' = sbdEpoch + 1
  /\ mgroupsObservation' = <<>>
  /\ \E win \in Winners([i \in DOMAIN mgroupsObservation |-> arrayToString(mgroupsObservation[i])]),
        arrPi \in SetToSeqs(paths) :
       /\ writing' = [i \in DOMAIN win |-> <<arrPi[i], win[i]>>]
       /\ decided' = [p \in Paths |->
            LET new == {i \in DOMAIN win : arrPi[i] = p} IN
            IF new = {} THEN decided[p]
            ELSE [e \in DOMAIN decided[p] \cup {sbdEpoch'} |->
                    IF e = sbdEpoch' THEN win[CHOOSE i \in new : TRUE] ELSE decided[p][e]]]
  /\ UNCHANGED <<paths, state, numberInterval, sbdChanStruct, groupChan, half, group, epoch, carried,
                 senders, panicked>>

\* An ACK frame of path p can be packed at any time from what the path holds now.
Carry(p) == carried' = [carried EXCEPT ![p] = @ \cup {<<group'[p], epoch'[p]>>}]

\* Fault: the epoch is written before the group.
EpochFirst ==
  /\ writing # <<>>
  /\ IF half THEN group' = [group EXCEPT ![Head(writing)[1]] = Head(writing)[2]] /\ UNCHANGED epoch
     ELSE epoch' = [epoch EXCEPT ![Head(writing)[1]] = sbdEpoch] /\ UNCHANGED group
  /\ half' = ~half
  /\ writing' = IF half THEN Tail(writing) ELSE writing
  /\ Carry(Head(writing)[1])
  /\ UNCHANGED <<paths, receiverVars, sbdEpoch, decided, senders, panicked>>

\* The two assignments for one path, without a lock.
WriteDecision ==
  /\ writing # <<>>
  /\ IF half THEN epoch' = [epoch EXCEPT ![Head(writing)[1]] = sbdEpoch] /\ UNCHANGED group
     ELSE group' = [group EXCEPT ![Head(writing)[1]] = Head(writing)[2]] /\ UNCHANGED epoch
  /\ half' = ~half
  /\ writing' = IF half THEN Tail(writing) ELSE writing
  /\ Carry(Head(writing)[1])
  /\ UNCHANGED <<paths, receiverVars, sbdEpoch, decided, senders, panicked>>

-----------------------------------------------------------------------------
\* ReceivedAck at the sender: before it looks whether the ACK is a late one, so that any
\* of them counts, in any order and more than once.
ReceivedAck ==
  /\ \E p \in paths : \E c \in carried[p] :
       senders' = [senders EXCEPT ![p] = UpdateGroupEpoch(@, c[1], c[2])]
  /\ UNCHANGED <<paths, receiverVars, mergeVars, panicked>>

Next ==
  /\ ~panicked
  /\ \/ CreatePath \/ Interval \/ StreamFrames \/ computeSBD
     \/ Grouping \/ Panic \/ mergeObservations \/ WriteDecision
     \/ ReceivedAck

Spec == Init /\ [][Next]_vars

-----------------------------------------------------------------------------
(***************************************************************************)
(* Properties.                                                             *)
(***************************************************************************)
TypeOK ==
  /\ paths \subseteq Paths
  /\ state \in BOOLEAN /\ half \in BOOLEAN /\ panicked \in BOOLEAN
  /\ numberInterval \in 0..(2 * SBD_M)
  /\ sbdChanStruct \in 0..SbdChanCap /\ groupChan \in 0..GroupChanCap
  /\ \A i \in DOMAIN mgroupsObservation : mgroupsObservation[i] \in Groupings[Len(mgroupsObservation[i])]
  /\ sbdEpoch \in 0..MaxEpoch
  /\ \A i \in DOMAIN writing : writing[i] \in paths \X Nat
  /\ \A p \in Paths :
       /\ epoch[p] \in DOMAIN decided[p] /\ DOMAIN decided[p] \subseteq 0..sbdEpoch
       /\ senders[p].next \in 1..GROUP_HISTORY_SIZE

(***************************************************************************)
(* What the sender has recorded for an epoch is what the receiver decided  *)
(* for that path in that epoch or, when the ACK frame was packed between   *)
(* the two unlocked assignments of mergeObservations, in the next one the  *)
(* path took part in: never an older decision, however ACKs are lost,      *)
(* repeated or overtake each other.                                        *)
(***************************************************************************)
RecordedWasDecided ==
  \A p \in Paths : \A i \in DOMAIN senders[p].items :
    LET e == senders[p].items[i].epoch
        later == {d \in DOMAIN decided[p] : d > e}
        candidates == {e} \cup (IF later = {} THEN {} ELSE {Min(later)})
    IN /\ e \in DOMAIN decided[p]
       /\ \E d \in candidates : senders[p].items[i].group = decided[p][d]

(***************************************************************************)
(* When grouping is woken, whatever the statistics are by then and in      *)
(* whatever order the map of paths is walked: the paths that are not       *)
(* congested get 0, and two others share a number exactly if a chain of    *)
(* congested paths near each other in frequency, and within that in        *)
(* variance, joins them.                                                   *)
(***************************************************************************)
GroupsAreComponents == groupChan > 0 => GroupsRight

(***************************************************************************)
(* getEpsilon, for every sender that may ask for it, and any windows, RTTs *)
(* and losses of all: what the paths of the largest window give up is what *)
(* the best others get, so that OLIA shifts windows within a group and     *)
(* adds nothing.  The groups come from whatever mix of epochs the senders  *)
(* have recorded.                                                          *)
(***************************************************************************)
EpsilonsCancel ==
  \A o \in paths : Coupled([p \in paths |-> senders[p]], o) \in CancellingGroups
=============================================================================

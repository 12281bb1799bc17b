----------------------------- MODULE OliaGroups -----------------------------
(***************************************************************************)
(* What the sender of data keeps of the groups the receiver reports        *)
(* (congestion/olia_sender.go): per path a ring of (group, epoch) pairs,   *)
(* and the coupling of the paths by the newest epoch.                      *)
(*                                                                         *)
(* A sender is [items |-> <<...>>, next |-> ...]; ring positions count     *)
(* from 1.  os maps every path in the shared oliaSenders to its sender.    *)
(***************************************************************************)
EXTENDS Integers, FiniteSetsExt, SequencesExt

CONSTANT GROUP_HISTORY_SIZE     \* 20

ASSUME HistoryAssumption == GROUP_HISTORY_SIZE \in Nat \ {0}

NewSender == [items |-> [i \in 1..GROUP_HISTORY_SIZE |-> [group |-> 0, epoch |-> 0]], next |-> 1]

\* Fault: the ring does not wrap.
NextNotWrapped(o, group, epoch) ==
  IF \E i \in DOMAIN o.items : o.items[i].epoch = epoch THEN o
  ELSE [items |-> [o.items EXCEPT ![o.next] = [group |-> group, epoch |-> epoch]],
        next |-> o.next + 1]

\* The first report of an epoch counts.
UpdateGroupEpoch(o, group, epoch) ==
  IF \E i \in DOMAIN o.items : o.items[i].epoch = epoch THEN o
  ELSE [items |-> [o.items EXCEPT ![o.next] = [group |-> group, epoch |-> epoch]],
        next |-> (o.next % GROUP_HISTORY_SIZE) + 1]

\* The item written last, which is not the newest when ACKs overtake each other.
LastEpoch(o) ==
  LET idx == IF o.next = 1 THEN GROUP_HISTORY_SIZE ELSE o.next - 1 IN o.items[idx].epoch

hasGroupEpochs(o) == LastEpoch(o) > 0

getLatestEpoch(os) == Max({0} \cup {LastEpoch(os[p]) : p \in DOMAIN os})

getGroupNoFilter(o, epoch) ==
  LET found == {i \in DOMAIN o.items : o.items[i].epoch = epoch}
  IN IF found = {} THEN -1 ELSE o.items[Min(found)].group

\* The newest epoch in which no sender is in group 0.  A sender that lacks the epoch has
\* group -1 and does not stop it.
getEpoch(os) ==
  LET latest == getLatestEpoch(os)
      usable == {e \in 1..latest :
                   /\ latest - e < GROUP_HISTORY_SIZE
                   /\ \A p \in DOMAIN os : hasGroupEpochs(os[p]) => getGroupNoFilter(os[p], e) # 0}
  IN Max({0} \cup usable)

\* The group of maybeIncreaseCwnd: uint8.
getGroup(o, epoch) == getGroupNoFilter(o, epoch) % 256

canBeSent(o, group, epoch) == getGroupNoFilter(o, epoch) \in {0, group}

\* The senders that the increase of o takes into account.
Coupled(os, o) ==
  LET epoch == getEpoch(os) IN {p \in DOMAIN os : canBeSent(os[p], getGroup(os[o], epoch), epoch)}

-----------------------------------------------------------------------------
(***************************************************************************)
(* getEpsilon for the coupled senders: flow[p] has cwnd, the smoothed      *)
(* bytes between losses and the square of the smoothed RTT, not zero.  The *)
(* products are int64 and small here.  The result                          *)
(* has a numerator and a denominator for each of them.                     *)
(***************************************************************************)
\* At least as good as best, a path or the zero values best starts from: bytes for its RTT.
AsGood(flow, p, best) == flow[p].bytes * best.rtt2 >= best.bytes * flow[p].rtt2

\* A best one: the loop visits the senders in any order and keeps the last as good.
Best(flow, coupled) ==
  IF coupled = {} THEN [bytes |-> 0, rtt2 |-> 0]
  ELSE flow[CHOOSE p \in coupled : \A q \in coupled : AsGood(flow, p, flow[q])]

\* Fault: getMaxCwnd takes all the senders there are.
MaxCwndOfAll(senders, coupled, flow, best) ==
  LET maxCwnd == Max({0} \cup {flow[p].cwnd : p \in senders})
      M == {p \in coupled : flow[p].cwnd = maxCwnd}
      BNotM == {p \in coupled \ M : AsGood(flow, p, best)}
      n == Cardinality(coupled)
  IN [p \in coupled |->
       CASE BNotM # {} /\ p \in BNotM -> [num |-> 1, den |-> n * Cardinality(BNotM)]
         [] BNotM # {} /\ p \in M -> [num |-> -1, den |-> n * Cardinality(M)]
         [] OTHER -> [num |-> 0, den |-> 1]]

getEpsilon(senders, coupled, flow, best) ==
  LET maxCwnd == Max({0} \cup {flow[p].cwnd : p \in coupled})
      M == {p \in coupled : flow[p].cwnd = maxCwnd}
      BNotM == {p \in coupled \ M : AsGood(flow, p, best)}
      n == Cardinality(coupled)
  IN [p \in coupled |->
       CASE BNotM # {} /\ p \in BNotM -> [num |-> 1, den |-> n * Cardinality(BNotM)]
         [] BNotM # {} /\ p \in M -> [num |-> -1, den |-> n * Cardinality(M)]
         [] OTHER -> [num |-> 0, den |-> 1]]
=============================================================================

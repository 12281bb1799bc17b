------------------------- MODULE PacketPackerProofs -------------------------
(***************************************************************************)
(* The invariants of PacketPacker, for every number of paths and every     *)
(* limit.                                                                  *)
(*                                                                         *)
(* That control frames are neither lost nor sent twice is a matter of      *)
(* counting them in the list before and after a packet was cut off its     *)
(* end; the first part proves what is needed of Count.  What the packer    *)
(* returns is then described by IsPacket, whichever of its ways it took,   *)
(* and the invariant is shown for one packet of that description.          *)
(***************************************************************************)
EXTENDS PacketPacker, FiniteSetTheorems, FunctionTheorems, SequenceTheorems, TLAPS

-----------------------------------------------------------------------------
(* Counting in a list. *)

Places(list, what) == {i \in 1..Len(list) : list[i] = what}

\* There are finitely many places.
LEMMA CountType ==
  ASSUME NEW S, NEW s \in Seq(S), NEW w
  PROVE  /\ IsFiniteSet(Places(s, w)) /\ Count(s, w) \in Nat
         /\ Count(s, w) = Cardinality(Places(s, w))
<1>1. Len(s) \in Nat
  OBVIOUS
<1>2. IsFiniteSet(1..Len(s))
  BY <1>1, FS_Interval
<1>3. Places(s, w) \in SUBSET (1..Len(s))
  BY DEF Places
<1> QED BY <1>2, <1>3, FS_Subset, FS_CardinalityType DEF Count, Places

\* Two lists are counted one after the other.
LEMMA CountConcat ==
  ASSUME NEW S, NEW s \in Seq(S), NEW t \in Seq(S), NEW w
  PROVE  Count(s \o t, w) = Count(s, w) + Count(t, w)
<1> DEFINE A == Places(s, w)
           B == Places(t, w)
           C == Places(s \o t, w)
           f == [i \in B |-> i + Len(s)]
<1>1. Len(s) \in Nat /\ Len(t) \in Nat
  OBVIOUS
<1>2. /\ s \o t \in Seq(S) /\ Len(s \o t) = Len(s) + Len(t)
      /\ \A i \in 1..(Len(s) + Len(t)) : (s \o t)[i] = IF i <= Len(s) THEN s[i] ELSE t[i - Len(s)]
  BY ConcatProperties
<1>3. /\ IsFiniteSet(A) /\ Count(s, w) = Cardinality(A) /\ Cardinality(A) \in Nat
      /\ IsFiniteSet(B) /\ Count(t, w) = Cardinality(B) /\ Cardinality(B) \in Nat
      /\ IsFiniteSet(C) /\ Count(s \o t, w) = Cardinality(C) /\ Cardinality(C) \in Nat
  BY <1>2, CountType
<1>4. A \subseteq C
  BY <1>1, <1>2 DEF Places
<1>5. \A i : i \in C \ A <=> i \in (Len(s) + 1)..(Len(s) + Len(t)) /\ i - Len(s) \in B
  BY <1>1, <1>2 DEF Places
<1>6. \A i \in B : i \in 1..Len(t) /\ i + Len(s) \in C \ A
  <2> TAKE i \in B
  <2>1. i \in 1..Len(t)
    BY DEF Places
  <2>2. i + Len(s) \in (Len(s) + 1)..(Len(s) + Len(t)) /\ (i + Len(s)) - Len(s) = i
    BY <1>1, <2>1
  <2> HIDE DEF A, B, C
  <2> QED BY <1>5, <2>1, <2>2
<1>7. f \in Bijection(B, C \ A)
  <2> HIDE DEF A, B, C
  <2>1. f \in [B -> C \ A]
    BY <1>6
  <2>2. \A i, j \in B : f[i] = f[j] => i = j
    BY <1>1, <1>6
  <2>3. \A k \in C \ A : \E i \in B : f[i] = k
    <3> TAKE k \in C \ A
    <3>1. k \in Int /\ k - Len(s) \in B /\ (k - Len(s)) + Len(s) = k
      BY <1>1, <1>5
    <3> QED BY <3>1
  <2> HIDE DEF f
  <2> QED BY <2>1, <2>2, <2>3, Fun_IsBij
<1> HIDE DEF A, B, C, f
<1>8. Cardinality(C \ A) = Cardinality(B) /\ IsFiniteSet(C \ A)
  BY <1>3, <1>7, FS_Bijection DEF ExistsBijection
<1>9. Cardinality(C) = Cardinality(A) + Cardinality(C \ A)
  <2>1. C \cap A = A
    BY <1>4
  <2>2. Cardinality(C \ A) = Cardinality(C) - Cardinality(C \cap A)
    BY <1>3, FS_Difference
  <2>3. Cardinality(C \ A) = Cardinality(C) - Cardinality(A)
    BY <2>1, <2>2, Zenon
  <2>4. PICK a, c, d : a = Cardinality(A) /\ c = Cardinality(C) /\ d = Cardinality(C \ A)
    OBVIOUS
  <2>5. a \in Nat /\ c \in Nat /\ d = c - a
    BY <1>3, <2>3, <2>4, Zenon
  <2>6. c = a + d
    BY <2>5
  <2> QED BY <2>4, <2>6, Zenon
<1> QED BY <1>3, <1>8, <1>9

\* A list of one element, and none.
LEMMA CountOne ==
  ASSUME NEW x, NEW w
  PROVE  Count(<<x>>, w) = (IF x = w THEN 1 ELSE 0) /\ Count(<<>>, w) = 0
<1>1. {i \in 1..Len(<<x>>) : <<x>>[i] = w} = IF x = w THEN {1} ELSE {}
  OBVIOUS
<1>2. {i \in 1..Len(<<>>) : <<>>[i] = w} = {}
  OBVIOUS
<1> QED BY <1>1, <1>2, FS_Singleton, FS_EmptySet DEF Count

\* A list of at most one.
LEMMA CountIf ==
  ASSUME NEW present \in BOOLEAN, NEW x, NEW w
  PROVE  Count(If(present, x), w) = IF present /\ x = w THEN 1 ELSE 0
BY CountOne DEF If

\* A list cut in two.
LEMMA CountCut ==
  ASSUME NEW S, NEW s \in Seq(S), NEW n \in 0..Len(s), NEW w
  PROVE  /\ SubSeq(s, 1, n) \in Seq(S) /\ SubSeq(s, n + 1, Len(s)) \in Seq(S)
         /\ Count(SubSeq(s, 1, n), w) + Count(SubSeq(s, n + 1, Len(s)), w) = Count(s, w)
         /\ n < Len(s) => SubSeq(s, n + 1, Len(s)) # <<>>
         /\ n = Len(s) => SubSeq(s, 1, n) = s /\ SubSeq(s, n + 1, Len(s)) = <<>>
<1>1. Len(s) \in Nat /\ n \in Int /\ n + 1 \in Int
  OBVIOUS
<1>2. SubSeq(s, 1, n) \in Seq(S)
  <2>1. \A i \in 1..n : s[i] \in S
    BY <1>1, ElementOfSeq
  <2> QED BY <1>1, <2>1, SubSeqProperties
<1>3. /\ SubSeq(s, n + 1, Len(s)) \in Seq(S)
      /\ Len(SubSeq(s, n + 1, Len(s))) = IF n + 1 <= Len(s) THEN Len(s) - (n + 1) + 1 ELSE 0
  <2>1. \A i \in (n + 1)..Len(s) : s[i] \in S
    BY <1>1, ElementOfSeq
  <2> QED BY <1>1, <2>1, SubSeqProperties
<1>4. SubSeq(s, 1, n) \o SubSeq(s, n + 1, Len(s)) = s
  <2>1. 1 \in 1..(Len(s) + 1) /\ n \in 1 - 1..Len(s) /\ Len(s) \in n..Len(s)
    BY <1>1
  <2>2. SubSeq(s, 1, n) \o SubSeq(s, n + 1, Len(s)) = SubSeq(s, 1, Len(s))
    BY <2>1, ConcatAdjacentSubSeq
  <2> QED BY <2>2, SubSeqFull
<1>5. Count(SubSeq(s, 1, n), w) + Count(SubSeq(s, n + 1, Len(s)), w) = Count(s, w)
  <2>1. PICK u, v : u = SubSeq(s, 1, n) /\ v = SubSeq(s, n + 1, Len(s))
    OBVIOUS
  <2>2. u \in Seq(S) /\ v \in Seq(S) /\ u \o v = s
    BY <1>2, <1>3, <1>4, <2>1
  <2>3. Count(u, w) + Count(v, w) = Count(s, w)
    BY <2>2, CountConcat
  <2> QED BY <2>1, <2>3
<1>6. n < Len(s) => SubSeq(s, n + 1, Len(s)) # <<>>
  <2>1. n < Len(s) => Len(SubSeq(s, n + 1, Len(s))) # 0
    BY <1>1, <1>3
  <2>2. Len(<<>>) = 0
    OBVIOUS
  <2> QED BY <2>1, <2>2
<1>7. n = Len(s) => SubSeq(s, 1, n) = s /\ SubSeq(s, n + 1, Len(s)) = <<>>
  BY <1>1, SubSeqFull, SubSeqEmpty
<1> QED BY <1>2, <1>3, <1>5, <1>6, <1>7

\* The list without its head.
LEMMA CountTail ==
  ASSUME NEW S, NEW s \in Seq(S), s # <<>>, NEW w, s[1] # w
  PROVE  Tail(s) \in Seq(S) /\ Count(Tail(s), w) = Count(s, w)
<1>1. Tail(s) \in Seq(S) /\ Len(s) \in Nat /\ 1 \in 1..Len(s)
  BY HeadTailProperties, EmptySeq
<1>2. Tail(s) = SubSeq(s, 2, Len(s))
  BY TailIsSubSeq
<1>3. SubSeq(s, 1, 1) = <<s[1]>>
  <2>1. 1 \in 1..Len(s) /\ 1 \in 1..Len(s)
    BY <1>1
  <2>2. SubSeq(s, 1, 1) = SubSeq(s, 1, 0) \o <<s[1]>>
    BY <1>1, SubSeqRecursiveSecond
  <2>3. SubSeq(s, 1, 0) = <<>> /\ <<s[1]>> \in Seq(S)
    BY <1>1, SubSeqEmpty, ElementOfSeq
  <2> QED BY <2>2, <2>3, ConcatEmptySeq
<1>4. Count(SubSeq(s, 1, 1), w) + Count(SubSeq(s, 2, Len(s)), w) = Count(s, w)
  <2>1. 1 \in 0..Len(s)
    BY <1>1
  <2>2. Count(SubSeq(s, 1, 1), w) + Count(SubSeq(s, 1 + 1, Len(s)), w) = Count(s, w)
    BY <2>1, CountCut
  <2>3. 1 + 1 = 2
    OBVIOUS
  <2> QED BY <2>2, <2>3
<1>5. Count(SubSeq(s, 1, 1), w) = 0
  BY <1>3, CountOne
<1>6. Count(Tail(s), w) \in Nat
  BY <1>1, CountType
<1>7. Count(s, w) = Count(Tail(s), w)
  <2>1. PICK a, b : a = Count(Tail(s), w) /\ b = Count(s, w)
    OBVIOUS
  <2>2. 0 + a = b /\ a \in Nat
    BY <1>2, <1>4, <1>5, <1>6, <2>1, Zenon
  <2>3. a = b
    BY <2>2
  <2> QED BY <2>1, <2>3
<1> QED BY <1>1, <1>7

-----------------------------------------------------------------------------
(* Packets. *)

ControlKinds == {"frame", "PING"}
Kinds == {"frame", "PING", "stream"}

\* What the packer makes of list: the frames left and the frames taken are those of the
\* list, at most a PING is taken when there is no packet, and a packet that leaves the slots
\* alone is made only when there is no STOP_WAITING frame.
IsPacket(list, stop, packet) ==
  /\ packet.packed \in BOOLEAN /\ packet.slots \in BOOLEAN
  /\ packet.resend \in BOOLEAN /\ packet.blocked \in BOOLEAN
  /\ packet.left \in Seq(ControlKinds) /\ packet.contents \in Seq(Kinds)
  /\ packet.packed => Count(packet.left, "frame") + Count(packet.contents, "frame") = Count(list, "frame")
  /\ ~packet.packed => Count(packet.left, "frame") = Count(list, "frame")
  /\ packet.packed /\ ~packet.slots => stop = 0

\* A PING at the end of the list makes the packet one that the peer acknowledges.
PingTaken(list, packet) ==
  list # <<>> /\ list[Len(list)] = "PING" => ~packet.packed \/ packet.contents # <<>>

\* Such a list is empty if the frame is absent.
LEMMA IfType ==
  ASSUME NEW S, NEW x \in S, NEW present \in BOOLEAN
  PROVE  If(present, x) \in Seq(S) /\ (If(present, x) = <<>> <=> ~present)
<1>1. CASE present
  BY <1>1 DEF If
<1>2. CASE ~present
  BY <1>2 DEF If
<1> QED BY <1>1, <1>2

\* composeNextPacket cuts the list in two.
LEMMA ComposedIsPacket ==
  ASSUME NEW list \in Seq(ControlKinds), NEW stop, NEW ack \in Nat, NEW resend \in BOOLEAN,
         NEW packet \in Composed(list, ack, resend)
  PROVE  IsPacket(list, stop, packet) /\ PingTaken(list, packet)
<1>1. PICK c \in Compositions(list, ack, resend) :
        packet = [packed |-> ack # 0 \/ c.left < Len(list) \/ c.data,
                  left |-> SubSeq(list, 1, c.left),
                  contents |-> SubSeq(list, c.left + 1, Len(list)) \o If(c.data, "stream"),
                  slots |-> TRUE,
                  resend |-> c.resend,
                  blocked |-> c.blocked]
  BY DEF Composed
<1>2. /\ c.left \in 0..Len(list) /\ c.data \in BOOLEAN /\ c.resend \in BOOLEAN /\ c.blocked \in BOOLEAN
      /\ c.left = Len(list) /\ list # <<>> => ack # 0 /\ list[Len(list)] # "PING"
  BY <1>1 DEF Compositions
<1>3. PICK n, data, left, taken, more :
        /\ n = c.left /\ data = c.data
        /\ left = SubSeq(list, 1, c.left) /\ taken = SubSeq(list, c.left + 1, Len(list))
        /\ more = If(c.data, "stream")
  OBVIOUS
<1>4. /\ left \in Seq(ControlKinds) /\ taken \in Seq(ControlKinds)
      /\ Count(left, "frame") + Count(taken, "frame") = Count(list, "frame")
      /\ n < Len(list) => taken # <<>>
      /\ n = Len(list) => left = list /\ taken = <<>>
  <2>1. n \in 0..Len(list)
    BY <1>2, <1>3, Zenon
  <2>2. left = SubSeq(list, 1, n) /\ taken = SubSeq(list, n + 1, Len(list))
    BY <1>3, Zenon
  <2>3. /\ SubSeq(list, 1, n) \in Seq(ControlKinds) /\ SubSeq(list, n + 1, Len(list)) \in Seq(ControlKinds)
        /\ Count(SubSeq(list, 1, n), "frame") + Count(SubSeq(list, n + 1, Len(list)), "frame")
             = Count(list, "frame")
        /\ n < Len(list) => SubSeq(list, n + 1, Len(list)) # <<>>
        /\ n = Len(list) => SubSeq(list, 1, n) = list /\ SubSeq(list, n + 1, Len(list)) = <<>>
    BY <2>1, CountCut
  <2> QED BY <2>2, <2>3, Zenon
<1>5. more \in Seq(Kinds) /\ (more = <<>> <=> ~data) /\ Count(more, "frame") = 0
  <2>1. "stream" \in Kinds /\ "stream" # "frame"
    BY DEF Kinds
  <2> QED BY <1>2, <1>3, <2>1, IfType, CountIf
<1>6. taken \in Seq(Kinds)
  BY <1>4, SeqMonotonic DEF ControlKinds, Kinds
<1>7. /\ taken \o more \in Seq(Kinds)
      /\ Count(taken \o more, "frame") = Count(taken, "frame") + Count(more, "frame")
      /\ taken # <<>> => taken \o more # <<>>
  BY <1>5, <1>6, CountConcat, ConcatProperties, ConcatEqualIffEmpty
<1>8. /\ packet.left = left /\ packet.contents = taken \o more /\ packet.slots = TRUE
      /\ packet.resend = c.resend /\ packet.blocked = c.blocked
      /\ packet.packed = (ack # 0 \/ n < Len(list) \/ data)
  BY <1>1, <1>3
<1>9. /\ Count(left, "frame") \in Nat /\ Count(taken, "frame") \in Nat /\ Count(more, "frame") \in Nat
      /\ Count(list, "frame") \in Nat
  BY <1>4, <1>5, CountType
<1>10. Count(left, "frame") + Count(taken \o more, "frame") = Count(list, "frame")
  BY <1>4, <1>5, <1>7, <1>9
<1>11. ~packet.packed => left = list
  <2> SUFFICES ASSUME ~packet.packed PROVE left = list
    OBVIOUS
  <2>1. ~(n < Len(list))
    BY <1>8, Zenon
  <2>2. n \in 0..Len(list) /\ Len(list) \in Nat
    BY <1>2, <1>3, LenProperties, Zenon
  <2>3. n = Len(list)
    BY <2>1, <2>2
  <2> QED BY <1>4, <2>3
<1>12. list # <<>> /\ list[Len(list)] = "PING" => packet.contents # <<>>
  <2>1. list # <<>> /\ list[Len(list)] = "PING" => n < Len(list)
    BY <1>2, <1>3
  <2> QED BY <1>4, <1>7, <1>8, <2>1
<1> QED BY <1>2, <1>4, <1>7, <1>8, <1>10, <1>11, <1>12 DEF IsPacket, PingTaken

\* A PING alone is no control frame that counts.
LEMMA PingAloneIsPacket ==
  ASSUME NEW list \in Seq(ControlKinds), list # <<>>, list[1] = "PING", NEW stop \in Nat,
         NEW resend \in BOOLEAN, NEW packet \in PingAlone(list, stop, resend)
  PROVE  IsPacket(list, stop, packet) /\ PingTaken(list, packet)
<1>1. /\ packet.packed = (stop = 0) /\ packet.left = Tail(list) /\ packet.contents = <<"PING">>
      /\ packet.slots = FALSE /\ packet.resend = resend /\ packet.blocked = FALSE
  BY DEF PingAlone
<1>2. Tail(list) \in Seq(ControlKinds) /\ Count(Tail(list), "frame") = Count(list, "frame")
  <2>1. list[1] # "frame"
    OBVIOUS
  <2> QED BY <2>1, CountTail
<1>3. Count(<<"PING">>, "frame") = 0 /\ <<"PING">> \in Seq(Kinds) /\ <<"PING">> # <<>>
  BY CountOne DEF Kinds
<1>4. Count(list, "frame") \in Nat
  BY CountType
<1>5. packet.packed \in BOOLEAN /\ (packet.packed => stop = 0)
  BY <1>1, Zenon
<1>6. /\ packet.left \in Seq(ControlKinds) /\ packet.contents \in Seq(Kinds) /\ packet.contents # <<>>
      /\ packet.slots \in BOOLEAN /\ packet.resend \in BOOLEAN /\ packet.blocked \in BOOLEAN
  BY <1>1, <1>2, <1>3
<1>7. Count(packet.left, "frame") = Count(list, "frame") /\ Count(packet.contents, "frame") = 0
  BY <1>1, <1>2, <1>3
<1>8. Count(packet.left, "frame") + Count(packet.contents, "frame") = Count(list, "frame")
  BY <1>4, <1>7
<1> QED BY <1>5, <1>6, <1>7, <1>8 DEF IsPacket, PingTaken

\* Whatever PackPacket returns.
LEMMA PackPacketIsPacket ==
  ASSUME NEW list \in Seq(ControlKinds), NEW stop \in Nat, NEW ack \in Nat, NEW resend \in BOOLEAN,
         NEW packet \in PackPacket(list, stop, ack, resend)
  PROVE  IsPacket(list, stop, packet) /\ PingTaken(list, packet)
<1>1. CASE list # <<>> /\ list[1] = "PING"
  BY <1>1, PingAloneIsPacket DEF PackPacket
<1>2. CASE ~(list # <<>> /\ list[1] = "PING")
  BY <1>2, ComposedIsPacket DEF PackPacket
<1> QED BY <1>1, <1>2

\* PackAckPacket leaves the list alone; it does not answer a due PING.
LEMMA PackAckPacketFacts ==
  ASSUME NEW list \in Seq(ControlKinds), streamRetransmission \in BOOLEAN
  PROVE  LET packet == PackAckPacket(list) IN
         /\ packet.packed = TRUE /\ packet.slots = TRUE /\ packet.blocked = FALSE
         /\ packet.resend \in BOOLEAN
         /\ packet.left = list /\ packet.contents = <<>>
BY DEF PackAckPacket

-----------------------------------------------------------------------------
(* The inductive invariant. *)

LoopTyping ==
  /\ phase \in {"select", "send", "ping", "rest", "error", "crashed"}
  /\ rest \subseteq Paths
  /\ phase = "ping" => fromPth \in Paths
  /\ windowUpdateFrames \in BOOLEAN

PackerTyping ==
  /\ controlFrames \in Seq(ControlKinds) /\ streamRetransmission \in BOOLEAN
  /\ ackFrame \in [Paths -> Nat] /\ stopWaiting \in [Paths -> Nat]
  /\ numNonRetransmittablePackets \in [Paths -> 0..(MaxNonRetransmittablePackets + 1)]
  /\ unsent \in Nat /\ ackSent \in [Paths -> Nat] /\ stopSent \in [Paths -> Nat]

HandlerTyping ==
  /\ potentiallyFailed \in [Paths -> BOOLEAN] /\ ackDue \in [Paths -> BOOLEAN]
  /\ ackBuilt \in [Paths -> Nat] /\ nextLeastUnacked \in [Paths -> Nat]
  /\ largestLeastUnackedSent \in [Paths -> Nat]

\* A STOP_WAITING frame in the slot is the last one taken; without one the last one taken
\* was sent.
StopWaitingInOrder ==
  \A p \in Paths :
    /\ stopSent[p] <= largestLeastUnackedSent[p]
    /\ largestLeastUnackedSent[p] <= nextLeastUnacked[p]
    /\ stopWaiting[p] # 0 => stopWaiting[p] = largestLeastUnackedSent[p]
    /\ stopWaiting[p] = 0 => stopSent[p] = largestLeastUnackedSent[p]

\* An ACK frame in the slot is newer than the last one sent; no frame was sent that was
\* not built.
AckFrameInOrder ==
  \A p \in Paths :
    /\ ackSent[p] <= ackBuilt[p]
    /\ ackFrame[p] # 0 => ackFrame[p] = ackBuilt[p] /\ ackFrame[p] > ackSent[p]

IInv ==
  /\ LoopTyping /\ PackerTyping /\ HandlerTyping
  /\ ControlFramesConserved /\ StopWaitingInOrder /\ AckFrameInOrder

\* The smaller of two.
LEMMA MinPair ==
  ASSUME NEW a \in Int, NEW b \in Int
  PROVE  Min({a, b}) = IF a <= b THEN a ELSE b
<1>1. \E x \in {a, b} : \A y \in {a, b} : x =< y
  OBVIOUS
<1> QED BY <1>1 DEF Min

\* The larger of two.
LEMMA MaxPair ==
  ASSUME NEW a \in Int, NEW b \in Int
  PROVE  Max({a, b}) = IF a <= b THEN b ELSE a
<1>1. \E x \in {a, b} : \A y \in {a, b} : x >= y
  OBVIOUS
<1> QED BY <1>1 DEF Max

\* A list of at most one control frame.
LEMMA FrameIf ==
  ASSUME NEW present \in BOOLEAN
  PROVE  /\ If(present, "frame") \in Seq(ControlKinds)
         /\ Len(If(present, "frame")) = Count(If(present, "frame"), "frame")
<1>1. Len(If(present, "frame")) = IF present THEN 1 ELSE 0
  BY DEF If
<1>2. Count(If(present, "frame"), "frame") = IF present THEN 1 ELSE 0
  BY CountIf
<1>3. If(present, "frame") \in Seq(ControlKinds)
  BY IfType DEF ControlKinds
<1> QED BY <1>1, <1>2, <1>3

\* What the invariant makes of the three conjuncts for users.
LEMMA IInvImplies ==
  ASSUME IInv
  PROVE  ControlFramesConserved /\ StopWaitingKept /\ AckFrameFresh
<1>1. StopWaitingKept
  <2> SUFFICES ASSUME NEW p \in Paths
               PROVE  Max({stopWaiting[p], stopSent[p]}) = largestLeastUnackedSent[p]
    BY DEF StopWaitingKept
  <2>1. /\ stopWaiting[p] \in Nat /\ stopSent[p] \in Nat /\ largestLeastUnackedSent[p] \in Nat
        /\ stopSent[p] <= largestLeastUnackedSent[p]
        /\ stopWaiting[p] # 0 => stopWaiting[p] = largestLeastUnackedSent[p]
        /\ stopWaiting[p] = 0 => stopSent[p] = largestLeastUnackedSent[p]
    BY DEF IInv, PackerTyping, HandlerTyping, StopWaitingInOrder
  <2>2. Max({stopWaiting[p], stopSent[p]})
          = IF stopWaiting[p] <= stopSent[p] THEN stopSent[p] ELSE stopWaiting[p]
    BY <2>1, MaxPair
  <2> QED BY <2>1, <2>2
<1>2. AckFrameFresh
  BY DEF IInv, AckFrameInOrder, AckFrameFresh
<1> QED BY <1>1, <1>2 DEF IInv

-----------------------------------------------------------------------------
(* Sending a packet. *)

\* The packet's control frames are taken off the count as they are off the list.
LEMMA SendConserves ==
  ASSUME PackerTyping, ControlFramesConserved,
         NEW p \in Paths, NEW list \in Seq(ControlKinds), NEW stop \in Nat, NEW ack \in Nat,
         NEW packet, NEW extra \in Seq(ControlKinds),
         IsPacket(list, stop, packet), Send(p, list, stop, ack, packet, extra)
  PROVE  /\ controlFrames' \in Seq(ControlKinds)
         /\ unsent' \in Nat /\ unsent' = Count(controlFrames', "frame")
<1>1. PICK behind : behind = If(packet.blocked, "frame") \o extra
  OBVIOUS
<1>2. behind \in Seq(ControlKinds)
  <2>1. "frame" \in ControlKinds /\ packet.blocked \in BOOLEAN
    BY DEF ControlKinds, IsPacket
  <2>2. If(packet.blocked, "frame") \in Seq(ControlKinds)
    BY <2>1, IfType
  <2> QED BY <1>1, <2>2
<1>3. PICK l, b, c, k, m :
        /\ l = Count(packet.left, "frame") /\ b = Count(behind, "frame")
        /\ c = Count(packet.contents, "frame") /\ k = Count(list, "frame")
        /\ m = Count(packet.left \o behind, "frame")
  OBVIOUS
<1>4. /\ packet.left \in Seq(ControlKinds) /\ packet.contents \in Seq(Kinds)
      /\ packet.packed => l + c = k
      /\ ~packet.packed => l = k
  BY <1>3 DEF IsPacket
<1>5. l \in Nat /\ b \in Nat /\ c \in Nat /\ k \in Nat /\ m = l + b
  <2>1. /\ Count(packet.left, "frame") \in Nat /\ Count(packet.contents, "frame") \in Nat
        /\ Count(behind, "frame") \in Nat /\ Count(list, "frame") \in Nat
    BY <1>2, <1>4, CountType
  <2>2. Count(packet.left \o behind, "frame") = Count(packet.left, "frame") + Count(behind, "frame")
    BY <1>2, <1>4, CountConcat
  <2> QED BY <1>3, <2>1, <2>2
<1>6. controlFrames' = packet.left \o behind /\ controlFrames' \in Seq(ControlKinds)
  BY <1>1, <1>2, <1>4 DEF Send
<1>7. unsent' = unsent + k - unsent + b - (IF packet.packed THEN c ELSE 0)
  BY <1>1, <1>3 DEF Send, ControlFramesConserved
<1>8. unsent \in Nat
  BY DEF PackerTyping
<1>9. unsent' = m /\ m \in Nat
  <2>1. CASE packet.packed
    <3>1. unsent' = unsent + k - unsent + b - c
      BY <1>7, <2>1
    <3> QED BY <1>4, <1>5, <1>8, <2>1, <3>1
  <2>2. CASE ~packet.packed
    <3>1. unsent' = unsent + k - unsent + b - 0
      BY <1>7, <2>2
    <3> QED BY <1>4, <1>5, <1>8, <2>2, <3>1
  <2> QED BY <2>1, <2>2
<1> QED BY <1>3, <1>6, <1>9

\* The slots and what was sent from them, when stop and ack are the slots' contents as the
\* packet was made: m is the last STOP_WAITING frame taken by then and b the last ACK
\* frame built.
LEMMA SendKeepsSlots ==
  ASSUME PackerTyping, HandlerTyping, StopWaitingInOrder, AckFrameInOrder,
         NEW p \in Paths, NEW list \in Seq(ControlKinds), NEW stop \in Nat, NEW ack \in Nat,
         NEW packet, NEW extra, NEW m \in Nat, NEW b \in Nat,
         IsPacket(list, stop, packet), Send(p, list, stop, ack, packet, extra),
         largestLeastUnackedSent' = [largestLeastUnackedSent EXCEPT ![p] = m],
         ackBuilt' = [ackBuilt EXCEPT ![p] = b], nextLeastUnacked' = nextLeastUnacked,
         largestLeastUnackedSent[p] <= m, m <= nextLeastUnacked[p],
         stop # 0 => stop = m,
         stop = 0 => stopWaiting[p] = 0 /\ m = largestLeastUnackedSent[p],
         ackBuilt[p] <= b, ack # 0 => ack = b /\ ack > ackSent[p]
  PROVE  /\ ackFrame' \in [Paths -> Nat] /\ stopWaiting' \in [Paths -> Nat]
         /\ ackSent' \in [Paths -> Nat] /\ stopSent' \in [Paths -> Nat]
         /\ StopWaitingInOrder' /\ AckFrameInOrder'
<1>1. /\ stopSent[p] <= largestLeastUnackedSent[p] /\ largestLeastUnackedSent[p] <= nextLeastUnacked[p]
      /\ stopWaiting[p] # 0 => stopWaiting[p] = largestLeastUnackedSent[p]
      /\ stopWaiting[p] = 0 => stopSent[p] = largestLeastUnackedSent[p]
      /\ ackSent[p] <= ackBuilt[p]
  BY DEF StopWaitingInOrder, AckFrameInOrder
<1>2. /\ stopSent[p] \in Nat /\ largestLeastUnackedSent[p] \in Nat /\ nextLeastUnacked[p] \in Nat
      /\ ackSent[p] \in Nat /\ ackBuilt[p] \in Nat
  BY DEF PackerTyping, HandlerTyping
<1>3. PICK x, y, u, v \in Nat :
        /\ ackFrame' = [ackFrame EXCEPT ![p] = x] /\ stopWaiting' = [stopWaiting EXCEPT ![p] = y]
        /\ ackSent' = [ackSent EXCEPT ![p] = u] /\ stopSent' = [stopSent EXCEPT ![p] = v]
        /\ v <= m /\ (y # 0 => y = m) /\ (y = 0 => v = m)
        /\ u <= b /\ (x # 0 => x = b /\ x > u)
  <2>1. CASE packet.packed
    <3>1. /\ ackFrame' = [ackFrame EXCEPT ![p] = 0] /\ stopWaiting' = [stopWaiting EXCEPT ![p] = 0]
          /\ ackSent' = [ackSent EXCEPT ![p] = IF packet.slots /\ ack # 0 THEN ack ELSE @]
          /\ stopSent' = [stopSent EXCEPT ![p] = IF packet.slots /\ stop # 0 THEN stop ELSE @]
      BY <2>1 DEF Send
    <3>2. PICK u, v :
            /\ u = IF packet.slots /\ ack # 0 THEN ack ELSE ackSent[p]
            /\ v = IF packet.slots /\ stop # 0 THEN stop ELSE stopSent[p]
      OBVIOUS
    <3>3. ackSent' = [ackSent EXCEPT ![p] = u] /\ stopSent' = [stopSent EXCEPT ![p] = v]
      BY <3>1, <3>2
    <3>4. u \in Nat /\ u <= b
      BY <1>1, <1>2, <3>2
    <3>5. ~packet.slots => stop = 0
      BY <2>1 DEF IsPacket
    <3>6. v \in Nat /\ v = m
      BY <1>1, <1>2, <3>2, <3>5
    <3>7. 0 \in Nat /\ v <= m
      BY <3>6
    <3> QED BY <3>1, <3>3, <3>4, <3>6, <3>7, Zenon
  <2>2. CASE ~packet.packed
    <3>1. /\ ackFrame' = [ackFrame EXCEPT ![p] = ack] /\ stopWaiting' = [stopWaiting EXCEPT ![p] = stop]
          /\ ackSent' = ackSent /\ stopSent' = stopSent
      BY <2>2 DEF Send
    <3>2. ackSent' = [ackSent EXCEPT ![p] = ackSent[p]] /\ stopSent' = [stopSent EXCEPT ![p] = stopSent[p]]
      BY <3>1 DEF PackerTyping
    <3>3. stopSent[p] <= m /\ ackSent[p] <= b /\ (stop = 0 => stopSent[p] = m)
      BY <1>1, <1>2
    <3> QED BY <1>2, <3>1, <3>2, <3>3
  <2> QED BY <2>1, <2>2
<1>4. /\ ackFrame' \in [Paths -> Nat] /\ stopWaiting' \in [Paths -> Nat]
      /\ ackSent' \in [Paths -> Nat] /\ stopSent' \in [Paths -> Nat]
  BY <1>3 DEF PackerTyping
<1>5. /\ ackFrame'[p] = x /\ stopWaiting'[p] = y /\ ackSent'[p] = u /\ stopSent'[p] = v
      /\ largestLeastUnackedSent'[p] = m /\ ackBuilt'[p] = b
  BY <1>3 DEF PackerTyping, HandlerTyping
<1>6. \A q \in Paths \ {p} :
        /\ ackFrame'[q] = ackFrame[q] /\ stopWaiting'[q] = stopWaiting[q]
        /\ ackSent'[q] = ackSent[q] /\ stopSent'[q] = stopSent[q]
        /\ largestLeastUnackedSent'[q] = largestLeastUnackedSent[q] /\ ackBuilt'[q] = ackBuilt[q]
  BY <1>3 DEF PackerTyping, HandlerTyping
<1>7. StopWaitingInOrder'
  <2> SUFFICES ASSUME NEW q \in Paths
               PROVE  /\ stopSent'[q] <= largestLeastUnackedSent'[q]
                      /\ largestLeastUnackedSent'[q] <= nextLeastUnacked'[q]
                      /\ stopWaiting'[q] # 0 => stopWaiting'[q] = largestLeastUnackedSent'[q]
                      /\ stopWaiting'[q] = 0 => stopSent'[q] = largestLeastUnackedSent'[q]
    BY DEF StopWaitingInOrder
  <2>1. CASE q = p
    BY <1>3, <1>5, <2>1
  <2>2. CASE q # p
    BY <1>6, <2>2 DEF StopWaitingInOrder
  <2> QED BY <2>1, <2>2
<1>8. AckFrameInOrder'
  <2> SUFFICES ASSUME NEW q \in Paths
               PROVE  /\ ackSent'[q] <= ackBuilt'[q]
                      /\ ackFrame'[q] # 0 => ackFrame'[q] = ackBuilt'[q] /\ ackFrame'[q] > ackSent'[q]
    BY DEF AckFrameInOrder
  <2>1. CASE q = p
    BY <1>3, <1>5, <2>1
  <2>2. CASE q # p
    BY <1>6, <2>2 DEF AckFrameInOrder
  <2> QED BY <2>1, <2>2
<1> QED BY <1>4, <1>7, <1>8

\* The count of packets in a row that the peer would not acknowledge.
LEMMA SendCounts ==
  ASSUME PackerTyping, NEW p \in Paths, NEW list, NEW stop, NEW ack, NEW packet, NEW extra,
         Send(p, list, stop, ack, packet, extra)
  PROVE  /\ numNonRetransmittablePackets' \in [Paths -> 0..(MaxNonRetransmittablePackets + 1)]
         /\ \A q \in Paths \ {p} : numNonRetransmittablePackets'[q] = numNonRetransmittablePackets[q]
         /\ ~packet.packed \/ packet.contents # <<>>
              => numNonRetransmittablePackets'[p] \in {0, numNonRetransmittablePackets[p]}
<1> DEFINE num == numNonRetransmittablePackets
<1>1. MaxNonRetransmittablePackets \in Nat /\ num[p] \in 0..(MaxNonRetransmittablePackets + 1)
  BY PathsAssumption DEF PackerTyping
<1>2. PICK n \in 0..(MaxNonRetransmittablePackets + 1) :
        /\ num' = [num EXCEPT ![p] = n]
        /\ ~packet.packed \/ packet.contents # <<>> => n \in {0, num[p]}
  <2>1. CASE packet.packed
    <3>1. num' = [num EXCEPT ![p] = IF packet.contents # <<>> THEN 0
                                    ELSE Min({@, MaxNonRetransmittablePackets}) + 1]
      BY <2>1 DEF Send
    <3>2. Min({num[p], MaxNonRetransmittablePackets})
            = IF num[p] <= MaxNonRetransmittablePackets THEN num[p] ELSE MaxNonRetransmittablePackets
      BY <1>1, MinPair
    <3>3. Min({num[p], MaxNonRetransmittablePackets}) + 1 \in 0..(MaxNonRetransmittablePackets + 1)
      BY <1>1, <3>2
    <3>4. PICK n : n = IF packet.contents # <<>> THEN 0
                       ELSE Min({num[p], MaxNonRetransmittablePackets}) + 1
      OBVIOUS
    <3>5. n \in 0..(MaxNonRetransmittablePackets + 1) /\ (packet.contents # <<>> => n = 0)
      BY <1>1, <3>3, <3>4
    <3>6. num' = [num EXCEPT ![p] = n]
      BY <3>1, <3>4
    <3> QED BY <2>1, <3>5, <3>6
  <2>2. CASE ~packet.packed
    <3>1. num' = num
      BY <2>2 DEF Send
    <3>2. num' = [num EXCEPT ![p] = num[p]]
      BY <3>1 DEF PackerTyping
    <3> QED BY <1>1, <3>2
  <2> QED BY <2>1, <2>2
<1> QED BY <1>2 DEF PackerTyping

\* A packet sent keeps the packer's part of the invariant.
LEMMA SendKeeps ==
  ASSUME PackerTyping, HandlerTyping, ControlFramesConserved, StopWaitingInOrder, AckFrameInOrder,
         NEW p \in Paths, NEW list \in Seq(ControlKinds), NEW stop \in Nat, NEW ack \in Nat,
         NEW packet, NEW extra \in Seq(ControlKinds), NEW m \in Nat, NEW b \in Nat,
         IsPacket(list, stop, packet), Send(p, list, stop, ack, packet, extra),
         largestLeastUnackedSent' = [largestLeastUnackedSent EXCEPT ![p] = m],
         ackBuilt' = [ackBuilt EXCEPT ![p] = b], nextLeastUnacked' = nextLeastUnacked,
         largestLeastUnackedSent[p] <= m, m <= nextLeastUnacked[p],
         stop # 0 => stop = m,
         stop = 0 => stopWaiting[p] = 0 /\ m = largestLeastUnackedSent[p],
         ackBuilt[p] <= b, ack # 0 => ack = b /\ ack > ackSent[p]
  PROVE  PackerTyping' /\ ControlFramesConserved' /\ StopWaitingInOrder' /\ AckFrameInOrder'
<1>1. controlFrames' \in Seq(ControlKinds) /\ unsent' \in Nat /\ unsent' = Count(controlFrames', "frame")
  BY SendConserves
<1>2. /\ ackFrame' \in [Paths -> Nat] /\ stopWaiting' \in [Paths -> Nat]
      /\ ackSent' \in [Paths -> Nat] /\ stopSent' \in [Paths -> Nat]
      /\ StopWaitingInOrder' /\ AckFrameInOrder'
  BY SendKeepsSlots
<1>3. numNonRetransmittablePackets' \in [Paths -> 0..(MaxNonRetransmittablePackets + 1)]
  BY SendCounts
<1>4. streamRetransmission' \in BOOLEAN
  BY DEF Send, IsPacket
<1> QED BY <1>1, <1>2, <1>3, <1>4 DEF PackerTyping, ControlFramesConserved

-----------------------------------------------------------------------------
(* Taking frames from the handlers. *)

\* GetAckFrame: the frame in the slot afterwards, if any, is the last one built and newer
\* than any sent.
LEMMA AckTaken ==
  ASSUME PackerTyping, HandlerTyping, AckFrameInOrder, NEW p \in Paths, NEW ack \in AckFrames(p),
         TakeAckFrame(p, ack)
  PROVE  /\ ack \in Nat /\ Slot(ackFrame[p], ack) \in Nat
         /\ ackDue' \in [Paths -> BOOLEAN] /\ ackBuilt' \in [Paths -> Nat]
         /\ \E b \in Nat :
              /\ ackBuilt' = [ackBuilt EXCEPT ![p] = b] /\ ackBuilt[p] <= b
              /\ ack # 0 => ack = b /\ ack > ackSent[p]
              /\ Slot(ackFrame[p], ack) # 0
                   => Slot(ackFrame[p], ack) = b /\ Slot(ackFrame[p], ack) > ackSent[p]
<1>1. /\ ackBuilt[p] \in Nat /\ ackSent[p] \in Nat /\ ackFrame[p] \in Nat /\ ackSent[p] <= ackBuilt[p]
      /\ ackFrame[p] # 0 => ackFrame[p] = ackBuilt[p] /\ ackFrame[p] > ackSent[p]
  BY DEF PackerTyping, HandlerTyping, AckFrameInOrder
<1>2. ack = 0 \/ ack = ackBuilt[p] + 1
  <2>1. CASE ackDue[p]
    BY <2>1 DEF AckFrames
  <2>2. CASE ~ackDue[p]
    BY <2>2 DEF AckFrames
  <2> QED BY <2>1, <2>2
<1>3. PICK b, slot : /\ b = IF ack = 0 THEN ackBuilt[p] ELSE ack
                     /\ slot = Slot(ackFrame[p], ack)
  OBVIOUS
<1>4. /\ ack \in Nat /\ b \in Nat /\ slot \in Nat /\ ackBuilt[p] <= b
      /\ ack # 0 => ack = b /\ ack > ackSent[p]
      /\ slot # 0 => slot = b /\ slot > ackSent[p]
  BY <1>1, <1>2, <1>3 DEF Slot
<1>5. ackBuilt' = [ackBuilt EXCEPT ![p] = b]
  BY <1>3 DEF TakeAckFrame
<1>6. ackBuilt' \in [Paths -> Nat]
  BY <1>4, <1>5 DEF HandlerTyping
<1>7. ackDue' \in [Paths -> BOOLEAN]
  <2>1. (ackDue[p] /\ ack = 0) \in BOOLEAN
    OBVIOUS
  <2> QED BY <2>1 DEF TakeAckFrame, HandlerTyping
<1> QED BY <1>3, <1>4, <1>5, <1>6, <1>7

\* A STOP_WAITING frame, or none.
LEMMA StopFrameType ==
  ASSUME HandlerTyping, NEW p \in Paths, NEW force \in BOOLEAN
  PROVE  StopWaitingFrame(p, force) \in {0, nextLeastUnacked[p]}
BY DEF StopWaitingFrame

\* GetStopWaitingFrame: the frame in the slot afterwards is the last one taken.
LEMMA StopTaken ==
  ASSUME PackerTyping, HandlerTyping, StopWaitingInOrder, NEW p \in Paths,
         NEW frame \in {0, nextLeastUnacked[p]}, NEW taken \in {frame, Slot(stopWaiting[p], frame)},
         TakeStopWaitingFrame(p, taken)
  PROVE  /\ Slot(stopWaiting[p], frame) \in Nat
         /\ largestLeastUnackedSent' \in [Paths -> Nat]
         /\ \E m \in Nat :
              /\ largestLeastUnackedSent' = [largestLeastUnackedSent EXCEPT ![p] = m]
              /\ largestLeastUnackedSent[p] <= m /\ m <= nextLeastUnacked[p]
              /\ Slot(stopWaiting[p], frame) # 0 => Slot(stopWaiting[p], frame) = m
              /\ Slot(stopWaiting[p], frame) = 0
                   => stopWaiting[p] = 0 /\ m = largestLeastUnackedSent[p]
<1>1. /\ stopWaiting[p] \in Nat /\ largestLeastUnackedSent[p] \in Nat /\ nextLeastUnacked[p] \in Nat
      /\ largestLeastUnackedSent[p] <= nextLeastUnacked[p]
      /\ stopWaiting[p] # 0 => stopWaiting[p] = largestLeastUnackedSent[p]
  BY DEF PackerTyping, HandlerTyping, StopWaitingInOrder
<1>2. PICK m, slot : /\ m = IF taken = 0 THEN largestLeastUnackedSent[p] ELSE taken
                     /\ slot = Slot(stopWaiting[p], frame)
  OBVIOUS
<1>3. /\ m \in Nat /\ slot \in Nat
      /\ largestLeastUnackedSent[p] <= m /\ m <= nextLeastUnacked[p]
      /\ slot # 0 => slot = m
      /\ slot = 0 => stopWaiting[p] = 0 /\ m = largestLeastUnackedSent[p]
  BY <1>1, <1>2 DEF Slot
<1>4. largestLeastUnackedSent' = [largestLeastUnackedSent EXCEPT ![p] = m]
  BY <1>2 DEF TakeStopWaitingFrame
<1>5. largestLeastUnackedSent' \in [Paths -> Nat]
  BY <1>3, <1>4 DEF HandlerTyping
<1> QED BY <1>2, <1>3, <1>4, <1>5

-----------------------------------------------------------------------------
(* The steps. *)

\* The lists getRetransmission leaves.
LEMMA RetransmissionType ==
  ASSUME NEW r \in Retransmissions
  PROVE  r.list \in Seq(ControlKinds) /\ r.stream \in BOOLEAN /\ r.from \in Paths \cup {NoPath}
<1>1. /\ r.list \in {<<>>, <<"frame">>, <<"PING">>, <<"frame", "PING">>, <<"PING", "frame">>}
      /\ r.stream \in BOOLEAN /\ r.from \in Paths \cup {NoPath}
  BY DEF Retransmissions
<1>2. /\ <<>> \in Seq(ControlKinds) /\ <<"frame">> \in Seq(ControlKinds) /\ <<"PING">> \in Seq(ControlKinds)
      /\ <<"frame", "PING">> \in Seq(ControlKinds) /\ <<"PING", "frame">> \in Seq(ControlKinds)
  BY DEF ControlKinds
<1> QED BY <1>1, <1>2

\* A PING that is due is the last of the list.
LEMMA PingLast ==
  ASSUME NEW front \in Seq(ControlKinds), NEW p \in Paths
  PROVE  LET list == front \o PingIfDue(p) IN
         /\ list \in Seq(ControlKinds)
         /\ numNonRetransmittablePackets[p] >= MaxNonRetransmittablePackets
              => list # <<>> /\ list[Len(list)] = "PING"
<1>1. CASE numNonRetransmittablePackets[p] >= MaxNonRetransmittablePackets
  <2>1. PingIfDue(p) = <<"PING">>
    BY <1>1 DEF PingIfDue, If
  <2>2. <<"PING">> \in Seq(ControlKinds)
    BY DEF ControlKinds
  <2>3. /\ front \o <<"PING">> \in Seq(ControlKinds)
        /\ Len(front \o <<"PING">>) = Len(front) + 1
        /\ (front \o <<"PING">>)[Len(front) + 1] = "PING"
    BY <2>2
  <2>4. front \o <<"PING">> # <<>>
    BY <2>2
  <2> QED BY <2>1, <2>3, <2>4
<1>2. CASE ~(numNonRetransmittablePackets[p] >= MaxNonRetransmittablePackets)
  <2>1. PingIfDue(p) = <<>>
    BY <1>2 DEF PingIfDue, If
  <2>2. front \o <<>> \in Seq(ControlKinds)
    OBVIOUS
  <2> QED BY <1>2, <2>1, <2>2
<1> QED BY <1>1, <1>2

\* One round of the loop on a path, as a packet sent: a PING that is due makes it one
\* that the peer acknowledges.
LEMMA SendOnPathSends ==
  ASSUME IInv, NEW p \in Paths, SendOnPath(p)
  PROVE  /\ LoopTyping' /\ UNCHANGED <<potentiallyFailed, nextLeastUnacked>>
         /\ \E ack \in AckFrames(p), frame \in {0, nextLeastUnacked[p]}, list \in Seq(ControlKinds),
               extra \in Seq(ControlKinds) : \E packet :
              /\ TakeAckFrame(p, ack)
              /\ TakeStopWaitingFrame(p, Slot(stopWaiting[p], frame))
              /\ IsPacket(list, Slot(stopWaiting[p], frame), packet)
              /\ Send(p, list, Slot(stopWaiting[p], frame), Slot(ackFrame[p], ack), packet, extra)
              /\ numNonRetransmittablePackets[p] >= MaxNonRetransmittablePackets
                   => ~packet.packed \/ packet.contents # <<>>
<1>1. PICK r \in Retransmissions, ack \in AckFrames(p), framed \in BOOLEAN :
        LET hasStreamRetransmission == streamRetransmission \/ r.stream
            stop == Slot(stopWaiting[p], IF ack # 0 \/ hasStreamRetransmission
                                         THEN StopWaitingFrame(p, hasStreamRetransmission) ELSE 0)
            list == controlFrames \o r.list \o If(framed, "frame") \o PingIfDue(p)
        IN /\ TakeAckFrame(p, ack)
           /\ TakeStopWaitingFrame(p, stop)
           /\ \E packet \in PackPacket(list, stop, Slot(ackFrame[p], ack), hasStreamRetransmission) :
                /\ Send(p, list, stop, Slot(ackFrame[p], ack), packet,
                        If(packet.packed /\ windowUpdateFrames, "frame"))
                /\ IF packet.packed
                   THEN /\ windowUpdateFrames' = FALSE
                        /\ rest' = {}
                        /\ IF r.from # NoPath /\ potentiallyFailed[r.from]
                           THEN phase' = "ping" /\ fromPth' = r.from
                           ELSE phase' = "send" /\ fromPth' = NoPath
                   ELSE AckRemainingPaths
  BY DEF SendOnPath
<1>2. PICK resend, frame, list :
        /\ resend = (streamRetransmission \/ r.stream)
        /\ frame = IF ack # 0 \/ resend THEN StopWaitingFrame(p, resend) ELSE 0
        /\ list = controlFrames \o r.list \o If(framed, "frame") \o PingIfDue(p)
  OBVIOUS
<1>3. PICK packet \in PackPacket(list, Slot(stopWaiting[p], frame), Slot(ackFrame[p], ack), resend) :
        /\ TakeAckFrame(p, ack)
        /\ TakeStopWaitingFrame(p, Slot(stopWaiting[p], frame))
        /\ Send(p, list, Slot(stopWaiting[p], frame), Slot(ackFrame[p], ack), packet,
                If(packet.packed /\ windowUpdateFrames, "frame"))
        /\ IF packet.packed
           THEN /\ windowUpdateFrames' = FALSE
                /\ rest' = {}
                /\ IF r.from # NoPath /\ potentiallyFailed[r.from]
                   THEN phase' = "ping" /\ fromPth' = r.from
                   ELSE phase' = "send" /\ fromPth' = NoPath
           ELSE AckRemainingPaths
  BY <1>1, <1>2, Zenon
<1>4. r.list \in Seq(ControlKinds) /\ r.stream \in BOOLEAN /\ r.from \in Paths \cup {NoPath}
  BY RetransmissionType
<1>5. resend \in BOOLEAN
  BY <1>2, <1>4 DEF IInv, PackerTyping
<1>6. frame \in {0, nextLeastUnacked[p]}
  BY <1>2, <1>5, StopFrameType DEF IInv
<1>7. /\ list \in Seq(ControlKinds)
      /\ numNonRetransmittablePackets[p] >= MaxNonRetransmittablePackets
           => list # <<>> /\ list[Len(list)] = "PING"
  <2>1. "frame" \in ControlKinds
    BY DEF ControlKinds
  <2>2. If(framed, "frame") \in Seq(ControlKinds)
    BY <2>1, IfType
  <2>3. controlFrames \o r.list \o If(framed, "frame") \in Seq(ControlKinds)
    BY <1>4, <2>2, ConcatProperties DEF IInv, PackerTyping
  <2> QED BY <1>2, <2>3, PingLast, Zenon
<1>8. Slot(stopWaiting[p], frame) \in Nat /\ Slot(ackFrame[p], ack) \in Nat
  <2>1. /\ stopWaiting[p] \in Nat /\ ackFrame[p] \in Nat /\ ackBuilt[p] \in Nat
        /\ nextLeastUnacked[p] \in Nat
    BY DEF IInv, PackerTyping, HandlerTyping
  <2>2. ack \in Nat
    BY <1>3, AckTaken DEF IInv
  <2> QED BY <1>6, <2>1, <2>2 DEF Slot
<1>9. /\ IsPacket(list, Slot(stopWaiting[p], frame), packet)
      /\ numNonRetransmittablePackets[p] >= MaxNonRetransmittablePackets
           => ~packet.packed \/ packet.contents # <<>>
  BY <1>5, <1>7, <1>8, PackPacketIsPacket DEF PingTaken
<1>10. If(packet.packed /\ windowUpdateFrames, "frame") \in Seq(ControlKinds)
  <2>1. (packet.packed /\ windowUpdateFrames) \in BOOLEAN /\ "frame" \in ControlKinds
    BY DEF ControlKinds
  <2> QED BY <2>1, IfType
<1>11. LoopTyping'
  <2>1. CASE packet.packed
    BY <1>3, <1>4, <2>1 DEF LoopTyping
  <2>2. CASE ~packet.packed
    <3>1. AckRemainingPaths
      BY <1>3, <2>2
    <3>2. (unsent' < MaxControlFrames) \in BOOLEAN
      OBVIOUS
    <3> QED BY <3>1, <3>2 DEF AckRemainingPaths, LoopTyping
  <2> QED BY <2>1, <2>2
<1>12. UNCHANGED <<potentiallyFailed, nextLeastUnacked>>
  BY DEF SendOnPath
<1> QED BY <1>3, <1>6, <1>7, <1>9, <1>10, <1>11, <1>12, Zenon

\* A packet of frames taken from the path's handler and of those in its slots keeps the
\* invariant, whichever of them the caller passes on.
LEMMA PacketSent ==
  ASSUME IInv, NEW p \in Paths, NEW list \in Seq(ControlKinds), NEW extra \in Seq(ControlKinds),
         NEW ack \in AckFrames(p), NEW slotAck \in {ack, Slot(ackFrame[p], ack)},
         NEW frame \in {0, nextLeastUnacked[p]}, NEW taken \in {frame, Slot(stopWaiting[p], frame)},
         NEW packet, TakeAckFrame(p, ack), TakeStopWaitingFrame(p, taken),
         IsPacket(list, Slot(stopWaiting[p], frame), packet),
         Send(p, list, Slot(stopWaiting[p], frame), slotAck, packet, extra),
         UNCHANGED <<potentiallyFailed, nextLeastUnacked>>, LoopTyping'
  PROVE  IInv'
<1>1. PackerTyping /\ HandlerTyping /\ ControlFramesConserved /\ StopWaitingInOrder /\ AckFrameInOrder
  BY DEF IInv
<1>2. PICK b \in Nat :
        /\ ackBuilt' = [ackBuilt EXCEPT ![p] = b] /\ ackBuilt[p] <= b
        /\ ack # 0 => ack = b /\ ack > ackSent[p]
        /\ Slot(ackFrame[p], ack) # 0 => Slot(ackFrame[p], ack) = b /\ Slot(ackFrame[p], ack) > ackSent[p]
  BY <1>1, AckTaken
<1>3. ack \in Nat /\ Slot(ackFrame[p], ack) \in Nat
  BY <1>1, AckTaken
<1>4. ackDue' \in [Paths -> BOOLEAN] /\ ackBuilt' \in [Paths -> Nat]
  BY <1>1, AckTaken
<1>5. PICK m \in Nat :
        /\ largestLeastUnackedSent' = [largestLeastUnackedSent EXCEPT ![p] = m]
        /\ largestLeastUnackedSent[p] <= m /\ m <= nextLeastUnacked[p]
        /\ Slot(stopWaiting[p], frame) # 0 => Slot(stopWaiting[p], frame) = m
        /\ Slot(stopWaiting[p], frame) = 0 => stopWaiting[p] = 0 /\ m = largestLeastUnackedSent[p]
  BY <1>1, StopTaken
<1>6. Slot(stopWaiting[p], frame) \in Nat /\ largestLeastUnackedSent' \in [Paths -> Nat]
  BY <1>1, StopTaken
<1>7. HandlerTyping'
  BY <1>1, <1>4, <1>6 DEF HandlerTyping
<1>8. PICK stop : stop = Slot(stopWaiting[p], frame)
  OBVIOUS
<1>9. slotAck \in Nat /\ (slotAck # 0 => slotAck = b /\ slotAck > ackSent[p])
  BY <1>2, <1>3, Zenon
<1>10. /\ stop \in Nat /\ IsPacket(list, stop, packet) /\ Send(p, list, stop, slotAck, packet, extra)
       /\ stop # 0 => stop = m
       /\ stop = 0 => stopWaiting[p] = 0 /\ m = largestLeastUnackedSent[p]
  BY <1>5, <1>6, <1>8, Zenon
<1>11. PackerTyping' /\ ControlFramesConserved' /\ StopWaitingInOrder' /\ AckFrameInOrder'
  BY <1>1, <1>2, <1>5, <1>9, <1>10, SendKeeps
<1> QED BY <1>7, <1>11 DEF IInv

\* Nothing is taken from a handler.
LEMMA NothingTaken ==
  ASSUME HandlerTyping, NEW p \in Paths
  PROVE  /\ UNCHANGED <<ackDue, ackBuilt>> => TakeAckFrame(p, 0)
         /\ UNCHANGED largestLeastUnackedSent => TakeStopWaitingFrame(p, 0)
         /\ 0 \in AckFrames(p)
<1>1. ackDue[p] \in BOOLEAN
  BY DEF HandlerTyping
<1>2. (ackDue[p] /\ 0 = 0) = ackDue[p]
  BY <1>1
<1>3. [ackDue EXCEPT ![p] = @ /\ 0 = 0] = ackDue
  BY <1>2 DEF HandlerTyping
<1>4. [ackBuilt EXCEPT ![p] = @] = ackBuilt /\ [largestLeastUnackedSent EXCEPT ![p] = @] = largestLeastUnackedSent
  BY DEF HandlerTyping
<1>5. 0 \in AckFrames(p)
  BY DEF AckFrames
<1> QED BY <1>3, <1>4, <1>5 DEF TakeAckFrame, TakeStopWaitingFrame

\* Sending on the path selected keeps the invariant.
LEMMA SendOnPathStep ==
  ASSUME IInv, NEW p \in Paths, SendOnPath(p)
  PROVE  IInv'
<1>1. LoopTyping' /\ UNCHANGED <<potentiallyFailed, nextLeastUnacked>>
  BY SendOnPathSends
<1>2. PICK ack \in AckFrames(p), frame \in {0, nextLeastUnacked[p]}, list \in Seq(ControlKinds),
           extra \in Seq(ControlKinds) : \E packet :
        /\ TakeAckFrame(p, ack)
        /\ TakeStopWaitingFrame(p, Slot(stopWaiting[p], frame))
        /\ IsPacket(list, Slot(stopWaiting[p], frame), packet)
        /\ Send(p, list, Slot(stopWaiting[p], frame), Slot(ackFrame[p], ack), packet, extra)
  BY SendOnPathSends
<1> QED BY <1>1, <1>2, PacketSent

\* So does pinging the path that may have failed.  Nothing is taken from its handler: the
\* packet takes what the slots hold.
LEMMA SendPingStep ==
  ASSUME IInv, SendPing
  PROVE  IInv'
<1>1. PICK list, p, packet :
        /\ list = <<"PING">> \o controlFrames /\ p = fromPth
        /\ packet \in PackPacket(list, stopWaiting[p], ackFrame[p], streamRetransmission)
        /\ Send(p, list, stopWaiting[p], ackFrame[p], packet, <<>>)
        /\ phase' = IF packet.packed THEN "send" ELSE "error"
  BY DEF SendPing
<1>2. /\ phase = "ping" /\ fromPth' = NoPath
      /\ UNCHANGED <<rest, windowUpdateFrames, potentiallyFailed, ackDue, ackBuilt,
                     nextLeastUnacked, largestLeastUnackedSent>>
  BY DEF SendPing
<1>3. p \in Paths
  BY <1>1, <1>2 DEF IInv, LoopTyping
<1>4. list \in Seq(ControlKinds) /\ <<>> \in Seq(ControlKinds)
  <2>1. <<"PING">> \in Seq(ControlKinds)
    BY DEF ControlKinds
  <2> QED BY <1>1, <2>1, ConcatProperties DEF IInv, PackerTyping
<1>5. /\ stopWaiting[p] \in Nat /\ ackFrame[p] \in Nat /\ streamRetransmission \in BOOLEAN
  BY <1>3 DEF IInv, PackerTyping
<1>6. PICK stop, ack : stop = stopWaiting[p] /\ ack = ackFrame[p]
  OBVIOUS
<1>7. IsPacket(list, stop, packet)
  BY <1>1, <1>4, <1>5, <1>6, PackPacketIsPacket
<1>8. stop = Slot(stopWaiting[p], 0) /\ ack = Slot(ackFrame[p], 0)
  BY <1>6 DEF Slot
<1>9. /\ IsPacket(list, Slot(stopWaiting[p], 0), packet)
      /\ Send(p, list, Slot(stopWaiting[p], 0), Slot(ackFrame[p], 0), packet, <<>>)
  BY <1>1, <1>6, <1>7, <1>8, Zenon
<1>10. 0 \in AckFrames(p) /\ TakeAckFrame(p, 0) /\ TakeStopWaitingFrame(p, 0)
  BY <1>2, <1>3, NothingTaken DEF IInv
<1>11. LoopTyping'
  BY <1>1, <1>2 DEF IInv, LoopTyping
<1> QED BY <1>2, <1>3, <1>4, <1>9, <1>10, <1>11, PacketSent

\* The list with the window updates behind it.
LEMMA UpdatesBehind ==
  ASSUME IInv
  PROVE  /\ controlFrames \o If(windowUpdateFrames, "frame") \in Seq(ControlKinds)
         /\ Append(controlFrames, "frame") \in Seq(ControlKinds)
<1>1. "frame" \in ControlKinds /\ windowUpdateFrames \in BOOLEAN /\ controlFrames \in Seq(ControlKinds)
  BY DEF ControlKinds, IInv, LoopTyping, PackerTyping
<1>2. If(windowUpdateFrames, "frame") \in Seq(ControlKinds)
  BY <1>1, IfType
<1> QED BY <1>1, <1>2, ConcatProperties, AppendProperties

\* The packet of ackRemainingPaths.
LEMMA PackAckPacketIsPacket ==
  ASSUME IInv, NEW list \in Seq(ControlKinds), NEW stop
  PROVE  IsPacket(list, stop, PackAckPacket(list))
<1>1. Count(<<>>, "frame") = 0 /\ <<>> \in Seq(Kinds)
  <2>1. <<>> \in Seq(Kinds)
    OBVIOUS
  <2> QED BY <2>1, CountOne
<1>2. Count(list, "frame") \in Nat
  BY CountType
<1>3. streamRetransmission \in BOOLEAN
  BY DEF IInv, PackerTyping
<1>4. PICK packet : packet = PackAckPacket(list)
  OBVIOUS
<1>5. /\ packet.packed = TRUE /\ packet.slots = TRUE /\ packet.blocked = FALSE
      /\ packet.resend \in BOOLEAN /\ packet.left = list /\ packet.contents = <<>>
  BY <1>3, <1>4, PackAckPacketFacts
<1>6. Count(packet.left, "frame") = Count(list, "frame") /\ Count(packet.contents, "frame") = 0
  BY <1>1, <1>5
<1>7. Count(packet.left, "frame") + Count(packet.contents, "frame") = Count(list, "frame")
  BY <1>2, <1>6
<1>8. IsPacket(list, stop, packet)
  BY <1>1, <1>5, <1>6, <1>7 DEF IsPacket
<1> QED BY <1>4, <1>8, Zenon

\* An ACK frame sent whatever the congestion window says.
LEMMA AckPathStep ==
  ASSUME IInv, NEW p \in Paths, AckPath(p)
  PROVE  IInv'
<1>1. PICK ack \in AckFrames(p) \ {0} :
        LET stop == StopWaitingFrame(p, FALSE)
            list == controlFrames \o If(windowUpdateFrames, "frame")
        IN /\ TakeAckFrame(p, ack)
           /\ TakeStopWaitingFrame(p, stop)
           /\ Send(p, list, Slot(stopWaiting[p], stop), ack, PackAckPacket(list), <<>>)
  BY DEF AckPath
<1>2. PICK frame, list, packet :
        /\ frame = StopWaitingFrame(p, FALSE)
        /\ list = controlFrames \o If(windowUpdateFrames, "frame")
        /\ packet = PackAckPacket(list)
  OBVIOUS
<1>3. /\ TakeAckFrame(p, ack) /\ TakeStopWaitingFrame(p, frame)
      /\ Send(p, list, Slot(stopWaiting[p], frame), ack, packet, <<>>)
  BY <1>1, <1>2, Zenon
<1>4. frame \in {0, nextLeastUnacked[p]}
  BY <1>2, StopFrameType DEF IInv
<1>5. list \in Seq(ControlKinds) /\ <<>> \in Seq(ControlKinds)
  BY <1>2, UpdatesBehind
<1>6. IsPacket(list, Slot(stopWaiting[p], frame), packet)
  BY <1>2, <1>5, PackAckPacketIsPacket
<1>7. Visited(p)
  BY DEF AckPath
<1>8. LoopTyping' /\ UNCHANGED <<potentiallyFailed, nextLeastUnacked>>
  BY <1>7 DEF Visited, IInv, LoopTyping
<1> QED BY <1>3, <1>4, <1>5, <1>6, <1>8, PacketSent

\* Window updates sent where no ACK is due.
LEMMA UpdatePathStep ==
  ASSUME IInv, NEW p \in Paths, UpdatePath(p)
  PROVE  IInv'
<1>1. LET stop == StopWaitingFrame(p, FALSE)
          list == Append(controlFrames, "frame")
      IN /\ TakeStopWaitingFrame(p, stop)
         /\ \E packet \in PackPacket(list, Slot(stopWaiting[p], stop), 0, streamRetransmission) :
              /\ Send(p, list, Slot(stopWaiting[p], stop), 0, packet, <<>>)
              /\ rest' = rest \ {p}
              /\ phase' = IF ~packet.packed THEN "crashed"
                          ELSE IF rest = {p} THEN "select" ELSE "rest"
  BY DEF UpdatePath
<1>2. PICK frame, list : frame = StopWaitingFrame(p, FALSE) /\ list = Append(controlFrames, "frame")
  OBVIOUS
<1>3. PICK packet \in PackPacket(list, Slot(stopWaiting[p], frame), 0, streamRetransmission) :
        /\ TakeStopWaitingFrame(p, frame)
        /\ Send(p, list, Slot(stopWaiting[p], frame), 0, packet, <<>>)
        /\ rest' = rest \ {p}
        /\ phase' = IF ~packet.packed THEN "crashed"
                    ELSE IF rest = {p} THEN "select" ELSE "rest"
  BY <1>1, <1>2, Zenon
<1>4. frame \in {0, nextLeastUnacked[p]}
  BY <1>2, StopFrameType DEF IInv
<1>5. list \in Seq(ControlKinds) /\ <<>> \in Seq(ControlKinds)
  BY <1>2, UpdatesBehind
<1>6. Slot(stopWaiting[p], frame) \in Nat /\ streamRetransmission \in BOOLEAN
  BY <1>4 DEF Slot, IInv, PackerTyping, HandlerTyping
<1>7. IsPacket(list, Slot(stopWaiting[p], frame), packet)
  BY <1>5, <1>6, PackPacketIsPacket
<1>8. UNCHANGED <<fromPth, windowUpdateFrames, potentiallyFailed, ackDue, ackBuilt, nextLeastUnacked>>
  BY DEF UpdatePath
<1>9. 0 \in AckFrames(p) /\ TakeAckFrame(p, 0)
  BY <1>8, NothingTaken DEF IInv
<1>10. LoopTyping'
  BY <1>3, <1>8 DEF IInv, LoopTyping
<1> QED BY <1>3, <1>4, <1>5, <1>7, <1>8, <1>9, <1>10, PacketSent

\* Frames queued behind the list.
LEMMA QueuedBehind ==
  ASSUME PackerTyping, ControlFramesConserved, NEW more \in Seq(ControlKinds), NEW n,
         n = Count(more, "frame"),
         controlFrames' = controlFrames \o more, unsent' = unsent + n
  PROVE  controlFrames' \in Seq(ControlKinds) /\ unsent' \in Nat /\ ControlFramesConserved'
<1>1. controlFrames \in Seq(ControlKinds) /\ unsent \in Nat /\ unsent = Count(controlFrames, "frame")
  BY DEF PackerTyping, ControlFramesConserved
<1>2. controlFrames' \in Seq(ControlKinds)
  BY <1>1, ConcatProperties
<1>3. Count(controlFrames \o more, "frame") = Count(controlFrames, "frame") + Count(more, "frame")
  BY <1>1, CountConcat
<1>4. n \in Nat
  BY CountType
<1>5. unsent' \in Nat /\ unsent' = Count(controlFrames', "frame")
  BY <1>1, <1>3, <1>4
<1> QED BY <1>2, <1>5 DEF ControlFramesConserved

\* A path with nothing to acknowledge.
LEMMA SkipPathStep ==
  ASSUME IInv, NEW p \in Paths, SkipPath(p)
  PROVE  IInv'
<1>1. PICK more : more = If(windowUpdateFrames, "frame")
  OBVIOUS
<1>2. /\ controlFrames' = controlFrames \o more /\ unsent' = unsent + Len(more) /\ Visited(p)
      /\ UNCHANGED <<ackFrame, stopWaiting, streamRetransmission, ackDue, ackBuilt,
                     largestLeastUnackedSent, numNonRetransmittablePackets, ackSent, stopSent>>
  BY <1>1 DEF SkipPath
<1>3. windowUpdateFrames \in BOOLEAN /\ "frame" \in ControlKinds
  BY DEF IInv, LoopTyping, ControlKinds
<1>4. more \in Seq(ControlKinds) /\ Len(more) = Count(more, "frame")
  BY <1>1, <1>3, FrameIf
<1>5. controlFrames' \in Seq(ControlKinds) /\ unsent' \in Nat /\ ControlFramesConserved'
  BY <1>2, <1>4, QueuedBehind DEF IInv
<1>6. LoopTyping' /\ UNCHANGED <<potentiallyFailed, nextLeastUnacked>>
  BY <1>2 DEF Visited, IInv, LoopTyping
<1>7. PackerTyping' /\ HandlerTyping'
  BY <1>2, <1>5, <1>6 DEF IInv, PackerTyping, HandlerTyping
<1>8. StopWaitingInOrder' /\ AckFrameInOrder'
  BY <1>2, <1>6 DEF IInv, StopWaitingInOrder, AckFrameInOrder
<1> QED BY <1>5, <1>6, <1>7, <1>8 DEF IInv

\* No path: the lost frames wait in the list.
LEMMA NoPathSelectedStep ==
  ASSUME IInv, NoPathSelected
  PROVE  IInv'
<1>1. PICK r \in Retransmissions :
        /\ controlFrames' = controlFrames \o r.list
        /\ unsent' = unsent + Count(r.list, "frame")
        /\ streamRetransmission' = (streamRetransmission \/ r.stream)
  BY DEF NoPathSelected
<1>2. /\ AckRemainingPaths
      /\ UNCHANGED <<ackFrame, stopWaiting, potentiallyFailed, ackDue, ackBuilt, nextLeastUnacked,
                     largestLeastUnackedSent, numNonRetransmittablePackets, ackSent, stopSent>>
  BY DEF NoPathSelected
<1>3. r.list \in Seq(ControlKinds) /\ r.stream \in BOOLEAN
  BY RetransmissionType
<1>4. controlFrames' \in Seq(ControlKinds) /\ unsent' \in Nat /\ ControlFramesConserved'
  BY <1>1, <1>3, QueuedBehind DEF IInv
<1>5. LoopTyping'
  <2>1. (unsent' < MaxControlFrames) \in BOOLEAN
    OBVIOUS
  <2> QED BY <1>2, <2>1 DEF AckRemainingPaths, LoopTyping
<1>6. streamRetransmission' \in BOOLEAN
  BY <1>1, <1>3 DEF IInv, PackerTyping
<1>7. PackerTyping' /\ HandlerTyping'
  BY <1>2, <1>4, <1>6 DEF IInv, PackerTyping, HandlerTyping
<1>8. StopWaitingInOrder' /\ AckFrameInOrder'
  BY <1>2 DEF IInv, StopWaitingInOrder, AckFrameInOrder
<1> QED BY <1>4, <1>5, <1>7, <1>8 DEF IInv

\* Keep-alive PINGs are no frames that count.
LEMMA KeepAliveType ==
  KeepAlivePings \in Seq(ControlKinds) /\ Count(KeepAlivePings, "frame") = 0
<1>1. Cardinality(Paths) \in Nat
  BY PathsAssumption, FS_CardinalityType
<1>2. KeepAlivePings \in Seq(ControlKinds) /\ Len(KeepAlivePings) = Cardinality(Paths)
  BY <1>1 DEF KeepAlivePings, ControlKinds
<1>3. {i \in 1..Len(KeepAlivePings) : KeepAlivePings[i] = "frame"} = {}
  BY <1>1, <1>2 DEF KeepAlivePings
<1> QED BY <1>2, <1>3, FS_EmptySet DEF Count

\* What happened before the loop runs again: nothing of it touches the slots.
LEMMA SelectStep ==
  ASSUME IInv, Select
  PROVE  IInv'
<1>1. PICK received \in SUBSET Paths, p \in Paths, advance \in {0, 1}, failing \in BOOLEAN, keepAlive \in BOOLEAN,
           updates \in BOOLEAN :
        /\ ReceivedPacket(received) /\ AckOrAlarm(p, advance, failing, received)
        /\ StartSending(keepAlive, updates)
  BY DEF Select
<1>2. UNCHANGED <<rest, fromPth, ackFrame, stopWaiting, streamRetransmission, ackBuilt,
                  largestLeastUnackedSent, numNonRetransmittablePackets, ackSent, stopSent>>
  BY DEF Select
<1>3. LoopTyping'
  BY <1>1, <1>2 DEF StartSending, IInv, LoopTyping
<1>4. controlFrames' \in Seq(ControlKinds) /\ unsent' \in Nat /\ ControlFramesConserved'
  <2>1. PICK pings, frames : /\ pings = IF keepAlive THEN KeepAlivePings ELSE <<>>
                             /\ frames = If(updates, "frame")
    OBVIOUS
  <2>2. controlFrames' = controlFrames \o pings \o frames /\ unsent' = unsent + Len(frames)
    BY <1>1, <2>1 DEF StartSending
  <2>3. pings \in Seq(ControlKinds) /\ Count(pings, "frame") = 0
    <3>1. <<>> \in Seq(ControlKinds)
      OBVIOUS
    <3> QED BY <2>1, <3>1, CountOne, KeepAliveType
  <2>4. frames \in Seq(ControlKinds) /\ Len(frames) = Count(frames, "frame")
    BY <2>1, FrameIf
  <2>5. controlFrames \in Seq(ControlKinds)
    BY DEF IInv, PackerTyping
  <2>6. controlFrames \o pings \o frames = controlFrames \o (pings \o frames)
    BY <2>3, <2>4, <2>5, ConcatAssociative
  <2>7. pings \o frames \in Seq(ControlKinds)
    BY <2>3, <2>4, ConcatProperties
  <2>8. Len(frames) = Count(pings \o frames, "frame")
    <3>1. Count(pings \o frames, "frame") = Count(pings, "frame") + Count(frames, "frame")
      BY <2>3, <2>4, CountConcat
    <3>2. Len(frames) \in Nat
      BY <2>4, LenProperties
    <3> QED BY <2>3, <2>4, <3>1, <3>2
  <2> QED BY <2>2, <2>6, <2>7, <2>8, QueuedBehind DEF IInv
<1>5. PackerTyping'
  BY <1>2, <1>4 DEF IInv, PackerTyping
<1>6. /\ nextLeastUnacked' = [nextLeastUnacked EXCEPT ![p] = @ + advance]
      /\ potentiallyFailed' \in [Paths -> BOOLEAN] /\ ackDue' \in [Paths -> BOOLEAN]
  BY <1>1 DEF AckOrAlarm, ReceivedPacket
<1>7. nextLeastUnacked' \in [Paths -> Nat] /\ \A q \in Paths : nextLeastUnacked[q] <= nextLeastUnacked'[q]
  BY <1>6 DEF IInv, HandlerTyping
<1>8. HandlerTyping'
  BY <1>2, <1>6, <1>7 DEF IInv, HandlerTyping
<1>9. StopWaitingInOrder'
  BY <1>2, <1>7 DEF IInv, StopWaitingInOrder, HandlerTyping
<1>10. AckFrameInOrder'
  BY <1>2 DEF IInv, AckFrameInOrder
<1> QED BY <1>3, <1>4, <1>5, <1>8, <1>9, <1>10 DEF IInv

-----------------------------------------------------------------------------
(* The theorems. *)

\* The packer starts empty.
LEMMA InitIInv == Init => IInv
<1> SUFFICES ASSUME Init PROVE IInv
  OBVIOUS
<1>1. LoopTyping /\ HandlerTyping
  BY DEF Init, LoopTyping, HandlerTyping
<1>2. PackerTyping
  <2>1. <<>> \in Seq(ControlKinds) /\ 0 \in 0..(MaxNonRetransmittablePackets + 1)
    BY PathsAssumption
  <2> QED BY <2>1 DEF Init, PackerTyping
<1>3. ControlFramesConserved
  <2>1. Count(<<>>, "frame") = 0
    BY CountOne
  <2> QED BY <2>1 DEF Init, ControlFramesConserved
<1>4. StopWaitingInOrder /\ AckFrameInOrder
  BY DEF Init, StopWaitingInOrder, AckFrameInOrder
<1> QED BY <1>1, <1>2, <1>3, <1>4 DEF IInv

\* Nothing changes.
LEMMA Stutter ==
  ASSUME IInv, UNCHANGED vars
  PROVE  IInv'
<1>1. LoopTyping' /\ PackerTyping' /\ HandlerTyping'
  BY DEF IInv, LoopTyping, PackerTyping, HandlerTyping, vars
<1>2. ControlFramesConserved' /\ StopWaitingInOrder' /\ AckFrameInOrder'
  BY DEF IInv, ControlFramesConserved, StopWaitingInOrder, AckFrameInOrder, vars
<1> QED BY <1>1, <1>2 DEF IInv

\* Every step keeps the invariant.
LEMMA NextIInv == IInv /\ [Next]_vars => IInv'
<1> SUFFICES ASSUME IInv, [Next]_vars PROVE IInv'
  OBVIOUS
<1>1. CASE Select
  BY <1>1, SelectStep
<1>2. ASSUME NEW p \in Paths, SendOnPath(p) PROVE IInv'
  BY <1>2, SendOnPathStep
<1>3. ASSUME NEW p \in Paths, SkipPath(p) PROVE IInv'
  BY <1>3, SkipPathStep
<1>4. ASSUME NEW p \in Paths, AckPath(p) PROVE IInv'
  BY <1>4, AckPathStep
<1>5. ASSUME NEW p \in Paths, UpdatePath(p) PROVE IInv'
  BY <1>5, UpdatePathStep
<1>6. CASE SendPing
  BY <1>6, SendPingStep
<1>7. CASE NoPathSelected
  BY <1>7, NoPathSelectedStep
<1>8. CASE UNCHANGED vars
  BY <1>8, Stutter
<1> QED BY <1>1, <1>2, <1>3, <1>4, <1>5, <1>6, <1>7, <1>8 DEF Next

\* What the packer, its slots and the handlers satisfy between any two steps of the loop.
THEOREM InductiveInvariant == Spec => []IInv
<1> QED BY InitIInv, NextIInv, PTL DEF Spec

\* Each control frame that was queued waits in the list or went out in one packet:
\* composeNextPacket neither drops the frame that did not fit nor leaves one it packed.
THEOREM ControlFramesCounted == Spec => []ControlFramesConserved
<1>1. IInv => ControlFramesConserved
  BY IInvImplies
<1> QED BY <1>1, InductiveInvariant, PTL

\* The STOP_WAITING frame taken last is in its slot or was sent, also when no packet was
\* made of it.
THEOREM StopWaitingNeverLost == Spec => []StopWaitingKept
<1>1. IInv => StopWaitingKept
  BY IInvImplies
<1> QED BY <1>1, InductiveInvariant, PTL

\* A packet never repeats an ACK frame, nor sends one that a newer one has overtaken.
THEOREM AckFrameSentOnce == Spec => []AckFrameFresh
<1>1. IInv => AckFrameFresh
  BY IInvImplies
<1> QED BY <1>1, InductiveInvariant, PTL

\* In the loop only SendOnPath counts packets, and the PING it queues when the limit is
\* reached resets the count.
LEMMA LoopStep ==
  ASSUME IInv, [Next]_vars, phase = "send", NEW p \in Paths,
         numNonRetransmittablePackets'[p] > numNonRetransmittablePackets[p]
  PROVE  numNonRetransmittablePackets[p] < MaxNonRetransmittablePackets
<1> DEFINE num == numNonRetransmittablePackets
<1>1. num[p] \in Int /\ MaxNonRetransmittablePackets \in Int
  BY PathsAssumption DEF IInv, PackerTyping
<1>2. num'[p] # num[p]
  BY <1>1
<1>3. ~UNCHANGED num
  BY <1>2
<1>4. PICK q \in Paths : SendOnPath(q)
  BY <1>3 DEF Next, Select, SkipPath, AckPath, UpdatePath, SendPing, NoPathSelected, vars
<1>5. PICK ack \in AckFrames(q), frame \in {0, nextLeastUnacked[q]}, list \in Seq(ControlKinds),
           extra \in Seq(ControlKinds) : \E packet :
        /\ Send(q, list, Slot(stopWaiting[q], frame), Slot(ackFrame[q], ack), packet, extra)
        /\ num[q] >= MaxNonRetransmittablePackets => ~packet.packed \/ packet.contents # <<>>
  BY <1>4, SendOnPathSends
<1>6. PICK packet :
        /\ Send(q, list, Slot(stopWaiting[q], frame), Slot(ackFrame[q], ack), packet, extra)
        /\ num[q] >= MaxNonRetransmittablePackets => ~packet.packed \/ packet.contents # <<>>
  BY <1>5
<1>7. PICK stop, slot : stop = Slot(stopWaiting[q], frame) /\ slot = Slot(ackFrame[q], ack)
  OBVIOUS
<1>8. Send(q, list, stop, slot, packet, extra)
  BY <1>6, <1>7, Zenon
<1>9. /\ \A o \in Paths \ {q} : num'[o] = num[o]
      /\ ~packet.packed \/ packet.contents # <<>> => num'[q] \in {0, num[q]}
  BY <1>8, SendCounts DEF IInv
<1>10. p = q
  BY <1>2, <1>9
<1>11. num[p] >= 0
  BY PathsAssumption DEF IInv, PackerTyping
<1>12. ~(num'[p] \in {0, num[p]})
  BY <1>1, <1>2, <1>11
<1>13. ~(num[p] >= MaxNonRetransmittablePackets)
  BY <1>6, <1>9, <1>10, <1>12
<1> QED BY <1>1, <1>13

\* The loop sends no packet in a row beyond MaxNonRetransmittablePackets that the peer
\* would not acknowledge (ShouldSendRetransmittablePacket).
THEOREM PingKeepsPeerAcking == Spec => LoopSendsRetransmittable
<1>1. IInv /\ [Next]_vars
        => [phase = "send" =>
              \A p \in Paths :
                numNonRetransmittablePackets'[p] > numNonRetransmittablePackets[p]
                  => numNonRetransmittablePackets[p] < MaxNonRetransmittablePackets]_vars
  BY LoopStep
<1> QED BY <1>1, InductiveInvariant, PTL DEF Spec, LoopSendsRetransmittable
=============================================================================

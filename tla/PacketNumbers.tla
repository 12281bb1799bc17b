---------------------------- MODULE PacketNumbers ----------------------------
(***************************************************************************)
(* Packet numbers in the public header: internal/protocol/packet_number.go. *)
(* A packet carries the last one, two, four or six bytes of its number;    *)
(* the sender chooses how many by the distance to its least unacked packet *)
(* and the receiver takes the number closest to the next one it expects.   *)
(* The arithmetic is that of uint64.                                       *)
(***************************************************************************)
EXTENDS Integers

Word == 18446744073709551616              \* 2^64
PacketNumberLengths == {1, 2, 4, 6}

\* The count of numbers that packetNumberLength bytes tell apart, 1 << (8 * length).
EpochDelta(packetNumberLength) ==
  IF packetNumberLength = 1 THEN 256
  ELSE IF packetNumberLength = 2 THEN 65536
  ELSE IF packetNumberLength = 4 THEN 4294967296
  ELSE 281474976710656

\* What the packet carries of its number.
Truncated(packetNumberLength, n) == n % EpochDelta(packetNumberLength)

delta(a, b) == IF a < b THEN b - a ELSE a - b

closestTo(target, a, b) == IF delta(target, a) < delta(target, b) THEN a ELSE b

\* The epoch before the first one wraps around and is never the closest.
InferPacketNumber(packetNumberLength, lastPacketNumber, wirePacketNumber) ==
  LET epochDelta == EpochDelta(packetNumberLength)
      epoch == lastPacketNumber - (lastPacketNumber % epochDelta)
      prevEpochBegin == (epoch - epochDelta) % Word
      nextEpochBegin == (epoch + epochDelta) % Word
  IN closestTo(lastPacketNumber + 1,
               (epoch + wirePacketNumber) % Word,
               closestTo(lastPacketNumber + 1,
                         (prevEpochBegin + wirePacketNumber) % Word,
                         (nextEpochBegin + wirePacketNumber) % Word))

GetPacketNumberLengthForPublicHeader(packetNumber, leastUnacked) ==
  LET diff == (packetNumber - leastUnacked) % Word
  IN IF diff < 32768 THEN 2 ELSE IF diff < 2147483648 THEN 4 ELSE 6

\* Packet numbers a connection can reach: far below the end of the word.
Reachable == {n \in Nat : 4 * n < Word}

=============================================================================

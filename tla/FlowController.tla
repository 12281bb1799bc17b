--------------------------- MODULE FlowController ---------------------------
(***************************************************************************)
(* The receiving half of a flow controller (internal/flowcontrol), of one  *)
(* stream or of the connection, and the sending half's window.  Time is    *)
(* left out: whether window updates follow each other fast enough for the  *)
(* increment to be doubled is open.                                        *)
(***************************************************************************)
EXTENDS Naturals

CONSTANT ConnectionFlowControlMultiplier   \* a percentage: 150

ASSUME MultiplierAssumption == ConnectionFlowControlMultiplier \in Nat

FlowControllers ==
  [bytesRead : Nat, highestReceived : Nat,
   receiveWindow : Nat, receiveWindowIncrement : Nat, maxReceiveWindowIncrement : Nat]

newFlowController(window, maxWindow) ==
  [bytesRead |-> 0, highestReceived |-> 0, receiveWindow |-> window,
   receiveWindowIncrement |-> window, maxReceiveWindowIncrement |-> maxWindow]

Least(a, b) == IF a < b THEN a ELSE b

\* A stream's offset never goes back: frames overtake each other.
UpdateHighestReceived(c, byteOffset) ==
  [c EXCEPT !.highestReceived = IF byteOffset > @ THEN byteOffset ELSE @]

\* What the connection's controller is told of it.
Increment(c, byteOffset) == UpdateHighestReceived(c, byteOffset).highestReceived - c.highestReceived

IncrementHighestReceived(c, increment) == [c EXCEPT !.highestReceived = @ + increment]

CheckFlowControlViolation(c) == c.highestReceived > c.receiveWindow

AddBytesRead(c, n) == [c EXCEPT !.bytesRead = @ + n]

\* Less than half an increment is left to receive and be read.
NeedsUpdate(c) == c.receiveWindow - c.bytesRead < c.receiveWindowIncrement \div 2

\* MaybeUpdateWindow; fast says that maybeAdjustWindowIncrement finds updates too frequent.
MaybeUpdateWindow(c, fast) ==
  LET increment == IF fast THEN Least(2 * c.receiveWindowIncrement, c.maxReceiveWindowIncrement)
                   ELSE c.receiveWindowIncrement
  IN IF ~NeedsUpdate(c) THEN c
     ELSE [c EXCEPT !.receiveWindowIncrement = increment,
                    !.receiveWindow = c.bytesRead + increment]

\* A stream whose window grows takes the connection's along.
EnsureMinimumWindowIncrement(c, inc) ==
  LET minimum == (inc * ConnectionFlowControlMultiplier) \div 100 IN
  IF minimum > c.receiveWindowIncrement
  THEN [c EXCEPT !.receiveWindowIncrement = Least(minimum, c.maxReceiveWindowIncrement)]
  ELSE c

\* SendWindowSize, for bytes sent under a window.
SendWindowSize(sendWindow, bytesSent) ==
  IF bytesSent > sendWindow THEN 0 ELSE sendWindow - bytesSent
=============================================================================

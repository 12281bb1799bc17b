--------------------------- MODULE ReceivedNumbers ---------------------------
(***************************************************************************)
(* What a path owes its peer on the receiving side: it remembers the       *)
(* numbers of the packets it got, above the limit the peer last asked for  *)
(* with STOP_WAITING, and reports exactly those.  The limit may come down  *)
(* again when packets arrive out of order; forgotten numbers stay          *)
(* forgotten until their packet arrives once more.                         *)
(***************************************************************************)
EXTENDS Integers

CONSTANT MaxPacketNumber

VARIABLES
  numbers,   \* what an ACK frame sent now would report
  limit,     \* numbers up to here are not reported
  stopped    \* the session is being closed

vars == <<numbers, limit, stopped>>

Init == numbers = {} /\ limit = 0 /\ stopped = FALSE

\* A packet arrives; with leastUnacked > 0 it carries a STOP_WAITING frame.
Receive(p, leastUnacked) ==
  /\ ~stopped
  /\ UNCHANGED stopped
  /\ LET seen == IF p > limit THEN numbers \cup {p} ELSE numbers IN
     IF leastUnacked = 0
     THEN numbers' = seen /\ limit' = limit
     ELSE numbers' = {n \in seen : n >= leastUnacked} /\ limit' = leastUnacked - 1

\* More gaps than the receiver is ready to track.
GiveUp == ~stopped /\ stopped' = TRUE /\ UNCHANGED <<numbers, limit>>

Next ==
  \/ \E p \in 1..MaxPacketNumber : \E leastUnacked \in 0..p : Receive(p, leastUnacked)
  \/ GiveUp

Spec == Init /\ [][Next]_vars

=============================================================================

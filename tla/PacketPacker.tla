---------------------------- MODULE PacketPacker ----------------------------
(***************************************************************************)
(* How the session turns what its parts want to send into packets: the     *)
(* loop of scheduler.sendPacket with ackRemainingPaths, and the packet     *)
(* packer with its list of control frames and, for each path, one slot for *)
(* an ACK frame and one for a STOP_WAITING frame.                          *)
(*                                                                         *)
(* The handshake is complete: the crypto stream has nothing to send and    *)
(* handshake packets are not retransmitted.  Control frames other than     *)
(* PING are alike; how many fit into a packet is open.  An ACK frame is    *)
(* the count of ACK frames built for its path, a STOP_WAITING frame its    *)
(* LeastUnacked.  Of the paths' handlers only what the loop asks them is   *)
(* kept: which packets their retransmission queues hold (DuplicatePacket   *)
(* adds to them) and whether their congestion windows are open is not.     *)
(***************************************************************************)
EXTENDS Integers, Sequences, FiniteSets, SequencesExt

CONSTANTS
  Paths,
  InitialPathID,
  NoPath,
  MaxNonRetransmittablePackets,  \* protocol.MaxNonRetransmittablePackets
  MaxAckFrames,                  \* bound: ACK frames all paths build
  MaxLeastUnacked,               \* bound: advances of nextLeastUnacked on all paths
  MaxControlFrames,              \* bound: no frame comes from outside while so many are unsent
  MaxPings                       \* bound: PINGs queued by keep-alives and retransmissions

ASSUME PathsAssumption ==
  /\ IsFiniteSet(Paths) /\ InitialPathID \in Paths /\ NoPath \notin Paths
  /\ MaxNonRetransmittablePackets \in Nat \ {0}
  /\ {MaxAckFrames, MaxLeastUnacked, MaxControlFrames, MaxPings} \subseteq Nat

VARIABLES
  phase,                  \* where the run loop is: its select, or a place in sendPacket
  rest,                   \* the paths ackRemainingPaths has still to visit
  fromPth,                \* the potentially failed path that is to be pinged
  windowUpdateFrames,     \* there are some to be queued once more
  controlFrames,          \* packetPacker.controlFrames
  ackFrame, stopWaiting,  \* the slots of packetPacker, 0 if empty
  streamRetransmission,   \* the framer's HasFramesForRetransmission
  \* by path
  potentiallyFailed,
  ackDue,                 \* its GetAckFrame may return a frame
  ackBuilt,               \* ACK frames it has returned
  nextLeastUnacked, largestLeastUnackedSent,   \* its stopWaitingManager
  numNonRetransmittablePackets,                \* cut off above the limit
  \* history
  unsent,                 \* control frames queued and not put into a packet
  ackSent, stopSent       \* the last frame of each kind put into a packet, by path

vars == <<phase, rest, fromPth, windowUpdateFrames, controlFrames, ackFrame, stopWaiting,
          streamRetransmission, potentiallyFailed, ackDue, ackBuilt, nextLeastUnacked,
          largestLeastUnackedSent, numNonRetransmittablePackets, unsent, ackSent, stopSent>>

Init ==
  /\ phase = "select"
  /\ rest = {}
  /\ fromPth = NoPath
  /\ windowUpdateFrames = FALSE
  /\ controlFrames = <<>>
  /\ ackFrame = [p \in Paths |-> 0]
  /\ stopWaiting = [p \in Paths |-> 0]
  /\ streamRetransmission = FALSE
  /\ potentiallyFailed = [p \in Paths |-> FALSE]
  /\ ackDue = [p \in Paths |-> FALSE]
  /\ ackBuilt = [p \in Paths |-> 0]
  /\ nextLeastUnacked = [p \in Paths |-> 0]
  /\ largestLeastUnackedSent = [p \in Paths |-> 0]
  /\ numNonRetransmittablePackets = [p \in Paths |-> 0]
  /\ unsent = 0
  /\ ackSent = [p \in Paths |-> 0]
  /\ stopSent = [p \in Paths |-> 0]

-----------------------------------------------------------------------------
(* The packer. *)

Total(f) == FoldFunction(+, 0, f)
Count(list, what) == Cardinality({i \in 1..Len(list) : list[i] = what})
If(present, what) == IF present THEN <<what>> ELSE <<>>

\* composeNextPacket takes control frames from the back of the list until one does not
\* fit, then stream frames; framing stream data may queue a BLOCKED frame.  STOP_WAITING,
\* ACK and a PING always fit, and without an ACK so does any one frame.
Compositions(list, ack, resend) ==
  {c \in [left : 0..Len(list), data : BOOLEAN, resend : BOOLEAN, blocked : BOOLEAN] :
     /\ c.left = Len(list) /\ list # <<>> => ack # 0 /\ list[Len(list)] # "PING"
     /\ c.resend => resend
     /\ ~c.resend /\ resend => c.data
     /\ c.resend => c.data \/ c.left < Len(list) \/ ack # 0
     /\ c.blocked => c.data /\ unsent < MaxControlFrames}

\* Fault: the frame that did not fit is taken off the list as well.
ComposedDropNext(list, ack, resend) ==
  {[packed |-> ack # 0 \/ c.left < Len(list) \/ c.data,
    left |-> SubSeq(list, 1, c.left - 1),
    contents |-> SubSeq(list, c.left + 1, Len(list)) \o If(c.data, "stream"),
    slots |-> TRUE,
    resend |-> c.resend,
    blocked |-> c.blocked] : c \in Compositions(list, ack, resend)}

\* A packet, or none: packed tells which.
Composed(list, ack, resend) ==
  {[packed |-> ack # 0 \/ c.left < Len(list) \/ c.data,
    left |-> SubSeq(list, 1, c.left),
    contents |-> SubSeq(list, c.left + 1, Len(list)) \o If(c.data, "stream"),
    slots |-> TRUE,
    resend |-> c.resend,
    blocked |-> c.blocked] : c \in Compositions(list, ack, resend)}

\* Fault: STOP_WAITING does not keep the PING back.
PingAloneAlways(list, stop, resend) ==
  {[packed |-> TRUE, left |-> Tail(list), contents |-> <<"PING">>, slots |-> FALSE,
    resend |-> resend, blocked |-> FALSE]}

\* A PING at the head of the list travels alone, if it travels: no packet is made of one
\* frame while there is a STOP_WAITING frame.  It is off the list all the same.
PingAlone(list, stop, resend) ==
  {[packed |-> stop = 0, left |-> Tail(list), contents |-> <<"PING">>, slots |-> FALSE,
    resend |-> resend, blocked |-> FALSE]}

\* PackPacket, with the control frames and the path's slots as they are then.
PackPacket(list, stop, ack, resend) ==
  IF list # <<>> /\ list[1] = "PING" THEN PingAlone(list, stop, resend)
  ELSE Composed(list, ack, resend)

\* PackAckPacket: the ACK frame and STOP_WAITING, whatever the list holds.
PackAckPacket(list) ==
  [packed |-> TRUE, left |-> list, contents |-> <<>>, slots |-> TRUE,
   resend |-> streamRetransmission, blocked |-> FALSE]

\* The effect of making packet from list and the slots' contents stop and ack, and of
\* sendPackedPacket on the path's handler; extra is queued behind.
Send(p, list, stop, ack, packet, extra) ==
  LET behind == If(packet.blocked, "frame") \o extra IN
  /\ controlFrames' = packet.left \o behind
  /\ unsent' = unsent + Count(list, "frame") - Count(controlFrames, "frame") + Count(behind, "frame")
                 - (IF packet.packed THEN Count(packet.contents, "frame") ELSE 0)
  /\ streamRetransmission' = packet.resend
  /\ IF packet.packed
     THEN /\ ackFrame' = [ackFrame EXCEPT ![p] = 0]
          /\ stopWaiting' = [stopWaiting EXCEPT ![p] = 0]
          /\ ackSent' = [ackSent EXCEPT ![p] = IF packet.slots /\ ack # 0 THEN ack ELSE @]
          /\ stopSent' = [stopSent EXCEPT ![p] = IF packet.slots /\ stop # 0 THEN stop ELSE @]
          /\ numNonRetransmittablePackets' =
               [numNonRetransmittablePackets EXCEPT ![p] =
                  IF packet.contents # <<>> THEN 0
                  ELSE Min({@, MaxNonRetransmittablePackets}) + 1]
     ELSE /\ ackFrame' = [ackFrame EXCEPT ![p] = ack]
          /\ stopWaiting' = [stopWaiting EXCEPT ![p] = stop]
          /\ UNCHANGED <<ackSent, stopSent, numNonRetransmittablePackets>>

-----------------------------------------------------------------------------
(* What the paths' handlers hand out. *)

\* The counts GetAckFrame may give: 0 for no frame, which the ACK alarm may still ask for.
AckFrames(p) == {0} \cup (IF ackDue[p] THEN {ackBuilt[p] + 1} ELSE {})

TakeAckFrame(p, ack) ==
  /\ ackDue' = [ackDue EXCEPT ![p] = @ /\ ack = 0]
  /\ ackBuilt' = [ackBuilt EXCEPT ![p] = IF ack = 0 THEN @ ELSE ack]

\* GetStopWaitingFrame(force); 0 for no frame.
StopWaitingFrame(p, force) ==
  IF force \/ nextLeastUnacked[p] > largestLeastUnackedSent[p] THEN nextLeastUnacked[p] ELSE 0

TakeStopWaitingFrame(p, stop) ==
  largestLeastUnackedSent' = [largestLeastUnackedSent EXCEPT ![p] = IF stop = 0 THEN @ ELSE stop]

\* QueueControlFrame into the slot, where no frame means no call.
Slot(slot, frame) == IF frame = 0 THEN slot ELSE frame

-----------------------------------------------------------------------------
(***************************************************************************)
(* One round of the session's select up to sendPacket: a packet comes in,  *)
(* the alarm of a path or the ACK in the packet changes what is            *)
(* outstanding, keep-alive PINGs are queued, and the flow controller may   *)
(* have window updates.                                                    *)
(***************************************************************************)
ReceivedPacket(received) ==
  /\ Total(ackBuilt) + Cardinality({p \in Paths : ackDue[p]} \cup received) <= MaxAckFrames
  /\ ackDue' = [p \in Paths |-> ackDue[p] \/ p \in received]

\* Packets of p are acknowledged or taken back as lost; its timeout, or a PATHS frame of
\* the peer, finds the path potentially failed.
AckOrAlarm(p, advance, failing, received) ==
  /\ Total(nextLeastUnacked) + advance <= MaxLeastUnacked
  /\ nextLeastUnacked' = [nextLeastUnacked EXCEPT ![p] = @ + advance]
  /\ potentiallyFailed' =
       [q \in Paths |-> (potentiallyFailed[q] /\ q \notin received) \/ (failing /\ q = p)]

KeepAlivePings == [i \in 1..Cardinality(Paths) |-> "PING"]

StartSending(keepAlive, updates) ==
  /\ updates => unsent < MaxControlFrames
  /\ controlFrames' = controlFrames \o (IF keepAlive THEN KeepAlivePings ELSE <<>>)
                                    \o If(updates, "frame")
  /\ unsent' = unsent + Len(If(updates, "frame"))
  /\ windowUpdateFrames' = updates
  /\ phase' = "send"

Select ==
  /\ phase = "select"
  /\ \E received \in {{}} \cup {{p} : p \in Paths}, p \in Paths, advance \in {0, 1},
        failing, keepAlive, updates \in BOOLEAN :
       /\ keepAlive => Count(controlFrames, "PING") + Cardinality(Paths) <= MaxPings
       /\ ReceivedPacket(received)
       /\ AckOrAlarm(p, advance, failing, received)
       /\ StartSending(keepAlive, updates)
  /\ UNCHANGED <<rest, fromPth, ackFrame, stopWaiting, streamRetransmission, ackBuilt,
                 largestLeastUnackedSent, numNonRetransmittablePackets, ackSent, stopSent>>

-----------------------------------------------------------------------------
(* One round of the loop of sendPacket. *)

\* getRetransmission empties the retransmission queues: their stream frames go to the
\* framer, the others on the list.  from is a path whose queue was not empty.
Retransmissions ==
  {r \in [from : Paths \cup {NoPath}, stream : BOOLEAN,
          list : {<<>>, <<"frame">>, <<"PING">>, <<"frame", "PING">>, <<"PING", "frame">>}] :
     /\ r.from = NoPath => ~r.stream /\ r.list = <<>>
     /\ "frame" \in ToSet(r.list) => unsent < MaxControlFrames
     /\ "PING" \in ToSet(r.list) => Count(controlFrames, "PING") < MaxPings}

\* The initial path is for the handshake: it is not selected when there is another one.
\* Data lost on a path without an RTT sample goes to any other path, failed or not.
Selectable(from, hasStreamRetransmission) ==
  IF Cardinality(Paths) = 1 THEN Paths
  ELSE {p \in Paths \ {InitialPathID} :
          ~potentiallyFailed[p] \/ (from \notin {p, NoPath} /\ hasStreamRetransmission)}

\* Fault: the PING is queued a packet late.
PingIfDueLate(p) == If(numNonRetransmittablePackets[p] > MaxNonRetransmittablePackets, "PING")

\* ShouldSendRetransmittablePacket asks for a PING.
PingIfDue(p) == If(numNonRetransmittablePackets[p] >= MaxNonRetransmittablePackets, "PING")

\* Go on with ackRemainingPaths; the flow controller may have window updates, all the
\* more if the peer is blocked.
AckRemainingPaths ==
  /\ windowUpdateFrames' \in {FALSE, unsent' < MaxControlFrames}
  /\ rest' = Paths
  /\ phase' = "rest"
  /\ fromPth' = NoPath

\* A packet on p: its ACK and STOP_WAITING, CLOSE_PATH, ADD_ADDRESS or PATHS frames of the
\* framer, a PING if one is due, and what PackPacket adds.  Window updates are queued
\* again behind the first packet.  Without a packet the loop ends.
SendOnPath(p) ==
  /\ phase = "send"
  /\ \E r \in Retransmissions, ack \in AckFrames(p), framed \in BOOLEAN :
       LET hasStreamRetransmission == streamRetransmission \/ r.stream
           stop == Slot(stopWaiting[p], IF ack # 0 \/ hasStreamRetransmission
                                        THEN StopWaitingFrame(p, hasStreamRetransmission) ELSE 0)
           list == controlFrames \o r.list \o If(framed, "frame") \o PingIfDue(p)
       IN /\ p \in Selectable(r.from, hasStreamRetransmission)
          /\ framed => unsent < MaxControlFrames
          /\ TakeAckFrame(p, ack)
          /\ TakeStopWaitingFrame(p, stop)
          /\ \E packet \in PackPacket(list, stop, Slot(ackFrame[p], ack), hasStreamRetransmission) :
               /\ Send(p, list, stop, Slot(ackFrame[p], ack), packet,
                       If(packet.packed /\ windowUpdateFrames, "frame"))
               /\ IF packet.packed
                  THEN /\ windowUpdateFrames' = FALSE
                       /\ rest' = {}
                       /\ IF r.from # NoPath /\ potentiallyFailed[r.from]
                          THEN phase' = "ping" /\ fromPth' = r.from
                          ELSE phase' = "send" /\ fromPth' = NoPath
                  ELSE AckRemainingPaths
  /\ UNCHANGED <<potentiallyFailed, nextLeastUnacked>>

\* sendPing on the potentially failed path the retransmission came from.  An error ends
\* the session.
SendPing ==
  /\ phase = "ping"
  /\ LET list == <<"PING">> \o controlFrames IN
     \E packet \in PackPacket(list, stopWaiting[fromPth], ackFrame[fromPth], streamRetransmission) :
       /\ Send(fromPth, list, stopWaiting[fromPth], ackFrame[fromPth], packet, <<>>)
       /\ phase' = IF packet.packed THEN "send" ELSE "error"
  /\ fromPth' = NoPath
  /\ UNCHANGED <<rest, windowUpdateFrames, potentiallyFailed, ackDue, ackBuilt,
                 nextLeastUnacked, largestLeastUnackedSent>>

\* No path is selected: all are potentially failed, or, without a retransmission, their
\* congestion windows are full.
NoPathSelected ==
  /\ phase = "send"
  /\ \E r \in Retransmissions :
       /\ r.from # NoPath => Selectable(r.from, streamRetransmission \/ r.stream) = {}
       /\ controlFrames' = controlFrames \o r.list
       /\ unsent' = unsent + Count(r.list, "frame")
       /\ streamRetransmission' = (streamRetransmission \/ r.stream)
  /\ AckRemainingPaths
  /\ UNCHANGED <<ackFrame, stopWaiting, potentiallyFailed, ackDue, ackBuilt, nextLeastUnacked,
                 largestLeastUnackedSent, numNonRetransmittablePackets, ackSent, stopSent>>

-----------------------------------------------------------------------------
(***************************************************************************)
(* ackRemainingPaths, in any order of the paths: the ACK frames that are   *)
(* due go out on their paths whatever the congestion windows say.  Window  *)
(* updates are queued again for every path.                                *)
(***************************************************************************)
Visited(p) ==
  /\ rest' = rest \ {p}
  /\ phase' = IF rest = {p} THEN "select" ELSE "rest"
  /\ UNCHANGED <<fromPth, windowUpdateFrames, potentiallyFailed, nextLeastUnacked>>

SkipPath(p) ==
  /\ phase = "rest" /\ p \in rest
  /\ ~windowUpdateFrames \/ p = InitialPathID
  /\ controlFrames' = controlFrames \o If(windowUpdateFrames, "frame")
  /\ unsent' = unsent + Len(If(windowUpdateFrames, "frame"))
  /\ Visited(p)
  /\ UNCHANGED <<ackFrame, stopWaiting, streamRetransmission, ackDue, ackBuilt,
                 largestLeastUnackedSent, numNonRetransmittablePackets, ackSent, stopSent>>

\* Fault: the frame goes out without passing through the slot.
AckPathNoSlot(p) ==
  /\ phase = "rest" /\ p \in rest
  /\ \E ack \in AckFrames(p) \ {0} :
       LET stop == StopWaitingFrame(p, FALSE)
           list == controlFrames \o If(windowUpdateFrames, "frame")
       IN /\ TakeAckFrame(p, ack)
          /\ TakeStopWaitingFrame(p, stop)
          /\ ackFrame' = ackFrame
          /\ ackSent' = [ackSent EXCEPT ![p] = ack]
          /\ stopWaiting' = [stopWaiting EXCEPT ![p] = 0]
          /\ stopSent' = [stopSent EXCEPT ![p] = Max({@, stop, stopWaiting[p]})]
          /\ controlFrames' = list
          /\ unsent' = unsent + Len(list) - Len(controlFrames)
          /\ numNonRetransmittablePackets' =
               [numNonRetransmittablePackets EXCEPT ![p] =
                  Min({@, MaxNonRetransmittablePackets}) + 1]
  /\ Visited(p)
  /\ UNCHANGED streamRetransmission

AckPath(p) ==
  /\ phase = "rest" /\ p \in rest
  /\ \E ack \in AckFrames(p) \ {0} :
       LET stop == StopWaitingFrame(p, FALSE)
           list == controlFrames \o If(windowUpdateFrames, "frame")
       IN /\ TakeAckFrame(p, ack)
          /\ TakeStopWaitingFrame(p, stop)
          /\ Send(p, list, Slot(stopWaiting[p], stop), ack, PackAckPacket(list), <<>>)
  /\ Visited(p)

\* No ACK is due: the slot's is dropped, and the window updates make PackPacket find
\* something to send.  If it does not, sendPackedPacket dereferences a nil pointer.
UpdatePath(p) ==
  /\ phase = "rest" /\ p \in rest
  /\ windowUpdateFrames /\ p # InitialPathID
  /\ LET stop == StopWaitingFrame(p, FALSE)
         list == Append(controlFrames, "frame")
     IN /\ TakeStopWaitingFrame(p, stop)
        /\ \E packet \in PackPacket(list, Slot(stopWaiting[p], stop), 0, streamRetransmission) :
             /\ Send(p, list, Slot(stopWaiting[p], stop), 0, packet, <<>>)
             /\ rest' = rest \ {p}
             /\ phase' = IF ~packet.packed THEN "crashed"
                         ELSE IF rest = {p} THEN "select" ELSE "rest"
  /\ UNCHANGED <<fromPth, windowUpdateFrames, potentiallyFailed, ackDue, ackBuilt,
                 nextLeastUnacked>>

Next ==
  \/ Select
  \/ \E p \in Paths : SendOnPath(p) \/ SkipPath(p) \/ AckPath(p) \/ UpdatePath(p)
  \/ SendPing
  \/ NoPathSelected

Spec == Init /\ [][Next]_vars

-----------------------------------------------------------------------------
\* Each control frame that was queued waits in the list or went out in one packet: none
\* is dropped where it did not fit, and none is sent by two packets.
ControlFramesConserved == unsent = Count(controlFrames, "frame")

\* The manager hands a STOP_WAITING frame out once.  The last one taken is in the slot
\* of its path or was sent, through every packet that was not made after all.
StopWaitingKept ==
  \A p \in Paths :
    Max({stopWaiting[p], stopSent[p]}) = largestLeastUnackedSent[p]

\* An ACK frame in the slot is the last one built and has not been sent: a packet never
\* repeats an ACK frame, nor sends one a newer one has overtaken.
AckFrameFresh ==
  \A p \in Paths : ackFrame[p] # 0 => ackFrame[p] = ackBuilt[p] /\ ackFrame[p] > ackSent[p]

\* server_parameters.go:98: the loop sends no packet in a row beyond
\* MaxNonRetransmittablePackets that the peer would not acknowledge.
LoopSendsRetransmittable ==
  [][phase = "send" =>
       \A p \in Paths :
         numNonRetransmittablePackets'[p] > numNonRetransmittablePackets[p]
           => numNonRetransmittablePackets[p] < MaxNonRetransmittablePackets]_vars

\* scheduler.go:404, where there is no packet to send: "Prevent sending empty packets".
NoEmptyPacketSent == phase # "crashed"

=============================================================================

------------------------------ MODULE Streams ------------------------------
(***************************************************************************)
(* The streams a peer opens on a session: streamsMap and the handlers of   *)
(* session.go that look streams up, each stream with the goroutines of the *)
(* application that block in Read and Write, and the flow control manager. *)
(*                                                                         *)
(* The peer keeps to the windows it knows of.  What it has sent arrives in *)
(* any order and more than once; data comes in units, a FIN as a frame of  *)
(* its own behind the last unit (the frame sorter is modelled in           *)
(* StreamFrameSorter).  Window updates get lost, and what counts is the    *)
(* last one.  Deadlines are not modelled.  1..NumStreams are the peer's    *)
(* streams in the order of their numbers; all of them contribute to the    *)
(* connection's windows.                                                   *)
(***************************************************************************)
EXTENDS FlowController, FiniteSets, Functions

CONSTANTS
  NumStreams,
  Readers, Writers,            \* the streams the application reads from, and writes to
  MaxIncomingStreams,
  ReceiveStreamWindow, MaxReceiveStreamWindow,
  ReceiveConnectionWindow, MaxReceiveConnectionWindow,
  SendWindow,                  \* initial window of streams and connection for our data
  MaxSent,                     \* bound: units the peer sends
  MaxWritten                   \* bound: units the application writes to a stream

StreamIDs == 1..NumStreams

ASSUME StreamsAssumption ==
  /\ NumStreams \in Nat \ {0} /\ Readers \cup Writers \subseteq StreamIDs
  /\ {MaxIncomingStreams, ReceiveStreamWindow, MaxReceiveStreamWindow, ReceiveConnectionWindow,
      MaxReceiveConnectionWindow, SendWindow, MaxSent, MaxWritten} \subseteq Nat

VARIABLES
  \* the peer
  peerSent,                    \* units it has sent, by stream
  peerEnd,                     \* "fin" or "rst" once it has ended the stream, else "none"
  peerWindow, peerConnWindow,  \* the windows it knows of
  \* the session
  status,                      \* of each stream: "none", "open" in the map, "gone"
  nextStreamToAccept,
  fc, conn,                    \* flow controllers; that of a stream outlives it as history
  error,                       \* the session is closed with an error of the peer's
  closed,                      \* streamsMap.CloseWithError was called
  \* each stream
  flags,                       \* its atomic booleans that are set
  received,                    \* units and FIN pushed into the frame queue
  readOffset,
  reader, readChan,            \* where Read is; readChan is full
  writer, writeChan,
  dataForWriting,              \* number of units
  bytesSent, sendWindow,       \* of the controllers, by stream and for the connection
  connBytesSent, connSendWindow,
  popping                      \* the framer between looking at a stream and taking its data

peerVars == <<peerSent, peerEnd, peerWindow, peerConnWindow>>
readVars == <<received, readOffset, reader, readChan>>
writeVars == <<writer, writeChan, dataForWriting, bytesSent, sendWindow, connBytesSent,
               connSendWindow, popping>>
vars == <<peerVars, status, nextStreamToAccept, fc, conn, error, closed, flags, readVars, writeVars>>

FIN == MaxSent + 1
NoPop == [stream |-> 0, len |-> 0, max |-> 0]

Init ==
  /\ peerSent = [s \in StreamIDs |-> 0] /\ peerEnd = [s \in StreamIDs |-> "none"]
  /\ peerWindow = [s \in StreamIDs |-> ReceiveStreamWindow]
  /\ peerConnWindow = ReceiveConnectionWindow
  /\ status = [s \in StreamIDs |-> "none"]
  /\ nextStreamToAccept = 1
  /\ fc = [s \in StreamIDs |-> newFlowController(ReceiveStreamWindow, MaxReceiveStreamWindow)]
  /\ conn = newFlowController(ReceiveConnectionWindow, MaxReceiveConnectionWindow)
  /\ error = FALSE /\ closed = FALSE
  /\ flags = [s \in StreamIDs |-> {}]
  /\ received = [s \in StreamIDs |-> {}] /\ readOffset = [s \in StreamIDs |-> 0]
  /\ reader = [s \in StreamIDs |-> "idle"] /\ readChan = [s \in StreamIDs |-> FALSE]
  /\ writer = [s \in StreamIDs |-> "idle"] /\ writeChan = [s \in StreamIDs |-> FALSE]
  /\ dataForWriting = [s \in StreamIDs |-> 0]
  /\ bytesSent = [s \in StreamIDs |-> 0] /\ sendWindow = [s \in StreamIDs |-> SendWindow]
  /\ connBytesSent = 0 /\ connSendWindow = SendWindow
  /\ popping = NoPop

open == {s \in StreamIDs : status[s] = "open"}
accepted(s) == s < nextStreamToAccept
Sum(f) == FoldFunction(+, 0, f)

\* The run loop handles one thing at a time.
RunLoopFree == popping = NoPop /\ ~closed /\ ~error

-----------------------------------------------------------------------------
(* A stream. *)

\* Its err is set.
HasErr(s) == flags[s] \cap {"resetLocally", "resetRemotely", "cancelled"} # {}

finishedWriteAndSentFin(f) == {"finishedWriting", "finSent"} \subseteq f

shouldSendReset(f) ==
  /\ "rstSent" \notin f
  /\ f \cap {"resetLocally", "resetRemotely"} # {}
  /\ ~finishedWriteAndSentFin(f)

\* onReset queues a RST_STREAM frame.
MaybeSendReset(f) == IF shouldSendReset(f) THEN f \cup {"rstSent"} ELSE f

\* Fault: a local reset is enough.
finishedTooEarly(f) ==
  \/ "cancelled" \in f
  \/ "rstSent" \in f
  \/ finishedWriteAndSentFin(f) /\ f \cap {"finishedReading", "resetRemotely"} # {}

finished(f) ==
  \/ "cancelled" \in f
  \/ "finishedReading" \in f /\ (finishedWriteAndSentFin(f) \/ "rstSent" \in f)
  \/ "resetRemotely" \in f /\ (finishedWriteAndSentFin(f) \/ "rstSent" \in f)

\* What Head returns to Read, if anything: a unit, or the FIN behind the last one.
HasHead(s) == readOffset[s] \in received[s] \/ (FIN \in received[s] /\ readOffset[s] = peerSent[s])
HeadIsFin(s) == readOffset[s] \notin received[s]

-----------------------------------------------------------------------------
(* The peer. *)

PeerSend(s) ==
  /\ peerEnd[s] = "none" /\ Sum(peerSent) < MaxSent
  /\ peerSent[s] < peerWindow[s] /\ Sum(peerSent) < peerConnWindow
  /\ peerSent' = [peerSent EXCEPT ![s] = @ + 1]
  /\ UNCHANGED <<peerEnd, peerWindow, peerConnWindow>>

PeerEnds(s) ==
  /\ peerEnd[s] = "none"
  /\ \E end \in {"fin", "rst"} : peerEnd' = [peerEnd EXCEPT ![s] = end]
  /\ UNCHANGED <<peerSent, peerWindow, peerConnWindow>>

PeerLearnsWindow(s) ==
  /\ status[s] = "open"
  /\ peerWindow' = [peerWindow EXCEPT ![s] = fc[s].receiveWindow]
  /\ UNCHANGED <<peerSent, peerEnd, peerConnWindow>>

PeerLearnsConnWindow ==
  /\ peerConnWindow' = conn.receiveWindow
  /\ UNCHANGED <<peerSent, peerEnd, peerWindow>>

Peer ==
  /\ \/ PeerLearnsConnWindow
     \/ \E s \in StreamIDs : PeerSend(s) \/ PeerEnds(s) \/ PeerLearnsWindow(s)
  /\ UNCHANGED <<status, nextStreamToAccept, fc, conn, error, closed, flags, readVars, writeVars>>

-----------------------------------------------------------------------------
(***************************************************************************)
(* Frames.  A stream not seen before is opened with all before it; frames  *)
(* for a stream that is gone are ignored.                                  *)
(***************************************************************************)
New(s) == IF status[s] = "none" THEN {t \in 1..s : status[t] = "none"} ELSE {}

TooManyOpenStreams(s) == Cardinality(open \cup New(s)) > MaxIncomingStreams

GetOrOpenStream(s) == status' = [t \in StreamIDs |-> IF t \in New(s) THEN "open" ELSE status[t]]

\* Fault: the connection's controller counts every frame in full.
ReceiveOffsetTwice(s, byteOffset) ==
  /\ fc' = [fc EXCEPT ![s] = UpdateHighestReceived(@, byteOffset)]
  /\ conn' = IncrementHighestReceived(conn, byteOffset)
  /\ error' = (CheckFlowControlViolation(fc'[s]) \/ CheckFlowControlViolation(conn'))

\* UpdateHighestReceived of the manager, and its ResetStream.
ReceiveOffset(s, byteOffset) ==
  /\ fc' = [fc EXCEPT ![s] = UpdateHighestReceived(@, byteOffset)]
  /\ conn' = IncrementHighestReceived(conn, Increment(fc[s], byteOffset))
  /\ error' = (CheckFlowControlViolation(fc'[s]) \/ CheckFlowControlViolation(conn'))

\* Fault: only what can be read next wakes the reader up.
AddStreamFrameInOrder(s, unit, byteOffset) ==
  /\ ReceiveOffset(s, byteOffset)
  /\ received' = [received EXCEPT ![s] = IF error' THEN @ ELSE @ \cup {unit}]
  /\ readChan' = [readChan EXCEPT ![s] = @ \/ unit = readOffset[s]]

AddStreamFrame(s, unit, byteOffset) ==
  /\ ReceiveOffset(s, byteOffset)
  /\ received' = [received EXCEPT ![s] = IF error' THEN @ ELSE @ \cup {unit}]
  /\ readChan' = [readChan EXCEPT ![s] = @ \/ ~error']

StreamFrame(s) ==
  /\ RunLoopFree /\ status[s] # "gone"
  /\ IF TooManyOpenStreams(s)
     THEN error' = TRUE /\ UNCHANGED <<status, fc, conn, received, readChan>>
     ELSE /\ GetOrOpenStream(s)
          /\ \/ \E unit \in 0..peerSent[s] - 1 : AddStreamFrame(s, unit, unit + 1)
             \/ peerEnd[s] = "fin" /\ AddStreamFrame(s, FIN, peerSent[s])
  /\ UNCHANGED <<peerVars, nextStreamToAccept, closed, flags, readOffset, reader, writeVars>>

\* Write is woken up, Read goes on with what has arrived.
RegisterRemoteError(s) ==
  /\ flags' = [flags EXCEPT ![s] = IF "resetRemotely" \in @ THEN @
                                   ELSE MaybeSendReset(@ \cup {"resetRemotely"})]
  /\ writeChan' = [writeChan EXCEPT ![s] = @ \/ ~HasErr(s)]

\* The final offset, which may not be behind data received already.
ResetStream(s, byteOffset) ==
  IF byteOffset < fc[s].highestReceived
  THEN error' = TRUE /\ UNCHANGED <<fc, conn>>    \* StreamDataAfterTermination
  ELSE ReceiveOffset(s, byteOffset)

RstStreamFrame(s) ==
  /\ RunLoopFree /\ status[s] # "gone" /\ peerEnd[s] = "rst"
  /\ IF TooManyOpenStreams(s)
     THEN error' = TRUE /\ UNCHANGED <<status, flags, writeChan, fc, conn>>
     ELSE GetOrOpenStream(s) /\ RegisterRemoteError(s) /\ ResetStream(s, peerSent[s])
  /\ UNCHANGED <<peerVars, nextStreamToAccept, closed, readVars, writer, dataForWriting,
                 bytesSent, sendWindow, connBytesSent, connSendWindow, popping>>

\* The peer's window updates for our data, for stream s and the connection; it sends them
\* as it likes.
WindowUpdateFrame(s) ==
  /\ RunLoopFree /\ s \in open \cap Writers
  /\ \/ /\ sendWindow[s] < MaxWritten
        /\ sendWindow' = [sendWindow EXCEPT ![s] = @ + 1] /\ UNCHANGED connSendWindow
     \/ /\ connSendWindow < MaxWritten
        /\ connSendWindow' = connSendWindow + 1 /\ UNCHANGED sendWindow
  /\ UNCHANGED <<peerVars, status, nextStreamToAccept, fc, conn, error, closed, flags, readVars,
                 writer, writeChan, dataForWriting, bytesSent, connBytesSent, popping>>

-----------------------------------------------------------------------------
(***************************************************************************)
(* The run loop's own work: window updates (for all streams when the peer  *)
(* is blocked), data and FIN of the streams the application writes to, and *)
(* the collection of finished streams.                                     *)
(***************************************************************************)
GetWindowUpdates ==
  /\ RunLoopFree
  /\ \E fast \in SUBSET {s \in open : NeedsUpdate(fc[s])}, connFast, force \in BOOLEAN :
       LET updated == [s \in StreamIDs |->
             IF s \in open THEN MaybeUpdateWindow(fc[s], s \in fast) ELSE fc[s]]
           growing == {s \in open :
             \/ updated[s].receiveWindowIncrement # fc[s].receiveWindowIncrement
             \/ force /\ ~NeedsUpdate(fc[s])}
           grown == FoldFunctionOnSet(LAMBDA c, acc : EnsureMinimumWindowIncrement(acc, c.receiveWindowIncrement),
                                      conn, updated, growing)
       IN /\ fc' = updated
          /\ conn' = MaybeUpdateWindow(grown, connFast)
  /\ UNCHANGED <<peerVars, status, nextStreamToAccept, error, closed, flags, readVars, writeVars>>

\* maybePopNormalFrames looks how much stream s has, and how much of it the windows allow.
PopCheck(s) ==
  /\ RunLoopFree /\ s \in open \cap Writers
  /\ LET len == IF HasErr(s) THEN 0 ELSE dataForWriting[s]
         window == Least(SendWindowSize(sendWindow[s], bytesSent[s]),
                         SendWindowSize(connSendWindow, connBytesSent))
     IN /\ len # 0 => window # 0
        /\ popping' = [stream |-> s, len |-> len, max |-> IF len # 0 THEN window ELSE MaxWritten]
  /\ UNCHANGED <<peerVars, status, nextStreamToAccept, fc, conn, error, closed, flags, readVars,
                 writer, writeChan, dataForWriting, bytesSent, sendWindow, connBytesSent,
                 connSendWindow>>

\* Fault: what the application has written since is taken too.
TakenUnchecked(s) == IF HasErr(s) THEN 0 ELSE Least(dataForWriting[s], popping.max)

\* getDataForWriting, if there was data before; the application may have reset the stream
\* or written to it since.
Taken(s) ==
  IF popping.len = 0 \/ HasErr(s) THEN 0 ELSE Least(dataForWriting[s], popping.max)

\* getDataForWriting wakes Write up when all is gone.
SignalWrite(s, taken) == writeChan[s] \/ (taken > 0 /\ taken = dataForWriting[s])

\* The frame is smaller than the windows if the packet is full.  The FIN follows the last
\* data.
PopTake(s) ==
  /\ popping.stream = s
  /\ \E taken \in {Taken(s)} \cup (1..Taken(s)) :
       /\ dataForWriting' = [dataForWriting EXCEPT ![s] = @ - taken]
       /\ writeChan' = [writeChan EXCEPT ![s] = SignalWrite(s, taken)]
       /\ bytesSent' = [bytesSent EXCEPT ![s] = @ + taken]
       /\ connBytesSent' = connBytesSent + taken
       /\ flags' = [flags EXCEPT ![s] =
            IF "finishedWriting" \in @ /\ ~HasErr(s) /\ dataForWriting'[s] = 0
            THEN @ \cup {"finSent"} ELSE @]
  /\ popping' = NoPop
  /\ UNCHANGED <<peerVars, status, nextStreamToAccept, fc, conn, error, closed, readVars, writer,
                 sendWindow, connSendWindow>>

\* The stream leaves the map and flow control; the application may still hold it.
RemoveStreams(ids) == status' = [s \in StreamIDs |-> IF s \in ids THEN "gone" ELSE status[s]]

garbageCollectStreams ==
  /\ RunLoopFree
  /\ RemoveStreams({s \in open : finished(flags[s])})
  /\ UNCHANGED <<peerVars, nextStreamToAccept, fc, conn, error, closed, flags, readVars, writeVars>>

\* streamsMap.CloseWithError: Cancel for the streams in the map.
CloseWithError ==
  /\ ~closed /\ popping = NoPop
  /\ closed' = TRUE
  /\ flags' = [s \in StreamIDs |-> IF s \in open THEN flags[s] \cup {"cancelled"} ELSE flags[s]]
  /\ readChan' = [s \in StreamIDs |-> readChan[s] \/ (s \in open /\ ~HasErr(s))]
  /\ writeChan' = [s \in StreamIDs |-> writeChan[s] \/ (s \in open /\ ~HasErr(s))]
  /\ UNCHANGED <<peerVars, status, nextStreamToAccept, fc, conn, error, received, readOffset,
                 reader, writer, dataForWriting, bytesSent, sendWindow, connBytesSent,
                 connSendWindow, popping>>

-----------------------------------------------------------------------------
(* The application. *)

AcceptStream ==
  /\ ~closed /\ nextStreamToAccept \in open
  /\ nextStreamToAccept' = nextStreamToAccept + 1
  /\ UNCHANGED <<peerVars, status, fc, conn, error, closed, flags, readVars, writeVars>>

\* Read up to where it has a frame, or waits on readChan without the mutex.
Read(s) ==
  /\ accepted(s) /\ s \in Readers
  /\ \/ reader[s] = "idle" /\ "finishedReading" \notin flags[s] /\ UNCHANGED readChan
     \/ reader[s] = "wait" /\ readChan[s] /\ readChan' = [readChan EXCEPT ![s] = FALSE]
  /\ reader' = [reader EXCEPT ![s] = CASE flags[s] \cap {"resetLocally", "cancelled"} # {} -> "idle"
                                       [] HasHead(s) -> "frame"
                                       [] OTHER -> "wait"]
  /\ UNCHANGED <<peerVars, status, nextStreamToAccept, fc, conn, error, closed, flags, received,
                 readOffset, writeVars>>

\* AddBytesRead of the manager: not for a stream that is gone, nor one the peer has reset.
CountRead(s) ==
  IF s \in open /\ "resetRemotely" \notin flags[s]
  THEN fc' = [fc EXCEPT ![s] = AddBytesRead(@, 1)] /\ conn' = AddBytesRead(conn, 1)
  ELSE UNCHANGED <<fc, conn>>

\* The rest of Read, without the mutex but for Pop.
ReadFrame(s) ==
  /\ reader[s] = "frame"
  /\ reader' = [reader EXCEPT ![s] = "idle"]
  /\ IF HeadIsFin(s)
     THEN /\ flags' = [flags EXCEPT ![s] = @ \cup {"finishedReading"}]
          /\ UNCHANGED <<readOffset, fc, conn>>
     ELSE /\ readOffset' = [readOffset EXCEPT ![s] = @ + 1]
          /\ CountRead(s)
          /\ UNCHANGED flags
  /\ UNCHANGED <<peerVars, status, nextStreamToAccept, error, closed, received, readChan, writeVars>>

\* Write until it waits on writeChan without the mutex.
Write(s) ==
  /\ accepted(s) /\ s \in Writers
  /\ writer[s] = "idle" /\ ~HasErr(s) /\ "finishedWriting" \notin flags[s]
  /\ \E n \in 1..MaxWritten : /\ bytesSent[s] + n <= MaxWritten
                              /\ dataForWriting' = [dataForWriting EXCEPT ![s] = n]
  /\ writer' = [writer EXCEPT ![s] = "wait"]
  /\ UNCHANGED <<peerVars, status, nextStreamToAccept, fc, conn, error, closed, flags, readVars,
                 writeChan, bytesSent, sendWindow, connBytesSent, connSendWindow, popping>>

WriteWakes(s) ==
  /\ writer[s] = "wait" /\ writeChan[s]
  /\ writeChan' = [writeChan EXCEPT ![s] = FALSE]
  /\ writer' = [writer EXCEPT ![s] = IF dataForWriting[s] = 0 \/ HasErr(s) THEN "idle" ELSE "wait"]
  /\ UNCHANGED <<peerVars, status, nextStreamToAccept, fc, conn, error, closed, flags, readVars,
                 dataForWriting, bytesSent, sendWindow, connBytesSent, connSendWindow, popping>>

\* Close, also while a Write is blocked.
Close(s) ==
  /\ accepted(s) /\ s \in Writers
  /\ flags' = [flags EXCEPT ![s] = @ \cup {"finishedWriting"}]
  /\ UNCHANGED <<peerVars, status, nextStreamToAccept, fc, conn, error, closed, readVars, writeVars>>

Reset(s) ==
  /\ accepted(s) /\ "resetLocally" \notin flags[s]
  /\ flags' = [flags EXCEPT ![s] = MaybeSendReset(@ \cup {"resetLocally"})]
  /\ readChan' = [readChan EXCEPT ![s] = @ \/ ~HasErr(s)]
  /\ writeChan' = [writeChan EXCEPT ![s] = @ \/ ~HasErr(s)]
  /\ UNCHANGED <<peerVars, status, nextStreamToAccept, fc, conn, error, closed, received,
                 readOffset, reader, writer, dataForWriting, bytesSent, sendWindow,
                 connBytesSent, connSendWindow, popping>>

Next ==
  \/ Peer
  \/ GetWindowUpdates \/ garbageCollectStreams \/ CloseWithError \/ AcceptStream
  \/ \E s \in StreamIDs :
       \/ StreamFrame(s) \/ RstStreamFrame(s) \/ WindowUpdateFrame(s)
       \/ PopCheck(s) \/ PopTake(s)
       \/ Read(s) \/ ReadFrame(s) \/ Write(s) \/ WriteWakes(s) \/ Close(s) \/ Reset(s)

Spec == Init /\ [][Next]_vars

-----------------------------------------------------------------------------
(* What holds. *)

\* The type invariant: controllers are sane, no more is read than was received, and a
\* collected stream has been seen to end.
TypeOK ==
  /\ peerSent \in [StreamIDs -> 0..MaxSent] /\ peerEnd \in [StreamIDs -> {"none", "fin", "rst"}]
  /\ status \in [StreamIDs -> {"none", "open", "gone"}]
  /\ nextStreamToAccept \in 1..NumStreams + 1
  /\ fc \in [StreamIDs -> FlowControllers] /\ conn \in FlowControllers
  /\ error \in BOOLEAN /\ closed \in BOOLEAN
  /\ reader \in [StreamIDs -> {"idle", "wait", "frame"}] /\ writer \in [StreamIDs -> {"idle", "wait"}]
  /\ readChan \in [StreamIDs -> BOOLEAN] /\ writeChan \in [StreamIDs -> BOOLEAN]
  /\ \A s \in StreamIDs :
       /\ status[s] = "gone" => "cancelled" \in flags[s] \/ flags[s] \cap {"finishedReading", "resetRemotely"} # {}
       /\ FIN \in received[s] => peerEnd[s] = "fin"
       /\ 0..readOffset[s] - 1 \subseteq received[s]
       /\ dataForWriting[s] \in 0..MaxWritten /\ bytesSent[s] \in 0..MaxWritten
  /\ popping.stream \in {0} \cup Writers

\* Neither end exceeds a window: what a peer that keeps to the windows it was told sends,
\* however late and in whatever order it comes, never closes the session, and what the
\* framer takes from a stream fits the peer's windows whatever Write does meanwhile.
WindowsRespected ==
  /\ ~error
  /\ \A s \in Writers : bytesSent[s] <= sendWindow[s]
  /\ connBytesSent <= connSendWindow

\* Every byte that counts against the connection's window is still to be read on some
\* stream, or belongs to a stream the peer has reset.  Only resets use the window up for
\* good.
CreditAccounted ==
  LET unread == [s \in StreamIDs |-> fc[s].highestReceived -
                   (IF "resetRemotely" \in flags[s] THEN fc[s].bytesRead ELSE readOffset[s])]
  IN conn.highestReceived - conn.bytesRead = Sum(unread)

\* A blocked Read or Write has a token waiting for it once there is a reason to return.
\* Read alone is not woken after a reset by the peer: no error set later, by Reset or the
\* end of the session, gets it going again.
NoLostWakeup ==
  \A s \in StreamIDs :
    /\ reader[s] = "wait" /\ ~readChan[s] =>
         /\ ~HasHead(s)
         /\ flags[s] \cap {"resetLocally", "cancelled"} # {} => "resetRemotely" \in flags[s]
    /\ writer[s] = "wait" /\ ~writeChan[s] => dataForWriting[s] # 0 /\ ~HasErr(s)
=============================================================================

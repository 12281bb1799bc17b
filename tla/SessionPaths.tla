---------------------------- MODULE SessionPaths ----------------------------
(***************************************************************************)
(* The goroutines of one multipath session: the run loop of session.go,    *)
(* the goroutine of every path (path.run) and the path manager             *)
(* (pathManager.run), with the channels between them and the locks they    *)
(* share.  What a packet carries is kept only as far as it touches these;  *)
(* what is sent on which path is open, as a retransmission may go to any   *)
(* path the session has, closed ones included.                             *)
(*                                                                         *)
(* Paths exist once created.  Their channels have capacity one: closeChan  *)
(* and sentPacket hold the paths whose channel is full.  A path is open    *)
(* until its goroutine sets the flag back, and its runClosed is full when  *)
(* the goroutine is done.                                                  *)
(*                                                                         *)
(* Locks are those of Go.  pathsLock is held over several steps only by    *)
(* readers, and only by the run loop; a writer that has called Lock keeps  *)
(* new readers out.  pconnMgr.mutex is held by the path manager while it   *)
(* creates paths.  Critical sections without a blocking call are one step. *)
(***************************************************************************)
EXTENDS Integers, FiniteSets

CONSTANTS
  Paths,
  InitialPathID,
  NoPath,
  MaxBurst          \* bound: packets of one turn of the run loop, before ackRemainingPaths

ASSUME PathsAssumption ==
  /\ IsFiniteSet(Paths) /\ InitialPathID \in Paths /\ NoPath \notin Paths
  /\ MaxBurst \in Nat

VARIABLES
  perspective,      \* "client" or "server"
  handshake,        \* handshakeComplete
  closeRequest,     \* what the session's closeChan was given first, or "none"
  rl, rlPath,       \* where the run loop is, and the path of its blocking call
  burst,            \* packets sent in this turn
  rest,             \* paths it has still to visit
  closedPaths,
  pm,               \* where the path manager is
  launched,         \* handshakeCompleted was sent to the path manager
  runClosed,        \* runClosed of the path manager was sent
  pth,              \* where the goroutine of each path is, "none" without one
  closeChan, sentPacket,
  late              \* history: paths created after closePaths began to wait

sessionVars == <<perspective, handshake, closeRequest, rl, rlPath, burst, rest, closedPaths>>
allVars == <<sessionVars, pm, launched, runClosed, pth, closeChan, sentPacket, late>>

SessionInit ==
  /\ perspective \in {"client", "server"}
  /\ handshake = FALSE
  /\ closeRequest = "none"
  /\ rl = "top" /\ rlPath = NoPath
  /\ burst = 0
  /\ rest = {}
  /\ closedPaths = {}
  /\ pm = "handshake"
  /\ launched = FALSE /\ runClosed = FALSE
  /\ pth = [p \in Paths |-> IF p = InitialPathID THEN "top" ELSE "none"]
  /\ closeChan = {} /\ sentPacket = {}
  /\ late = {}

created == {p \in Paths : pth[p] # "none"}
open == {p \in Paths : pth[p] \in {"top", "wait", "timer", "closing"}}
listening == {p \in Paths : pth[p] \in {"top", "wait", "timer"}}

-----------------------------------------------------------------------------
(* The locks. *)

\* The run loop reads the map of paths: in session.closePath, once more in the path
\* manager's closePath, and in ackRemainingPaths.
ReadLocked == rl \in {"closeInner", "closePush", "ack", "ackPush"}

\* RLock returns: no writer waits or writes.
CanRLock == pm # "lock"

\* pconnMgr.mutex
MutexFree == pm \notin {"create", "lock"}

-----------------------------------------------------------------------------
(* What several of them do. *)

\* Fault: closePaths of the path manager thinks of the initial path only.
ClosePathsInitialOnly == closeChan' = closeChan \cup (open \cap {InitialPathID})

\* pathManager.closePaths: never blocks.
ClosePaths == closeChan' = closeChan \cup open

\* closeLocal and closeRemote: the first one counts.
CloseOnce(kind) == closeRequest' = IF closeRequest = "none" THEN kind ELSE closeRequest

\* path.setup and its goroutine, for all of new; ping says whether sendPing put a token
\* into sentPacket or failed before.
Launch(new, ping) ==
  /\ pth' = [p \in Paths |-> IF p \in new THEN "top" ELSE pth[p]]
  /\ sentPacket' = IF ping THEN sentPacket \cup new ELSE sentPacket

-----------------------------------------------------------------------------
(***************************************************************************)
(* The goroutine of path p.  Its timer may fire whenever it waits.         *)
(***************************************************************************)
PathTop(p) ==
  /\ pth[p] = "top"
  /\ p \notin closeChan
  /\ pth' = [pth EXCEPT ![p] = "wait"]
  /\ UNCHANGED <<closeChan, sentPacket>>

PathTakesClose(p) ==
  /\ p \in listening /\ p \in closeChan
  /\ pth' = [pth EXCEPT ![p] = "closing"]
  /\ closeChan' = closeChan \ {p}
  /\ UNCHANGED sentPacket

PathTimerFires(p) ==
  /\ pth[p] = "wait"
  /\ pth' = [pth EXCEPT ![p] = "timer"]
  /\ UNCHANGED <<closeChan, sentPacket>>

\* Fault: nothing but closeChan and the run loop gets the path out of its timer.
PathTakesSentPacketWaiting(p) ==
  /\ pth[p] = "wait" /\ p \in sentPacket
  /\ pth' = [pth EXCEPT ![p] = "top"]
  /\ sentPacket' = sentPacket \ {p}
  /\ UNCHANGED closeChan

PathTakesSentPacket(p) ==
  /\ pth[p] \in {"wait", "timer"} /\ p \in sentPacket
  /\ pth' = [pth EXCEPT ![p] = "top"]
  /\ sentPacket' = sentPacket \ {p}
  /\ UNCHANGED closeChan

\* path.close, and the token that session.closePaths waits for
PathEnds(p) ==
  /\ pth[p] = "closing"
  /\ pth' = [pth EXCEPT ![p] = "done"]
  /\ UNCHANGED <<closeChan, sentPacket>>

PathRun(p) ==
  /\ \/ PathTop(p) \/ PathTakesClose(p) \/ PathTimerFires(p)
     \/ PathTakesSentPacket(p) \/ PathEnds(p)
  /\ UNCHANGED <<sessionVars, pm, launched, runClosed, late>>

-----------------------------------------------------------------------------
(***************************************************************************)
(* The path manager.  createPaths holds pconnMgr.mutex while it takes      *)
(* pathsLock for every pair of addresses; the server only advertises its   *)
(* addresses.  changePaths is filled by the pconn manager at any time.     *)
(***************************************************************************)
PmHandshake ==
  /\ pm = "handshake" /\ launched
  /\ pm' = IF perspective = "client" THEN "create" ELSE "loop"
  /\ UNCHANGED <<rest, pth, closeChan, sentPacket, late>>

PmChangePaths ==
  /\ pm = "loop"
  /\ pm' = IF perspective = "client" THEN "create" ELSE "loop"
  /\ UNCHANGED <<rest, pth, closeChan, sentPacket, late>>

\* createPath for the next pair of addresses
PmLock ==
  /\ pm = "create"
  /\ pm' = "lock"
  /\ UNCHANGED <<rest, pth, closeChan, sentPacket, late>>

\* The path may exist.  A new one is pinged; an error ends createPaths and, the first
\* time, the path manager.  closePaths of the session, ranging over the map, may or may
\* not come to see the path.
PmCreatePath ==
  /\ pm = "lock" /\ ~ReadLocked
  /\ \E new \in {{}} \cup {{p} : p \in Paths \ created}, ping, seen \in BOOLEAN :
       /\ Launch(new, ping)
       /\ pm' \in IF ping \/ new = {} THEN {"create"} ELSE {"loop", "failed"}
       /\ rest' = IF rl = "wait" /\ seen THEN rest \cup new ELSE rest
       /\ late' = IF rl = "wait" THEN late \cup new ELSE late
  /\ UNCHANGED closeChan

\* createPaths is through with the addresses: schedulePathsFrame
PmCreated ==
  /\ pm = "create"
  /\ pm' = "loop"
  /\ UNCHANGED <<rest, pth, closeChan, sentPacket, late>>

PmFailed ==
  /\ pm = "failed"
  /\ ClosePaths
  /\ pm' = "done"
  /\ UNCHANGED <<rest, pth, sentPacket, late>>

\* runClosed is received, before the handshake or in the loop.
PmStop ==
  /\ pm \in {"handshake", "loop"} /\ runClosed
  /\ IF pm = "loop" THEN ClosePaths ELSE UNCHANGED closeChan
  /\ pm' = "done"
  /\ UNCHANGED <<rest, pth, sentPacket, late>>

PathManager ==
  /\ \/ PmHandshake \/ PmChangePaths \/ PmLock \/ PmCreatePath \/ PmCreated \/ PmFailed \/ PmStop
  /\ UNCHANGED <<perspective, handshake, closeRequest, rl, rlPath, burst, closedPaths,
                 launched, runClosed>>

-----------------------------------------------------------------------------
(* The run loop of the session up to sendPacket. *)

\* A close request at the top of the loop: the paths are told, the path manager is not.
TakeCloseAtTop ==
  /\ rl = "top" /\ closeRequest # "none" /\ CanRLock
  /\ closeChan' = closeChan \cup created
  /\ rl' = "exit"
  /\ UNCHANGED <<perspective, handshake, closeRequest, rlPath, burst, rest, closedPaths,
                 launched, runClosed, pth, sentPacket>>

ToSelect ==
  /\ rl = "top" /\ closeRequest = "none"
  /\ rl' = "select"
  /\ UNCHANGED <<perspective, handshake, closeRequest, rlPath, burst, rest, closedPaths,
                 launched, runClosed, pth, closeChan, sentPacket>>

TakeCloseInSelect ==
  /\ rl = "select" /\ closeRequest # "none" /\ CanRLock
  /\ ClosePaths
  /\ runClosed' = TRUE
  /\ rl' = "exit"
  /\ UNCHANGED <<perspective, handshake, closeRequest, rlPath, burst, rest, closedPaths,
                 launched, pth, sentPacket>>

\* The session's timer, sendingScheduled, a packet without consequences here or on a
\* closed path; or the handshake completes.
SelectTurn ==
  /\ rl = "select"
  /\ handshake' \in {handshake, TRUE}
  /\ rl' = "turn"
  /\ UNCHANGED <<perspective, closeRequest, rlPath, burst, rest, closedPaths, launched,
                 runClosed, pth, closeChan, sentPacket>>

\* The timer of path p is received; OnAlarm may mark it potentially failed.
PathTimer(p) ==
  /\ rl = "select" /\ pth[p] = "timer"
  /\ pth' = [pth EXCEPT ![p] = "top"]
  /\ rl' = "turn"
  /\ UNCHANGED <<perspective, handshake, closeRequest, rlPath, burst, rest, closedPaths,
                 launched, runClosed, closeChan, sentPacket>>

\* A packet that cannot be decrypted is queued, or one that is an error closes the session.
BadPacket ==
  /\ rl = "select"
  /\ \E error \in BOOLEAN :
       IF error THEN CloseOnce("error") ELSE UNCHANGED closeRequest
  /\ rl' = "top"
  /\ UNCHANGED <<perspective, handshake, rlPath, burst, rest, closedPaths, launched,
                 runClosed, pth, closeChan, sentPacket>>

\* The first packet on a path the client created.
CreatePathFromRemote(p) ==
  /\ rl = "select" /\ perspective = "server" /\ p \notin created
  /\ Launch({p}, FALSE)
  /\ rl' = "turn"
  /\ UNCHANGED <<perspective, handshake, closeRequest, rlPath, burst, rest, closedPaths,
                 launched, runClosed, closeChan>>

ConnectionClose ==
  /\ rl = "select"
  /\ CloseOnce("error")
  /\ rl' = "turn"
  /\ UNCHANGED <<perspective, handshake, rlPath, burst, rest, closedPaths, launched,
                 runClosed, pth, closeChan, sentPacket>>

\* ADD_ADDRESS: createPaths by the run loop, then schedulePathsFrame.  An error closes
\* the session; the last path created is then without its PING.
AddAddress ==
  /\ rl = "select" /\ MutexFree
  /\ \E new \in SUBSET (Paths \ created), unpinged \in SUBSET Paths :
       /\ perspective = "server" => new = {}
       /\ unpinged \subseteq new /\ Cardinality(unpinged) <= 1
       /\ pth' = [p \in Paths |-> IF p \in new THEN "top" ELSE pth[p]]
       /\ sentPacket' = sentPacket \cup (new \ unpinged)
       /\ IF unpinged = {}
          THEN rl' = "turn" /\ UNCHANGED closeRequest
          ELSE rl' = "top" /\ CloseOnce("error")
  /\ UNCHANGED <<perspective, handshake, rlPath, burst, rest, closedPaths, launched,
                 runClosed, closeChan>>

\* CLOSE_PATH for p: session.closePath takes pathsLock.
ClosePathFrame(p) ==
  /\ rl = "select"
  /\ rl' = "closeOuter" /\ rlPath' = p
  /\ UNCHANGED <<perspective, handshake, closeRequest, burst, rest, closedPaths, launched,
                 runClosed, pth, closeChan, sentPacket>>

\* Fault: nobody asks whether the path was closed before.
CloseOuterAgain ==
  /\ rl = "closeOuter" /\ CanRLock
  /\ IF rlPath \notin created
     THEN rl' = "turn" /\ rlPath' = NoPath
     ELSE rl' = "closeInner" /\ UNCHANGED rlPath
  /\ UNCHANGED <<perspective, handshake, closeRequest, burst, rest, closedPaths, launched,
                 runClosed, pth, closeChan, sentPacket>>

\* Fault: a path nobody knows is entered as closed.
CloseOuterUnknown ==
  /\ rl = "closeOuter" /\ CanRLock
  /\ IF rlPath \notin created \/ rlPath \in closedPaths
     THEN rl' = "turn" /\ rlPath' = NoPath /\ closedPaths' = closedPaths \cup {rlPath}
     ELSE rl' = "closeInner" /\ UNCHANGED <<rlPath, closedPaths>>
  /\ UNCHANGED <<perspective, handshake, closeRequest, burst, rest, launched, runClosed,
                 pth, closeChan, sentPacket>>

\* An unknown path is an error nobody looks at.
CloseOuter ==
  /\ rl = "closeOuter" /\ CanRLock
  /\ IF rlPath \notin created \/ rlPath \in closedPaths
     THEN rl' = "turn" /\ rlPath' = NoPath
     ELSE rl' = "closeInner" /\ UNCHANGED rlPath
  /\ UNCHANGED <<perspective, handshake, closeRequest, burst, rest, closedPaths, launched,
                 runClosed, pth, closeChan, sentPacket>>

\* The path manager's closePath takes pathsLock again.
CloseInner ==
  /\ rl = "closeInner" /\ CanRLock
  /\ IF rlPath \in open
     THEN rl' = "closePush" /\ UNCHANGED <<closedPaths, rlPath>>
     ELSE rl' = "turn" /\ closedPaths' = closedPaths \cup {rlPath} /\ rlPath' = NoPath
  /\ UNCHANGED <<perspective, handshake, closeRequest, burst, rest, launched, runClosed,
                 pth, closeChan, sentPacket>>

ClosePush ==
  /\ rl = "closePush" /\ rlPath \notin closeChan
  /\ closeChan' = closeChan \cup {rlPath}
  /\ closedPaths' = closedPaths \cup {rlPath}
  /\ rl' = "turn" /\ rlPath' = NoPath
  /\ UNCHANGED <<perspective, handshake, closeRequest, burst, rest, launched, runClosed,
                 pth, sentPacket>>

-----------------------------------------------------------------------------
(***************************************************************************)
(* After the select: the path manager is told of the handshake once, then  *)
(* sendPacket fills the paths' congestion windows.  Every packet sent puts *)
(* a token into its path's sentPacket and waits while that is full.        *)
(***************************************************************************)
Turn ==
  /\ rl = "turn" /\ CanRLock
  /\ launched' = (launched \/ handshake)
  /\ burst' = 0
  /\ rl' = "send"
  /\ UNCHANGED <<perspective, handshake, closeRequest, rlPath, rest, closedPaths, runClosed,
                 pth, closeChan, sentPacket>>

\* A packet with data on an open path, a retransmission or a PING on any.
SelectPath(p) ==
  /\ rl = "send" /\ burst < MaxBurst /\ p \in created
  /\ burst' = burst + 1
  /\ rl' = "push" /\ rlPath' = p
  /\ UNCHANGED <<perspective, handshake, closeRequest, rest, closedPaths, launched,
                 runClosed, pth, closeChan, sentPacket>>

Push ==
  /\ rl \in {"push", "ackPush"} /\ rlPath \notin sentPacket
  /\ sentPacket' = sentPacket \cup {rlPath}
  /\ rl' = IF rl = "push" THEN "send" ELSE "ack"
  /\ rlPath' = NoPath
  /\ UNCHANGED <<perspective, handshake, closeRequest, burst, rest, closedPaths, launched,
                 runClosed, pth, closeChan>>

\* ackRemainingPaths: window updates go out on every path but the initial one, an ACK on
\* any path that has one; the path need not be open.
AckRemainingPaths ==
  /\ rl = "send" /\ CanRLock
  /\ rest' \in SUBSET created
  /\ rl' = "ack"
  /\ UNCHANGED <<perspective, handshake, closeRequest, rlPath, burst, closedPaths, launched,
                 runClosed, pth, closeChan, sentPacket>>

AckPath(p) ==
  /\ rl = "ack" /\ p \in rest
  /\ rest' = rest \ {p}
  /\ rl' = "ackPush" /\ rlPath' = p
  /\ UNCHANGED <<perspective, handshake, closeRequest, burst, closedPaths, launched,
                 runClosed, pth, closeChan, sentPacket>>

\* sendPacket is done, or fails anywhere and closes the session; so do the timeouts.
EndTurn ==
  /\ \/ rl = "ack" /\ rest = {} /\ UNCHANGED closeRequest
     \/ rl \in {"send", "ack"} /\ CloseOnce("error")
  /\ rl' = "top"
  /\ rest' = {} /\ burst' = 0
  /\ UNCHANGED <<perspective, handshake, rlPath, closedPaths, launched, runClosed, pth,
                 closeChan, sentPacket>>

-----------------------------------------------------------------------------
(***************************************************************************)
(* handleCloseError: a session that is replaced by one of another version  *)
(* leaves its paths alone; any other tells the paths once more and waits   *)
(* for the goroutine of each.                                              *)
(***************************************************************************)
CloseSession ==
  /\ rl = "exit"
  /\ IF closeRequest = "newVersion"
     THEN rl' = "done" /\ UNCHANGED <<rest, closeChan>>
     ELSE /\ CanRLock
          /\ ClosePaths
          /\ rest' = created
          /\ rl' = "wait"
  /\ UNCHANGED <<perspective, handshake, closeRequest, rlPath, burst, closedPaths, launched,
                 runClosed, pth, sentPacket>>

WaitForPath(p) ==
  /\ rl = "wait" /\ p \in rest /\ pth[p] = "done"
  /\ rest' = rest \ {p}
  /\ UNCHANGED <<perspective, handshake, closeRequest, rl, rlPath, burst, closedPaths,
                 launched, runClosed, pth, closeChan, sentPacket>>

SessionDone ==
  /\ rl = "wait" /\ rest = {}
  /\ rl' = "done"
  /\ UNCHANGED <<perspective, handshake, closeRequest, rlPath, burst, rest, closedPaths,
                 launched, runClosed, pth, closeChan, sentPacket>>

RunLoop ==
  /\ \/ TakeCloseAtTop \/ ToSelect \/ TakeCloseInSelect \/ SelectTurn \/ BadPacket
     \/ ConnectionClose \/ AddAddress \/ CloseOuter \/ CloseInner \/ ClosePush
     \/ Turn \/ Push \/ AckRemainingPaths \/ EndTurn \/ CloseSession \/ SessionDone
     \/ \E p \in Paths :
          \/ PathTimer(p) \/ CreatePathFromRemote(p) \/ ClosePathFrame(p)
          \/ SelectPath(p) \/ AckPath(p) \/ WaitForPath(p)
  /\ UNCHANGED <<pm, late>>

\* The application closes the session, or the client finds another version to use.
Close ==
  /\ closeRequest = "none"
  /\ closeRequest' \in IF perspective = "client" /\ ~handshake
                       THEN {"error", "newVersion"} ELSE {"error"}
  /\ UNCHANGED <<perspective, handshake, rl, rlPath, burst, rest, closedPaths, pm, launched,
                 runClosed, pth, closeChan, sentPacket, late>>

SessionNext ==
  \/ RunLoop
  \/ PathManager
  \/ \E p \in Paths : PathRun(p)
  \/ Close

\* Go runs every goroutine that can go on, and lets nobody starve at a lock or at a select
\* it comes back to; the addresses createPaths goes through are finitely many.
SessionSpec ==
  /\ SessionInit /\ [][SessionNext]_allVars
  /\ SF_allVars(RunLoop)
  /\ SF_allVars(PathManager)
  /\ SF_allVars(PathManager /\ PmCreated) /\ SF_allVars(PathManager /\ PmStop)
  /\ \A p \in Paths : WF_allVars(PathRun(p))

-----------------------------------------------------------------------------
(* What holds. *)

\* The type invariant: tokens, closed paths and calls are of paths that exist, and nobody
\* waits for a path before the end.
TypeOK ==
  /\ perspective \in {"client", "server"} /\ handshake \in BOOLEAN
  /\ closeRequest \in {"none", "error", "newVersion"}
  /\ rl \in {"top", "select", "closeOuter", "closeInner", "closePush", "turn", "send", "push",
             "ack", "ackPush", "exit", "wait", "done"}
  /\ rlPath \in Paths \cup {NoPath}
  /\ rl \in {"closeInner", "closePush", "push", "ackPush"} => rlPath \in created
  /\ burst \in 0..MaxBurst
  /\ rest \subseteq created /\ (rest # {} => rl \in {"ack", "ackPush", "wait"})
  /\ closedPaths \subseteq created
  /\ pm \in {"handshake", "create", "lock", "loop", "failed", "done"}
  /\ launched \in BOOLEAN /\ runClosed \in BOOLEAN
  /\ pth \in [Paths -> {"none", "top", "wait", "timer", "closing", "done"}]
  /\ InitialPathID \in created
  /\ closeChan \subseteq created /\ sentPacket \subseteq created /\ late \subseteq created

\* pathManager.closePath sends on closeChan with pathsLock held and without a way out: if
\* the channel is full its path must still be there to empty it.
ClosePathUnblocks ==
  rl = "closePush" /\ rlPath \in closeChan => rlPath \in listening

(***************************************************************************)
(* The ways for the run loop to stop for good.                             *)
(***************************************************************************)

\* It takes pathsLock a second time for a CLOSE_PATH frame while the path manager waits
\* for the first to be given back.
NestedReadLock == rl = "closeInner" /\ pm = "lock"

\* It sends on the full sentPacket of a path whose goroutine has left its loop.
SendToEndedPath ==
  rl \in {"push", "ackPush"} /\ rlPath \in sentPacket /\ rlPath \notin listening

\* It waits for a path that was created after all were told to close; the path manager,
\* which would tell it when it stops itself, does not know of the end.
WaitForLatePath ==
  rl = "wait" /\ ~runClosed /\ \E p \in rest \cap late : p \in listening \ closeChan

Stuck == NestedReadLock \/ SendToEndedPath \/ WaitForLatePath

\* These are the only ones: otherwise the run loop comes back to its top for ever, or
\* ends, however the path goroutines and the path manager are in its way.
RunLoopKeepsTurning == []<>(rl \in {"top", "done"} \/ Stuck)

\* Close, an error or the peer's CONNECTION_CLOSE ends the session, so that Close returns,
\* unless the run loop has stopped before or at its end.
ShutdownCompletes == closeRequest # "none" ~> (rl = "done" \/ Stuck)
=============================================================================

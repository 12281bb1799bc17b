------------------------------ MODULE Handshake ------------------------------
(***************************************************************************)
(* One Dial of client.go against server.go: version negotiation, the       *)
(* server's table of sessions, the crypto streams of both ends, the run    *)
(* loops that open packets with the keys at hand and pass the events of    *)
(* aeadChanged on, and the closing of sessions before, during and after.   *)
(*                                                                         *)
(* A session is two goroutines: HandleCryptoStream ("handler") and the run *)
(* loop.  They meet in the blocking Write of the crypto stream, which ends *)
(* when the run loop has packed the message; in divNonceChan, on which the *)
(* run loop waits for the handler; and in sentSHLO, likewise.  "pending"   *)
(* is the packet a run loop is held up with.                               *)
(*                                                                         *)
(* net holds every packet sent.  A packet may arrive any number of times,  *)
(* in any order or never: losses, duplicates, retransmissions and the      *)
(* queue of undecryptable packets come to that.                            *)
(***************************************************************************)
EXTENDS CryptoSetup, Sequences, FiniteSets

CONSTANTS
    ClientVersions,     \* Config.Versions of the client; it prefers the largest
    VersionLists,       \* the lists of versions the server may be configured with
    Caches              \* what useHandshakeCache may find: "none", "current", "stale"

(* A client that has nothing in its cache needs three hellos.              *)
ASSUME HandshakeAssumption ==
    /\ MaxClientHellos \in Nat /\ MaxClientHellos >= 3
    /\ IsFiniteSet(ClientVersions) /\ ClientVersions # {} /\ ClientVersions \subseteq Nat
    /\ VersionLists \subseteq SUBSET (Nat \ {0})
    /\ Caches \subseteq {"none", "current", "stale"}

VARIABLES
    cache, serverVersions,      \* chosen before the first packet
    client,                     \* the client struct and the goroutine in Dial
    cs, hc,                     \* the client's session and its crypto setup
    table, ss, hs,              \* the server's sessions and their crypto setups
    accepted,                   \* connections Accept has returned
    net                         \* packets sent

vars == <<cache, serverVersions, client, cs, hc, table, ss, hs, accepted, net>>
clientVars == <<client, cs, hc>>
serverVars == <<table, ss, hs, accepted>>

Conns == {1, 2}         \* the connection ID of Dial, and the one after a negotiation
Preferred(versions) == CHOOSE v \in versions : \A w \in versions : w <= v
NoPacket == [type |-> "none"]

newSession(handler) ==
    [handler |-> handler, inbox |-> <<>>, rcvd |-> 0, wrote |-> 0,
     aeadChanged |-> <<>>, handshakeChan |-> <<>>, handshakeComplete |-> FALSE,
     closing |-> "none", run |-> "running", pending |-> NoPacket]

closeSession(s, e) == IF s.closing = "none" THEN [s EXCEPT !.closing = e] ELSE s

Init ==
    /\ cache \in Caches
    /\ serverVersions \in VersionLists
    /\ client = [version |-> Preferred(ClientVersions), connectionID |-> 1, dial |-> "version",
                 versionNegotiated |-> FALSE, receivedVersionNegotiationPacket |-> FALSE]
    /\ cs = newSession("loop")
    /\ hc = NewCryptoSetupClient(1, Preferred(ClientVersions), {}, cache)
    /\ table = [k \in Conns |-> "absent"]
    /\ ss = [k \in Conns |-> newSession("read")]
    /\ hs = [k \in Conns |-> NewCryptoSetup(k, 0, serverVersions)]
    /\ accepted = {}
    /\ net = {}

(* ver is the version of a header with VersionFlag, else 0.                *)
Packet(to, conn, ver, key, nonce, type, n, msg) ==
    [to |-> to, conn |-> conn, ver |-> ver, key |-> key, nonce |-> nonce,
     type |-> type, n |-> n, msg |-> msg]

ClientPacket(key, type, n, msg) ==
    Packet("server", client.connectionID, IF key.level = "forward" THEN 0 ELSE client.version,
           key, FALSE, type, n, msg)

ServerPacket(k, key, type, n, msg) ==
    Packet("client", k, 0, key, key.level = "secure", type, n, msg)

(* A run loop that is in its select with nothing to close for.             *)
Turning(s) == s.run = "running" /\ s.pending = NoPacket /\ s.closing = "none"

(* handleFrames on the frame a packet carries: a message of the crypto     *)
(* stream in its order, a CONNECTION_CLOSE, or data.                       *)
handleFrame(s, p) ==
    CASE p.type \in {"CHLO", "REJ", "SHLO"} /\ p.n = s.rcvd + 1 ->
            [s EXCEPT !.inbox = Append(@, p.msg), !.rcvd = @ + 1]
      [] p.type = "CLOSE" -> closeSession(s, "remote")
      [] OTHER -> s

(* The case of aeadChanged in the select of the run loop.                  *)
passEvent(s) ==
    LET e == Head(s.aeadChanged)
        t == [s EXCEPT !.aeadChanged = Tail(@)]
    IN  IF e = "closed" THEN [t EXCEPT !.handshakeComplete = TRUE]
        ELSE [t EXCEPT !.handshakeChan = Append(@, e)]

(* What is left of run once the loop is broken.                            *)
endRun(s) ==
    [s EXCEPT !.run = "ended",
              !.handshakeChan = IF s.handshakeComplete THEN @ ELSE Append(@, "error")]

-----------------------------------------------------------------------------
(* The client's HandleCryptoStream *)

ClientLoop ==
    LET up == maybeUpgradeCrypto(hc)
        sendCHLO == up.secureAEAD = NoKey
        h == IF sendCHLO THEN countCHLO(up) ELSE up
    IN  /\ cs.run = "running" /\ cs.handler = "loop"
        /\ hc' = h
        /\ cs' = [cs EXCEPT !.handler = IF h.err # "none" THEN "failed"
                                        ELSE IF sendCHLO THEN "write" ELSE "select",
                            !.aeadChanged = IF up = hc THEN @ ELSE Append(@, "secure")]
        /\ UNCHANGED <<cache, serverVersions, client, serverVars, net>>

Fault_KeepsFirstCHLO ==
    /\ cs.run = "running" /\ cs.handler = "written"
    /\ hc' = [hc EXCEPT !.lastSentCHLO = IF @ = NoCHLO THEN getTags(hc) ELSE @]
    /\ cs' = [cs EXCEPT !.handler = "select"]
    /\ UNCHANGED <<cache, serverVersions, client, serverVars, net>>

(* Write has returned. *)
ClientWritten ==
    /\ cs.run = "running" /\ cs.handler = "written"
    /\ hc' = [hc EXCEPT !.lastSentCHLO = getTags(hc)]
    /\ cs' = [cs EXCEPT !.handler = "select"]
    /\ UNCHANGED <<cache, serverVersions, client, serverVars, net>>

ClientMessage ==
    /\ cs.run = "running" /\ cs.handler = "select" /\ cs.inbox # <<>>
    /\ hc' = handleClientMessage(hc, Head(cs.inbox))
    /\ cs' = [cs EXCEPT !.inbox = Tail(@),
                        !.handler = IF hc'.err # "none" THEN "failed" ELSE "loop",
                        !.aeadChanged = IF hc'.forwardSecureAEAD = hc.forwardSecureAEAD THEN @
                                        ELSE @ \o <<"forward", "closed">>]
    /\ UNCHANGED <<cache, serverVersions, client, serverVars, net>>

Fault_NonceAwaitsMessage ==
    /\ cs.run = "running" /\ cs.handler = "select"
    /\ cs.pending # NoPacket /\ cs.pending.nonce
    /\ hc' = [hc EXCEPT !.divNonce = TRUE]
    /\ cs' = [cs EXCEPT !.pending.nonce = FALSE]
    /\ UNCHANGED <<cache, serverVersions, client, serverVars, net>>

(* The handler takes the nonce the run loop offers in                      *)
(* SetDiversificationNonce, and tries to upgrade.                          *)
ClientNonce ==
    /\ cs.run = "running" /\ cs.handler = "select"
    /\ cs.pending # NoPacket /\ cs.pending.nonce
    /\ hc' = [hc EXCEPT !.divNonce = TRUE]
    /\ cs' = [cs EXCEPT !.pending.nonce = FALSE, !.handler = "loop"]
    /\ UNCHANGED <<cache, serverVersions, client, serverVars, net>>

(* HandleCryptoStream returns an error: run's goroutine closes the session. *)
ClientFailed ==
    /\ cs.run = "running" /\ cs.handler = "failed"
    /\ cs' = [closeSession(cs, hc.err) EXCEPT !.handler = "closed"]
    /\ UNCHANGED <<cache, serverVersions, client, hc, serverVars, net>>

ClientHandler == ClientLoop \/ ClientWritten \/ ClientMessage \/ ClientNonce \/ ClientFailed

-----------------------------------------------------------------------------
(* The client's run loop *)

(* packCryptoPacket: client hellos always go out with the null key. *)
ClientPack ==
    /\ Turning(cs) /\ cs.handler = "write"
    /\ net' = net \cup {ClientPacket(NullKey, "CHLO", cs.wrote + 1, getTags(hc))}
    /\ cs' = [cs EXCEPT !.wrote = @ + 1, !.handler = "written"]
    /\ UNCHANGED <<cache, serverVersions, client, hc, serverVars>>

(* Any other packet, as far as it matters here: the server learns from it  *)
(* that the client has the key.  (What the server sends besides its        *)
(* replies teaches the client nothing.)                                    *)
ClientSend ==
    /\ Turning(cs) /\ hc.secureAEAD # NoKey
    /\ net' = net \cup {ClientPacket(ClientSealer(hc), "DATA", 0, NoCHLO)}
    /\ UNCHANGED <<cache, serverVersions, clientVars, serverVars>>

(* Unpack and handleFrames; a packet that does not open has no effect.     *)
clientUnpack(p) ==
    LET level == ClientOpen(hc, p.key)
    IN  /\ hc' = [hc EXCEPT !.receivedSecurePacket = @ \/ level = "secure"]
        /\ cs' = [IF level = "none" THEN cs ELSE handleFrame(cs, p)
                  EXCEPT !.pending = NoPacket]

(* A packet with a diversification nonce holds the run loop up before it   *)
(* is opened.                                                              *)
ClientReceive(p) ==
    /\ Turning(cs) /\ client.versionNegotiated
    /\ p.to = "client" /\ p.conn = client.connectionID /\ p.type \notin {"VN", "RESET"}
    /\ IF p.nonce THEN cs' = [cs EXCEPT !.pending = p] /\ UNCHANGED hc
                  ELSE clientUnpack(p)
    /\ UNCHANGED <<cache, serverVersions, client, serverVars, net>>

ClientResume ==
    /\ cs.run = "running" /\ cs.pending # NoPacket /\ ~cs.pending.nonce
    /\ clientUnpack(cs.pending)
    /\ UNCHANGED <<cache, serverVersions, client, serverVars, net>>

ClientEvent ==
    /\ Turning(cs) /\ cs.aeadChanged # <<>>
    /\ cs' = passEvent(cs)
    /\ UNCHANGED <<cache, serverVersions, client, hc, serverVars, net>>

ClientTimeout ==
    /\ Turning(cs) /\ ~cs.handshakeComplete
    /\ cs' = closeSession(cs, "HandshakeTimeout")
    /\ UNCHANGED <<cache, serverVersions, client, hc, serverVars, net>>

ClientEnd ==
    /\ cs.run = "running" /\ cs.pending = NoPacket /\ cs.closing # "none"
    /\ cs' = endRun(cs)
    /\ net' = IF cs.closing = "remote" THEN net
              ELSE net \cup {ClientPacket(ClientSealer(hc), "CLOSE", 0, NoCHLO)}
    /\ UNCHANGED <<cache, serverVersions, client, hc, serverVars>>

-----------------------------------------------------------------------------
(* client.go: Dial and the goroutine in listen *)

DialStep ==
    /\ client' = [client EXCEPT !.dial =
          CASE client.dial = "version" /\ client.versionNegotiated -> "handshake"
            [] client.dial = "handshake" /\ cs.handshakeChan # <<>> ->
                  IF Head(cs.handshakeChan) = "secure" THEN "established" ELSE "failed"
            [] client.dial = "established" /\ cs.handshakeComplete -> "complete"
            [] OTHER -> client.dial]
    /\ client' # client
    /\ UNCHANGED <<cache, serverVersions, cs, hc, serverVars, net>>

(* errorChan is closed, or the error came through handshakeCompleteChan.   *)
DialFails ==
    /\ client.dial \in {"version", "handshake", "established"} /\ cs.run = "ended"
    /\ client.dial = "established" => ~cs.handshakeComplete
    /\ client' = [client EXCEPT !.dial = "failed"]
    /\ UNCHANGED <<cache, serverVersions, cs, hc, serverVars, net>>

ClientAppClose ==
    /\ client.dial = "complete" /\ cs.closing = "none"
    /\ cs' = closeSession(cs, "PeerGoingAway")
    /\ UNCHANGED <<cache, serverVersions, client, hc, serverVars, net>>

(* handlePacket on the first packet that is no version negotiation.        *)
ClientDispatch(p) ==
    /\ cs.run = "running" /\ ~client.versionNegotiated
    /\ p.to = "client" /\ p.conn = client.connectionID /\ p.type \notin {"VN", "RESET"}
    /\ client' = [client EXCEPT !.versionNegotiated = TRUE]
    /\ UNCHANGED <<cache, serverVersions, cs, hc, serverVars, net>>

ClientReset(p) ==
    /\ cs.run = "running" /\ p.to = "client" /\ p.type = "RESET" /\ p.conn = client.connectionID
    /\ cs' = closeSession(cs, "remote")
    /\ UNCHANGED <<cache, serverVersions, client, hc, serverVars, net>>

ChooseSupportedVersion(ours, theirs) ==
    IF ours \cap theirs = {} THEN VersionUnsupported ELSE Preferred(ours \cap theirs)

(* A new session takes the place of the old one, whose run loop ends with  *)
(* errCloseSessionForNewVersion; with any other error, the new session is  *)
(* never run.                                                              *)
ClientNegotiate(p) ==
    LET new == ChooseSupportedVersion(ClientVersions, p.msg.versions)
    IN  /\ cs.run = "running" /\ p.to = "client" /\ p.type = "VN"
        /\ p.conn = client.connectionID
        /\ ~client.receivedVersionNegotiationPacket /\ ~client.versionNegotiated
        /\ client.version \notin p.msg.versions
        /\ IF new = VersionUnsupported
           THEN /\ cs' = closeSession(cs, "InvalidVersion")
                /\ client' = [client EXCEPT !.receivedVersionNegotiationPacket = TRUE]
                /\ UNCHANGED hc
           ELSE /\ client' = [client EXCEPT !.receivedVersionNegotiationPacket = TRUE,
                                            !.version = new, !.connectionID = 2]
                /\ hc' = NewCryptoSetupClient(2, new, p.msg.versions, cache)
                /\ cs' = [newSession("loop") EXCEPT !.run =
                              IF cs.closing = "none" THEN "running" ELSE "ended"]
        /\ UNCHANGED <<cache, serverVersions, serverVars, net>>

-----------------------------------------------------------------------------
(* server.go: handlePacket when no session has the connection ID *)

ServerDispatch(p) ==
    /\ p.to = "server" /\ table[p.conn] = "absent"
    /\ IF p.ver \in serverVersions
       THEN /\ table' = [table EXCEPT ![p.conn] = "live"]
            /\ ss' = [ss EXCEPT ![p.conn] = newSession("read")]
            /\ hs' = [hs EXCEPT ![p.conn] = NewCryptoSetup(p.conn, p.ver, serverVersions)]
            /\ UNCHANGED net
       ELSE /\ net' = net \cup {Packet("client", p.conn, 0, NullKey, FALSE,
                                       IF p.ver = 0 THEN "RESET" ELSE "VN", 0,
                                       IF p.ver = 0 THEN NoCHLO
                                       ELSE [tag |-> "VN", versions |-> serverVersions])}
            /\ UNCHANGED <<table, ss, hs>>
    /\ UNCHANGED <<cache, serverVersions, clientVars, accepted>>

(* The goroutine that waits for a forward secure session, and Accept.      *)
Accept(k) ==
    /\ k \notin accepted
    /\ \E i \in DOMAIN ss[k].handshakeChan : ss[k].handshakeChan[i] = "forward"
    /\ accepted' = accepted \cup {k}
    /\ UNCHANGED <<cache, serverVersions, clientVars, table, ss, hs, net>>

(* The timer of removeConnection.  Packets do not live as long as          *)
(* ClosedSessionDeleteTimeout, and neither does a handshake.               *)
ServerDelete(k) ==
    /\ table[k] = "tombstone"
    /\ client.connectionID = k => (cs.handshakeComplete \/ cs.run = "ended")
    /\ table' = [table EXCEPT ![k] = "absent"]
    /\ net' = {p \in net : ~(p.to = "server" /\ p.conn = k /\ p.ver # 0)}
    /\ UNCHANGED <<cache, serverVersions, clientVars, ss, hs, accepted>>

-----------------------------------------------------------------------------
(* The server's session k: HandleCryptoStream *)

ServerMessage(k) ==
    /\ ss[k].run = "running" /\ ss[k].handler = "read" /\ ss[k].inbox # <<>>
    /\ hs' = [hs EXCEPT ![k] = handleMessage(@, Head(ss[k].inbox))]
    /\ ss' = [ss EXCEPT ![k].inbox = Tail(@),
                        ![k].handler = IF hs'[k].err # "none" THEN "failed" ELSE "write",
                        ![k].aeadChanged = IF hs'[k].secureAEAD = hs[k].secureAEAD THEN @
                                           ELSE Append(@, "secure")]
    /\ UNCHANGED <<cache, serverVersions, clientVars, table, accepted, net>>

Fault_CompleteWithSHLO(k) ==
    LET shlo == hs[k].reply.tag = "SHLO"
    IN  /\ ss[k].run = "running" /\ ss[k].handler = "written"
        /\ hs' = [hs EXCEPT ![k].sentSHLO = shlo]
        /\ ss' = [ss EXCEPT ![k].handler = IF shlo THEN "done" ELSE "read",
                            ![k].aeadChanged = IF shlo THEN @ \o <<"forward", "closed">> ELSE @]
        /\ UNCHANGED <<cache, serverVersions, clientVars, table, accepted, net>>

(* Write has returned. *)
ServerWritten(k) ==
    LET shlo == hs[k].reply.tag = "SHLO"
    IN  /\ ss[k].run = "running" /\ ss[k].handler = "written"
        /\ hs' = [hs EXCEPT ![k].sentSHLO = shlo]
        /\ ss' = [ss EXCEPT ![k].handler = IF shlo THEN "done" ELSE "read",
                            ![k].aeadChanged = IF shlo THEN Append(@, "forward") ELSE @]
        /\ UNCHANGED <<cache, serverVersions, clientVars, table, accepted, net>>

ServerFailed(k) ==
    /\ ss[k].run = "running" /\ ss[k].handler = "failed"
    /\ ss' = [ss EXCEPT ![k] = [closeSession(@, hs[k].err) EXCEPT !.handler = "closed"]]
    /\ UNCHANGED <<cache, serverVersions, clientVars, table, hs, accepted, net>>

ServerHandler(k) == ServerMessage(k) \/ ServerWritten(k) \/ ServerFailed(k)

-----------------------------------------------------------------------------
(* The server's session k: the run loop *)

ServerPack(k) ==
    /\ table[k] = "live" /\ Turning(ss[k]) /\ ss[k].handler = "write"
    /\ net' = net \cup {ServerPacket(k, ServerSealerForCryptoStream(hs[k]),
                                     hs[k].reply.tag, ss[k].wrote + 1, hs[k].reply)}
    /\ ss' = [ss EXCEPT ![k].wrote = @ + 1, ![k].handler = "written"]
    /\ UNCHANGED <<cache, serverVersions, clientVars, table, hs, accepted>>

(* Open on the first forward secure packet: the run loop waits for the     *)
(* handler to have sent the SHLO, then closes aeadChanged.                 *)
firstForwardSecure(k, p) ==
    LET t == handleFrame(ss[k], p)
    IN  /\ hs' = [hs EXCEPT ![k].receivedForwardSecurePacket = TRUE]
        /\ ss' = [ss EXCEPT ![k] =
                      IF ~hs[k].sentSHLO THEN [@ EXCEPT !.pending = p]
                      ELSE [t EXCEPT !.pending = NoPacket,
                                     !.aeadChanged = Append(t.aeadChanged, "closed")]]

ServerReceive(p) ==
    LET k == p.conn
        level == ServerOpen(hs[k], p.key)
    IN  /\ p.to = "server" /\ table[k] = "live" /\ Turning(ss[k])
        /\ p.ver # 0 => p.ver \in serverVersions
        /\ level # "none"
        /\ IF level = "forward" /\ ~hs[k].receivedForwardSecurePacket
           THEN firstForwardSecure(k, p)
           ELSE /\ hs' = [hs EXCEPT ![k].receivedSecurePacket = @ \/ level = "secure"]
                /\ ss' = [ss EXCEPT ![k] = handleFrame(@, p)]
        /\ UNCHANGED <<cache, serverVersions, clientVars, table, accepted, net>>

ServerResume(k) ==
    /\ ss[k].run = "running" /\ ss[k].pending # NoPacket /\ hs[k].sentSHLO
    /\ firstForwardSecure(k, ss[k].pending)
    /\ UNCHANGED <<cache, serverVersions, clientVars, table, accepted, net>>

ServerEvent(k) ==
    /\ table[k] = "live" /\ Turning(ss[k]) /\ ss[k].aeadChanged # <<>>
    /\ ss' = [ss EXCEPT ![k] = passEvent(@)]
    /\ UNCHANGED <<cache, serverVersions, clientVars, table, hs, accepted, net>>

(* The handshake timeout, or the application that has accepted the session. *)
ServerClose(k) ==
    /\ table[k] = "live" /\ Turning(ss[k])
    /\ k \in accepted \/ ~ss[k].handshakeComplete
    /\ ss' = [ss EXCEPT ![k] = closeSession(@, IF k \in accepted THEN "PeerGoingAway"
                                                                 ELSE "HandshakeTimeout")]
    /\ UNCHANGED <<cache, serverVersions, clientVars, table, hs, accepted, net>>

(* run returns and removeConnection leaves a tombstone.                    *)
ServerEnd(k) ==
    /\ table[k] = "live" /\ ss[k].run = "running"
    /\ ss[k].pending = NoPacket /\ ss[k].closing # "none"
    /\ table' = [table EXCEPT ![k] = "tombstone"]
    /\ ss' = [ss EXCEPT ![k] = endRun(@)]
    /\ net' = IF ss[k].closing = "remote" THEN net
              ELSE net \cup {ServerPacket(k, ServerSealer(hs[k]), "CLOSE", 0, NoCHLO)}
    /\ UNCHANGED <<cache, serverVersions, clientVars, hs, accepted>>

-----------------------------------------------------------------------------

Next ==
    \/ ClientHandler
    \/ ClientPack \/ ClientSend \/ ClientResume \/ ClientEvent \/ ClientTimeout \/ ClientEnd
    \/ DialStep \/ DialFails \/ ClientAppClose
    \/ \E p \in net : \/ ClientReceive(p) \/ ClientDispatch(p) \/ ClientReset(p)
                      \/ ClientNegotiate(p) \/ ServerDispatch(p) \/ ServerReceive(p)
    \/ \E k \in Conns :
          \/ Accept(k) \/ ServerDelete(k) \/ ServerHandler(k) \/ ServerPack(k)
          \/ ServerResume(k) \/ ServerEvent(k) \/ ServerClose(k) \/ ServerEnd(k)

(* A crypto packet is retransmitted until it is acknowledged, as long as   *)
(* its sender runs and its handshake is not complete.                      *)
Retransmitted(s) == s.run = "running" /\ ~s.handshakeComplete

HelloArrives ==
    \E p \in net : /\ p.type = "CHLO" /\ p.conn = client.connectionID /\ Retransmitted(cs)
                   /\ \/ ServerDispatch(p)
                      \/ p.n = ss[p.conn].rcvd + 1 /\ ServerReceive(p)

ReplyArrives ==
    \E p \in net : \/ ClientNegotiate(p)
                   \/ /\ p.type \in {"REJ", "SHLO"} /\ Retransmitted(ss[p.conn])
                      /\ ClientDispatch(p) \/ (p.n = cs.rcvd + 1 /\ ClientReceive(p))

(* Goroutines are scheduled and a select chooses at random among what is   *)
(* ready; packets that are sent again and again arrive.  The client's      *)
(* handshake timeout can be counted on only where no server answers.       *)
Fairness ==
    /\ WF_vars(ClientHandler) /\ SF_vars(ClientMessage)
    /\ WF_vars(ClientPack \/ ClientResume \/ ClientEnd) /\ SF_vars(ClientEvent)
    /\ WF_vars(DialStep \/ DialFails)
    /\ WF_vars(\E k \in Conns : ServerHandler(k))
    /\ WF_vars(\E k \in Conns : ServerPack(k) \/ ServerResume(k) \/ ServerEnd(k))
    /\ SF_vars(HelloArrives) /\ SF_vars(ReplyArrives)
    /\ WF_vars(table[client.connectionID] = "tombstone" /\ ClientTimeout)

Spec == Init /\ [][Next]_vars /\ Fairness

-----------------------------------------------------------------------------
(* Properties *)

(* The two ends of a connection derive each key from the same hello, nonce *)
(* and config, however hellos, replies and nonces overtake each other; what *)
(* Accept returns is forward secure and speaks the version of the client;  *)
(* and a Dial that succeeds speaks the best version both ends have, with a *)
(* server session that has reached the same key.                           *)
EndsAgree ==
    LET k == client.connectionID
    IN  /\ hc.secureAEAD # NoKey => hc.secureAEAD = hs[k].secureAEAD
        /\ hc.forwardSecureAEAD # NoKey => hc.forwardSecureAEAD = hs[k].forwardSecureAEAD
        /\ table[k] = "live" => hs[k].version = client.version
        /\ accepted \subseteq {k}
        /\ k \in accepted => hs[k].forwardSecureAEAD # NoKey
        /\ client.dial \in {"established", "complete"} =>
              client.version = ChooseSupportedVersion(ClientVersions, serverVersions)
        /\ client.dial = "complete" => hc.forwardSecureAEAD = hs[k].forwardSecureAEAD

(* From the completion of its handshake on, an end does not retransmit     *)
(* what it sent with less than forward secure keys (getRetransmission); by *)
(* then the other end, if it still runs, has all of its crypto stream.     *)
NoHelloStranded ==
    LET k == client.connectionID
    IN  table[k] = "live" =>
            /\ cs.handshakeComplete => ss[k].rcvd = cs.wrote
            /\ ss[k].handshakeComplete => cs.rcvd = ss[k].wrote

(* A client that has a config and nonce from before a restart of the       *)
(* server in its cache, or was told a list with a version it does not know *)
(* fails in the handshake; see README.                                     *)
StaleNonce == hc.nonc = "old"
UnknownVersionListed == ~(hc.negotiatedVersions \subseteq SupportedVersions)

(* Two honest ends never fail each other's handshake messages: not the     *)
(* token, proof, nonce, encryption level, version list or number of hellos. *)
HonestHandshakeAccepted ==
    /\ hc.err # "none" => UnknownVersionListed
    /\ \A k \in Conns : hs[k].err # "none" => StaleNonce

(* SetDiversificationNonce waits for a handler that has returned.          *)
Hung ==
    /\ cs.run = "running" /\ cs.handler \in {"failed", "closed"}
    /\ cs.pending # NoPacket /\ cs.pending.nonce

(* Dial comes back, and comes back with a session unless something was     *)
(* closed or timed out, or the run loop is stuck in                        *)
(* SetDiversificationNonce, which takes a version list with an unknown     *)
(* entry.                                                                  *)
DialReturns ==
    <>(client.dial \in {"complete", "failed"} \/ (Hung /\ UnknownVersionListed))

=============================================================================

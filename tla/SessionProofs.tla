---------------------------- MODULE SessionProofs ----------------------------
(***************************************************************************)
(* The safety of a session's beginning and of its goroutines: Handshake,   *)
(* for any client versions, server versions and limit of hellos, and       *)
(* SessionPaths, for any number of paths.                                  *)
(*                                                                         *)
(* The handshake.  Packets come in any order, late and often, but a crypto *)
(* stream is read in order and an end writes only when it has read, so     *)
(* that the two go through the handshake in step, and what the client had  *)
(* in its cache decides every message: the n-th hello and the n-th reply   *)
(* are functions of n.  The invariant says so, and says where each end is  *)
(* by the number of messages it has read and written.  There is one lemma  *)
(* per action, and for the parts of a session others do not see (events,   *)
(* closing) one lemma for all.                                             *)
(*                                                                         *)
(* The goroutines.  A path is told to close once, so that the channel it   *)
(* is told by, of capacity one, has room.                                  *)
(***************************************************************************)
EXTENDS Handshake, SessionPaths, FiniteSetTheorems, SequenceTheorems, WellFoundedInduction,
        TLAPS

-----------------------------------------------------------------------------
(* The handshake: its messages, and the invariant *)

\* How many hellos of a client that found this in its cache are rejected: without anything it has
\* neither a token nor a config, else its token is from another crypto setup.
Rejections(found) == IF found = "none" THEN 2 ELSE 1

\* The n-th hello of a client that speaks this version (getTags).
Hello(found, version, n) ==
  LET known == found # "none" \/ n >= 3
  IN  [tag |-> "CHLO", ver |-> version,
       stk |-> IF n >= 2 THEN "given" ELSE IF found = "none" THEN "none" ELSE "old",
       scid |-> IF n >= 2 \/ found = "current" THEN "new"
                ELSE IF found = "stale" THEN "old" ELSE "none",
       pubs |-> known,
       nonc |-> IF ~known THEN "none" ELSE IF found = "stale" THEN "old" ELSE "new"]

\* The answer of a server with these versions to the n-th hello (handleMessage).
Reply(found, version, versions, n) ==
  IF n > Rejections(found) THEN [tag |-> "SHLO", versions |-> versions]
  ELSE [tag |-> "REJ", stk |-> "given", scfg |-> "new",
        proof |-> IF n >= 2 THEN Hello(found, version, n) ELSE NoCHLO]

\* The key both ends derive from the hello after the last rejection.
KeyOf(level, conn, found, version) ==
  DerivedKey(level, conn, Hello(found, version, Rejections(found) + 1), "new", "new")

\* The client's connection, and what its cache makes of the messages and keys there.
Conn == client.connectionID
Rejects == Rejections(cache)
HelloNo(n) == Hello(cache, client.version, n)
ReplyNo(n) == Reply(cache, client.version, serverVersions, n)
SecureKey == KeyOf("secure", Conn, cache, client.version)
ForwardKey == KeyOf("forward", Conn, cache, client.version)

\* Messages of its crypto stream an end has read; at most one waits.
Read(s) == IF s.inbox = <<>> THEN s.rcvd ELSE s.rcvd - 1
EventNames == {"secure", "forward", "closed", "error"}
Events(q) == {q[i] : i \in DOMAIN q}

\* The fields of the records, typed where a proof needs it; a field f typed {r.f} is only there.
IsSession(s) ==
  s \in [handler : {s.handler}, inbox : {s.inbox}, rcvd : Nat, wrote : Nat,
         aeadChanged : Seq(EventNames), handshakeChan : Seq(EventNames),
         handshakeComplete : BOOLEAN, closing : {s.closing}, run : {s.run},
         pending : {s.pending}]

IsClientSetup(h) ==
  h \in [conn : {h.conn}, version : {h.version}, negotiatedVersions : {h.negotiatedVersions},
         hellos : Nat, stk : {h.stk}, scfg : {h.scfg}, nonc : {h.nonc},
         cert : BOOLEAN, serverVerified : BOOLEAN,
         proof : {h.proof}, chloForSignature : {h.chloForSignature},
         divNonce : BOOLEAN, lastSentCHLO : {h.lastSentCHLO},
         receivedSecurePacket : BOOLEAN,
         secureAEAD : {h.secureAEAD}, forwardSecureAEAD : {h.forwardSecureAEAD}, err : {h.err}]

IsServerSetup(g) ==
  g \in [conn : {g.conn}, version : {g.version}, supportedVersions : {g.supportedVersions},
         receivedSecurePacket : BOOLEAN, receivedForwardSecurePacket : BOOLEAN,
         sentSHLO : BOOLEAN, reply : {g.reply},
         secureAEAD : {g.secureAEAD}, forwardSecureAEAD : {g.forwardSecureAEAD}, err : {g.err}]

IsPacket(p) ==
  p \in [to : {p.to}, conn : {p.conn}, ver : {p.ver}, key : {p.key}, nonce : BOOLEAN,
         type : {p.type}, n : {p.n}, msg : {p.msg}]

IsClient(c) ==
  c \in [version : {c.version}, connectionID : Conns, dial : {c.dial},
         versionNegotiated : BOOLEAN, receivedVersionNegotiationPacket : BOOLEAN]

\* The type invariant.
Types ==
  /\ cache \in Caches /\ serverVersions \in VersionLists
  /\ IsClient(client)
  /\ IsSession(cs) /\ IsClientSetup(hc)
  /\ table \in [Conns -> {"absent", "live", "tombstone"}]
  /\ ss \in [Conns -> {ss[j] : j \in Conns}] /\ hs \in [Conns -> {hs[j] : j \in Conns}]
  /\ \A j \in Conns : IsSession(ss[j]) /\ IsServerSetup(hs[j])
  /\ \A p \in net : IsPacket(p)

\* A session of the server that has not begun.
Fresh(j) ==
  /\ table[j] = "absent" /\ ss[j] = newSession("read")
  /\ hs[j] = NewCryptoSetup(j, 0, serverVersions)

\* No packet that could start a session of the server for j (handlePacket).
NoSessionFor(j) == \A p \in net : p.to = "server" /\ p.conn = j => p.ver \notin serverVersions

\* Which connection and version the client is on.  A second connection comes after a negotiation
\* only, and the server has a session for no connection but this one.
Negotiation ==
  /\ client.version \in ClientVersions
  /\ Conn = 1 => /\ client.version = Preferred(ClientVersions)
              /\ \A p \in net : p.conn = 1
  /\ Conn = 2 => /\ client.receivedVersionNegotiationPacket
              /\ client.version = ChooseSupportedVersion(ClientVersions, serverVersions)
              /\ client.version \in serverVersions
  /\ \A p \in net : p.type = "VN" => p.msg.versions = serverVersions
  /\ \A j \in Conns \ {Conn} : Fresh(j) /\ NoSessionFor(j)
  /\ ~client.versionNegotiated => client.dial \in {"version", "failed"}
  /\ client.dial \in {"established", "complete"} => hc.secureAEAD # NoKey
  /\ client.dial = "complete" => cs.handshakeComplete

\* The server's session of the client: made for its version, and not made again once it has gone.
Table ==
  /\ Fresh(Conn) \/ (hs[Conn].version = client.version /\ client.version \in serverVersions)
  /\ hs[Conn].conn = Conn /\ hs[Conn].supportedVersions = serverVersions
  /\ table[Conn] = "tombstone" => ss[Conn].run = "ended"
  /\ table[Conn] = "absent" =>
       \/ Fresh(Conn)
       \/ /\ ss[Conn].run = "ended" /\ (cs.handshakeComplete \/ cs.run = "ended")
          /\ NoSessionFor(Conn)

\* Each crypto stream holds the next message or none; the client is at most one hello ahead
\* of the replies it has read, the server has replied to hellos it has read only.
Lockstep ==
  /\ cs.inbox \in {<<>>, <<ReplyNo(cs.rcvd)>>}
  /\ ss[Conn].inbox \in {<<>>, <<HelloNo(ss[Conn].rcvd)>>}
  /\ 0 <= Read(cs) /\ cs.rcvd <= ss[Conn].wrote /\ ss[Conn].wrote <= Read(ss[Conn])
  /\ ss[Conn].rcvd <= cs.wrote /\ cs.wrote <= Read(cs) + 1 /\ cs.wrote <= Rejects + 1

\* What the client knows after the replies it has read.
ClientKnows ==
  LET a == Read(cs) IN
  /\ hc.conn = Conn /\ hc.version = client.version
  /\ hc.negotiatedVersions = IF Conn = 1 THEN {} ELSE serverVersions
  /\ hc.stk = IF a >= 1 THEN "given" ELSE IF cache = "none" THEN "none" ELSE "old"
  /\ hc.scfg = IF a >= 1 \/ cache = "current" THEN "new"
               ELSE IF cache = "stale" THEN "old" ELSE "none"
  /\ hc.nonc = IF a = 0 /\ cache = "none" THEN "none" ELSE IF cache = "stale" THEN "old" ELSE "new"
  /\ hc.cert \in BOOLEAN /\ (hc.cert <=> a >= 2 \/ cache # "none") /\ hc.serverVerified = hc.cert
  /\ a <= 1 => hc.proof = NoCHLO
  /\ hc.err # "none" => UnknownVersionListed

\* Where its handler is in HandleCryptoStream, by what it has written and read.
ClientTurn ==
  LET a == Read(cs)
      c == cs.wrote
  IN
  /\ hc.hellos = IF cs.handler = "write" THEN c + 1 ELSE c
  /\ cs.handler \in {"loop", "select"} /\ c = a + 1 => hc.lastSentCHLO = HelloNo(c)
  /\ cs.handler = "loop" => \/ c = a /\ (a <= Rejects \/ hc.secureAEAD # NoKey)
                            \/ c = a + 1 /\ hc.divNonce
  /\ cs.handler = "write" => c = a /\ a <= Rejects /\ hc.secureAEAD = NoKey
  /\ cs.handler = "written" => c = a + 1
  /\ cs.handler = "select" => c = a + 1 \/ (c = a /\ hc.secureAEAD # NoKey)
  /\ cs.pending # NoPacket => /\ cs.pending.type = "SHLO" /\ cs.pending.n = Rejects + 1
                              /\ cs.pending.key = SecureKey /\ cs.pending.msg = ReplyNo(Rejects + 1)
                              /\ IsPacket(cs.pending) /\ ss[Conn].wrote = Rejects + 1

\* The keys it has: none, or those of the last hello, which the server has read by then.
ClientKeys ==
  /\ hc.secureAEAD \in {NoKey, SecureKey} /\ hc.forwardSecureAEAD \in {NoKey, ForwardKey}
  /\ hc.secureAEAD # NoKey \/ hc.divNonce => Read(ss[Conn]) = Rejects + 1 /\ cache # "stale"
  /\ cs.rcvd = Rejects + 1 => hc.secureAEAD # NoKey /\ hc.receivedSecurePacket
  /\ hc.forwardSecureAEAD # NoKey => Read(cs) = Rejects + 1

\* Where the handler of the server is, what it answers and the keys it has.  A hello that
\* answers the last rejection with a nonce from before a restart is the end.
ServerTurn ==
  LET b == Read(ss[Conn])
      d == ss[Conn].wrote
  IN
  /\ hs[Conn].secureAEAD = IF b = Rejects + 1 /\ cache # "stale" THEN SecureKey ELSE NoKey
  /\ hs[Conn].forwardSecureAEAD = IF b = Rejects + 1 /\ cache # "stale" THEN ForwardKey ELSE NoKey
  /\ ss[Conn].handler = "read" => b = d /\ b <= Rejects
  /\ ss[Conn].handler = "write" => b = d + 1 /\ hs[Conn].reply = ReplyNo(b)
  /\ ss[Conn].handler = "written" => b = d /\ b >= 1 /\ hs[Conn].reply = ReplyNo(b)
  /\ cache = "stale" => d <= Rejects /\ (b = Rejects + 1 => ss[Conn].handler \in {"failed", "closed"})
  /\ hs[Conn].err # "none" => cache = "stale"
  /\ ss[Conn].pending # NoPacket => /\ hs[Conn].receivedForwardSecurePacket
                                 /\ ss[Conn].pending.type \in {"DATA", "CLOSE"}

\* What any packet ever sent on the connection says.
ToServer(p) ==
  /\ p.type \in {"CHLO", "DATA", "CLOSE"}
  /\ p.ver \in {0, client.version}
  /\ p.type = "CHLO" => /\ p.key = NullKey /\ p.n \in 1..cs.wrote
                        /\ p.msg = HelloNo(p.n)
  /\ p.key.level = "forward" => hc.forwardSecureAEAD # NoKey

ToClient(p) ==
  /\ p.type \in {"REJ", "SHLO", "CLOSE", "VN", "RESET"}
  /\ p.type = "REJ" => /\ p.n \in 1..ss[Conn].wrote /\ p.n <= Rejects /\ ~p.nonce
                       /\ p.msg = ReplyNo(p.n) /\ p.key = NullKey
  /\ p.type = "SHLO" => /\ p.n = Rejects + 1 /\ ss[Conn].wrote = Rejects + 1
                        /\ p.msg = ReplyNo(p.n) /\ p.key = SecureKey
  /\ p.type = "CLOSE" => ~p.nonce

PacketOK(p) ==
  /\ p.to \in {"client", "server"} /\ p.conn \in Conns
  /\ p.conn = Conn /\ p.to = "server" => ToServer(p)
  /\ p.conn = Conn /\ p.to = "client" => ToClient(p)

Packets == \A p \in net : PacketOK(p)

\* An event in a channel, and what run and Accept have done on one, stands for a key.
EventsTold ==
  /\ "secure" \in Events(cs.aeadChanged) \cup Events(cs.handshakeChan) => hc.secureAEAD # NoKey
  /\ \/ {"forward", "closed"} \cap Events(cs.aeadChanged) # {}
     \/ cs.handshakeComplete
     => hc.forwardSecureAEAD # NoKey
  /\ "forward" \in Events(ss[Conn].aeadChanged) \cup Events(ss[Conn].handshakeChan)
     => hs[Conn].forwardSecureAEAD # NoKey
  /\ \/ "closed" \in Events(ss[Conn].aeadChanged)
     \/ ss[Conn].handshakeComplete \/ hs[Conn].receivedForwardSecurePacket
     => hc.forwardSecureAEAD # NoKey
  /\ accepted \subseteq {Conn}
  /\ Conn \in accepted => hs[Conn].forwardSecureAEAD # NoKey

\* The inductive invariant.
HInv ==
  /\ Types /\ Negotiation /\ Table /\ Lockstep /\ ClientKnows /\ ClientTurn
  /\ ClientKeys /\ ServerTurn /\ Packets /\ EventsTold

-----------------------------------------------------------------------------
\* A queue of one message, as the crypto stream of an end has at most.
LEMMA Inboxes ==
  \A m : /\ <<m>> # <<>> /\ Head(<<m>>) = m /\ Tail(<<m>>) = <<>> /\ Append(<<>>, m) = <<m>>
OBVIOUS

\* The number of rejections a client meets.
LEMMA RejectionsType ==
  ASSUME NEW found
  PROVE  /\ Rejections(found) \in Int
         /\ Rejections(found) = IF found = "none" THEN 2 ELSE 1
BY DEF Rejections

\* The keys of the two levels differ from each other and from the null key.
LEMMA KeysDiffer ==
  ASSUME NEW conn, NEW found, NEW version
  PROVE  /\ KeyOf("secure", conn, found, version) # NoKey
         /\ KeyOf("secure", conn, found, version) # NullKey
         /\ KeyOf("forward", conn, found, version) # NoKey
         /\ KeyOf("forward", conn, found, version) # NullKey
         /\ KeyOf("forward", conn, found, version) # KeyOf("secure", conn, found, version)
         /\ KeyOf("secure", conn, found, version).level = "secure"
         /\ KeyOf("forward", conn, found, version).level = "forward"
         /\ NoKey # NullKey /\ NullKey.level = "null" /\ NoKey.level = "none"
BY SMT DEF KeyOf, NoKey, NullKey, DerivedKey

\* A hello is one (getTags).
LEMMA HelloFacts ==
  ASSUME NEW found, NEW version, NEW n
  PROVE  Hello(found, version, n) # NoCHLO /\ Hello(found, version, n).tag = "CHLO"
BY SMT DEF Hello, NoCHLO

\* The reply after the last rejection is the SHLO (handleMessage).
LEMMA ReplyTag ==
  ASSUME NEW found, NEW version, NEW versions, NEW n \in Int
  PROVE  /\ Reply(found, version, versions, n).tag
               = IF n > Rejections(found) THEN "SHLO" ELSE "REJ"
         /\ n > Rejections(found) => Reply(found, version, versions, n).versions = versions
BY SMT DEF Reply, Rejections

\* The hello a client has ready once it has read n replies.
LEMMA NextHello ==
  ASSUME Types, ClientKnows, Read(cs) \in Nat
  PROVE  getTags(hc) = HelloNo(Read(cs) + 1)
<1> DEFINE a == Read(cs)
           n == a + 1
           pubs == hc.scfg # "none" /\ hc.cert
           known == cache # "none" \/ n >= 3
<1>1. a \in Nat /\ hc.cert \in BOOLEAN /\ (hc.cert <=> a >= 2 \/ cache # "none")
  BY DEF ClientKnows
<1>2. hc.version = client.version
  BY DEF ClientKnows
<1>3. hc.stk = IF a >= 1 THEN "given" ELSE IF cache = "none" THEN "none" ELSE "old"
  BY Zenon DEF ClientKnows
<1>4. hc.scfg = IF a >= 1 \/ cache = "current" THEN "new"
                ELSE IF cache = "stale" THEN "old" ELSE "none"
  BY Zenon DEF ClientKnows
<1>5. hc.nonc = IF a = 0 /\ cache = "none" THEN "none" ELSE IF cache = "stale" THEN "old" ELSE "new"
  BY Zenon DEF ClientKnows
<1>6. cache \in {"none", "current", "stale"}
  BY HandshakeAssumption DEF Types
<1> HIDE DEF a
<1>7. pubs <=> known
  BY <1>1, <1>4, <1>6
<1>8. hc.stk = IF n >= 2 THEN "given" ELSE IF cache = "none" THEN "none" ELSE "old"
  BY <1>1, <1>3
<1>9. hc.scfg = IF n >= 2 \/ cache = "current" THEN "new"
                ELSE IF cache = "stale" THEN "old" ELSE "none"
  BY <1>1, <1>4
<1>10. (IF pubs THEN hc.nonc ELSE "none")
         = IF ~known THEN "none" ELSE IF cache = "stale" THEN "old" ELSE "new"
  BY <1>1, <1>5, <1>7
<1>11. pubs = known
  BY <1>7, Zenon
<1> HIDE DEF pubs
<1>12. getTags(hc) = [tag |-> "CHLO", ver |-> hc.version, stk |-> hc.stk, scid |-> hc.scfg,
                      pubs |-> pubs, nonc |-> IF pubs THEN hc.nonc ELSE "none"]
  BY Zenon DEF getTags, pubs
<1>13. HelloNo(n) = [tag |-> "CHLO", ver |-> hc.version, stk |-> hc.stk, scid |-> hc.scfg,
                      pubs |-> known, nonc |-> IF pubs THEN hc.nonc ELSE "none"]
  BY <1>2, <1>8, <1>9, <1>10, Zenon DEF HelloNo, Hello
<1> QED BY <1>11, <1>12, <1>13, Zenon DEF a

\* Sending one event on aeadChanged or handshakeChan.
LEMMA EventsAppend ==
  ASSUME NEW q \in Seq(EventNames), NEW e \in EventNames
  PROVE  Append(q, e) \in Seq(EventNames) /\ Events(Append(q, e)) = Events(q) \cup {e}
<1> DEFINE t == Append(q, e)
<1>1. t \in Seq(EventNames) /\ Len(t) = Len(q) + 1 /\ Len(q) \in Nat
      /\ DOMAIN t = 1..Len(t) /\ DOMAIN q = 1..Len(q)
  BY AppendProperties
<1>2. (\A i \in 1..Len(q) : t[i] = q[i]) /\ t[Len(q) + 1] = e
  BY AppendProperties
<1> HIDE DEF t
<1>3. Events(t) = Events(q) \cup {e}
  BY <1>1, <1>2 DEF Events
<1> QED BY <1>1, <1>3 DEF t

\* Receiving one.
LEMMA EventsTail ==
  ASSUME NEW q \in Seq(EventNames), q # <<>>
  PROVE  /\ Tail(q) \in Seq(EventNames) /\ Events(Tail(q)) \subseteq Events(q)
         /\ Head(q) \in Events(q) /\ Head(q) \in EventNames
BY DEF Events

\* The client's handler sends the forward secure level and closes the channel.
LEMMA EventsForward ==
  ASSUME NEW q \in Seq(EventNames)
  PROVE  /\ q \o <<"forward", "closed">> \in Seq(EventNames)
         /\ Events(q \o <<"forward", "closed">>) = Events(q) \cup {"forward", "closed"}
<1>1. q \o <<"forward", "closed">> = Append(Append(q, "forward"), "closed")
  OBVIOUS
<1>2. /\ Append(q, "forward") \in Seq(EventNames)
      /\ Events(Append(q, "forward")) = Events(q) \cup {"forward"}
  BY EventsAppend DEF EventNames
<1>3. /\ Append(Append(q, "forward"), "closed") \in Seq(EventNames)
      /\ Events(Append(Append(q, "forward"), "closed")) = Events(Append(q, "forward")) \cup {"closed"}
  BY <1>2, EventsAppend DEF EventNames
<1> QED BY <1>1, <1>2, <1>3

\* A new channel is empty.
LEMMA EventsNone == Events(<<>>) = {} /\ <<>> \in Seq(EventNames)
BY DEF Events
-----------------------------------------------------------------------------
\* closeLocal and closeRemote leave the crypto stream and the events alone.
LEMMA CloseSessionFacts ==
  ASSUME NEW s, NEW e, IsSession(s)
  PROVE  LET t == closeSession(s, e)
         IN  /\ IsSession(t) /\ t.handler = s.handler /\ t.inbox = s.inbox
             /\ t.rcvd = s.rcvd /\ t.wrote = s.wrote
             /\ t.aeadChanged = s.aeadChanged /\ t.handshakeChan = s.handshakeChan
             /\ t.handshakeComplete = s.handshakeComplete
             /\ t.run = s.run /\ t.pending = s.pending
BY DEF IsSession, closeSession

\* A frame of the crypto stream that is next in order is read, any other is not.
LEMMA HandleFrameFacts ==
  ASSUME NEW s, NEW p, IsSession(s)
  PROVE  LET t == handleFrame(s, p)
             next == p.type \in {"CHLO", "REJ", "SHLO"} /\ p.n = s.rcvd + 1
         IN  /\ IsSession(t) /\ t.handler = s.handler /\ t.wrote = s.wrote
             /\ t.inbox = IF next THEN Append(s.inbox, p.msg) ELSE s.inbox
             /\ t.rcvd = IF next THEN s.rcvd + 1 ELSE s.rcvd
             /\ t.aeadChanged = s.aeadChanged /\ t.handshakeChan = s.handshakeChan
             /\ t.handshakeComplete = s.handshakeComplete
             /\ t.run = s.run /\ t.pending = s.pending
<1> DEFINE next == p.type \in {"CHLO", "REJ", "SHLO"} /\ p.n = s.rcvd + 1
           n == s.rcvd + 1
           inbox == Append(s.inbox, p.msg)
<1>1. n \in Nat BY DEF IsSession
<1>2. next => handleFrame(s, p) = [s EXCEPT !.inbox = inbox, !.rcvd = n]
  BY Zenon DEF handleFrame
<1>3. ~next => handleFrame(s, p) \in {closeSession(s, "remote"), s}
  BY DEF handleFrame
<1>4. next \in BOOLEAN OBVIOUS
<1> HIDE DEF next, n, inbox
<1>5. CASE next BY <1>1, <1>2, <1>5 DEF IsSession, next, n, inbox
<1>6. CASE ~next BY <1>3, <1>6, CloseSessionFacts DEF next
<1> QED BY <1>5, <1>6

\* The run loop passes on the events of aeadChanged, and takes its closing for the
\* completion of the handshake.
LEMMA PassEventFacts ==
  ASSUME NEW s, IsSession(s), s.aeadChanged # <<>>
  PROVE  LET t == passEvent(s)
         IN  /\ IsSession(t) /\ t.handler = s.handler /\ t.inbox = s.inbox
             /\ t.rcvd = s.rcvd /\ t.wrote = s.wrote
             /\ Events(t.aeadChanged) \subseteq Events(s.aeadChanged)
             /\ Events(t.handshakeChan)
                  \subseteq Events(s.handshakeChan) \cup (Events(s.aeadChanged) \ {"closed"})
             /\ t.handshakeComplete => s.handshakeComplete \/ "closed" \in Events(s.aeadChanged)
             /\ s.handshakeComplete => t.handshakeComplete
             /\ t.run = s.run /\ t.pending = s.pending
<1> DEFINE e == Head(s.aeadChanged)
<1>1. /\ Tail(s.aeadChanged) \in Seq(EventNames) /\ e \in EventNames
      /\ Events(Tail(s.aeadChanged)) \subseteq Events(s.aeadChanged)
      /\ e \in Events(s.aeadChanged)
  BY EventsTail DEF IsSession
<1> DEFINE t == [s EXCEPT !.aeadChanged = Tail(s.aeadChanged)]
           chan == Append(s.handshakeChan, e)
<1>2. chan \in Seq(EventNames) /\ Events(chan) = Events(s.handshakeChan) \cup {e}
  BY <1>1, EventsAppend DEF IsSession
<1>3. /\ IsSession(t) /\ t.handler = s.handler /\ t.inbox = s.inbox
      /\ t.rcvd = s.rcvd /\ t.wrote = s.wrote
      /\ t.aeadChanged = Tail(s.aeadChanged) /\ t.handshakeChan = s.handshakeChan
      /\ t.handshakeComplete = s.handshakeComplete
      /\ t.run = s.run /\ t.pending = s.pending
  BY <1>1 DEF IsSession
<1>4. /\ e = "closed" => passEvent(s) = [t EXCEPT !.handshakeComplete = TRUE]
      /\ e # "closed" => passEvent(s) = [t EXCEPT !.handshakeChan = chan]
  BY <1>3, Zenon DEF passEvent, e
<1> HIDE DEF e, t, chan
<1>5. CASE e = "closed"
  BY <1>1, <1>3, <1>4, <1>5 DEF IsSession
<1>6. CASE e # "closed"
  BY <1>1, <1>2, <1>3, <1>4, <1>6 DEF IsSession
<1> QED BY <1>5, <1>6

\* The end of run passes on the error, and nothing else.
LEMMA EndRunFacts ==
  ASSUME NEW s, IsSession(s)
  PROVE  LET t == endRun(s)
         IN  /\ IsSession(t) /\ t.handler = s.handler /\ t.inbox = s.inbox
             /\ t.rcvd = s.rcvd /\ t.wrote = s.wrote
             /\ t.aeadChanged = s.aeadChanged
             /\ Events(t.handshakeChan) \subseteq Events(s.handshakeChan) \cup {"error"}
             /\ t.handshakeComplete = s.handshakeComplete
             /\ t.run = "ended" /\ t.pending = s.pending
<1>1. /\ Append(s.handshakeChan, "error") \in Seq(EventNames)
      /\ Events(Append(s.handshakeChan, "error")) = Events(s.handshakeChan) \cup {"error"}
  BY EventsAppend DEF IsSession, EventNames
<1> DEFINE chan == IF s.handshakeComplete THEN s.handshakeChan
                   ELSE Append(s.handshakeChan, "error")
<1>2. endRun(s) = [s EXCEPT !.run = "ended", !.handshakeChan = chan]
  BY Zenon DEF endRun
<1>3. chan \in Seq(EventNames) /\ Events(chan) \subseteq Events(s.handshakeChan) \cup {"error"}
  BY <1>1 DEF IsSession
<1> HIDE DEF chan
<1> QED BY <1>2, <1>3 DEF IsSession

\* The counters of both crypto streams, in their order: what the client has read, was sent,
\* what the server has written and read, was sent, what the client has written.
LEMMA Counts ==
  ASSUME HInv
  PROVE  /\ cs.rcvd \in Nat /\ cs.wrote \in Nat /\ Read(cs) \in Nat /\ Rejects \in Nat
         /\ ss[Conn].rcvd \in Nat /\ ss[Conn].wrote \in Nat /\ Read(ss[Conn]) \in Nat
         /\ Read(cs) <= cs.rcvd /\ cs.rcvd <= ss[Conn].wrote
         /\ ss[Conn].wrote <= Read(ss[Conn]) /\ Read(ss[Conn]) <= ss[Conn].rcvd
         /\ ss[Conn].rcvd <= cs.wrote /\ cs.wrote <= Read(cs) + 1 /\ cs.wrote <= Rejects + 1
         /\ Conn \in Conns /\ IsSession(cs) /\ IsSession(ss[Conn])
         /\ IsClientSetup(hc) /\ IsServerSetup(hs[Conn]) /\ IsClient(client)
<1>1. /\ Conn \in Conns /\ IsSession(cs) /\ IsSession(ss[Conn])
      /\ IsClientSetup(hc) /\ IsServerSetup(hs[Conn]) /\ IsClient(client)
  BY DEF HInv, Types, Conn, IsClient
<1>2. cs.rcvd \in Nat /\ cs.wrote \in Nat /\ ss[Conn].rcvd \in Nat /\ ss[Conn].wrote \in Nat
  BY <1>1 DEF IsSession
<1>3. /\ Read(cs) \in Int /\ Read(cs) <= cs.rcvd
      /\ Read(ss[Conn]) \in Int /\ Read(ss[Conn]) <= ss[Conn].rcvd
  BY <1>2 DEF Read
<1>4. Read(cs) >= 0 /\ Lockstep
  BY DEF HInv, Lockstep
<1> QED BY <1>1, <1>2, <1>3, <1>4, RejectionsType DEF Rejects, Lockstep

\* What was sent stays as it is while the counters grow and keys are not lost.
LEMMA PacketKept ==
  ASSUME HInv, NEW p \in net, UNCHANGED <<cache, serverVersions, client>>,
         cs'.wrote \in Nat, cs'.wrote >= cs.wrote,
         ss'[Conn].wrote \in Nat, ss'[Conn].wrote >= ss[Conn].wrote,
         ss'[Conn].wrote <= Rejects + 1,
         hc.forwardSecureAEAD # NoKey => hc'.forwardSecureAEAD # NoKey
  PROVE  PacketOK(p)'
<1>1. PacketOK(p)
  BY DEF HInv, Packets
<1>2. Conn' = Conn /\ Rejects' = Rejects /\ SecureKey' = SecureKey
  BY DEF Conn, Rejects, SecureKey
<1>3. \A n : HelloNo(n)' = HelloNo(n) /\ ReplyNo(n)' = ReplyNo(n)
  BY DEF HelloNo, ReplyNo
<1>4. ToServer(p) => ToServer(p)'
  BY <1>3, Counts DEF ToServer
<1>5. ToClient(p) => ToClient(p)'
  BY <1>2, <1>3, Counts DEF ToClient
<1> QED BY <1>1, <1>2, <1>4, <1>5 DEF PacketOK

-----------------------------------------------------------------------------
\* A finite set of versions has a largest one (ChooseSupportedVersion, and the version
\* the client starts with).
LEMMA PreferredExists ==
  ASSUME NEW S, IsFiniteSet(S), S # {}, S \subseteq Nat
  PROVE  Preferred(S) \in S /\ \A w \in S : w <= Preferred(S)
<1> DEFINE Above(v) == {w \in S : w > v}
           T == {Cardinality(Above(v)) : v \in S}
<1>1. ASSUME NEW v \in S
      PROVE  Above(v) \subseteq S /\ IsFiniteSet(Above(v)) /\ Cardinality(Above(v)) \in Nat
  <2>1. Above(v) \in SUBSET S
    OBVIOUS
  <2> HIDE DEF Above
  <2> QED BY <2>1, FS_Subset, FS_CardinalityType
<1>2. T \subseteq Nat /\ T # {}
  BY <1>1
<1>3. PICK x \in T : \A y \in T : ~(<<y, x>> \in OpToRel(<, Nat))
  <2> HIDE DEF T
  <2> QED BY <1>2, NatLessThanWellFounded, WFMin
<1>4. \A y \in T : ~(y < x)
  BY <1>2, <1>3 DEF OpToRel
<1>5. PICK v \in S : x = Cardinality(Above(v))
  OBVIOUS
<1>6. \A w \in S : w <= v
  <2> SUFFICES ASSUME NEW w \in S, w > v PROVE FALSE
    OBVIOUS
  <2>1. Above(w) \in SUBSET Above(v) /\ w \in Above(v) /\ w \notin Above(w)
    <3>1. v \in Nat /\ w \in Nat /\ \A u \in S : u \in Nat /\ (u > w => u > v)
      OBVIOUS
    <3>2. ~(w > w)
      BY <3>1
    <3> QED BY <3>1, <3>2
  <2>2. Cardinality(Above(w)) \in T
    OBVIOUS
  <2> HIDE DEF Above, T
  <2>3. Cardinality(Above(w)) < Cardinality(Above(v))
    BY <2>1, <1>1, FS_Subset
  <2> QED BY <1>4, <1>5, <2>2, <2>3
<1>7. \E u \in S : \A w \in S : w <= u
  BY <1>6
<1> QED BY <1>7, Zenon DEF Preferred

\* The best version both ends have is one both ends have.
LEMMA ChosenVersion ==
  ASSUME NEW ours, IsFiniteSet(ours), ours \subseteq Nat, NEW theirs
  PROVE  LET v == ChooseSupportedVersion(ours, theirs)
         IN  \/ v = VersionUnsupported /\ ours \cap theirs = {}
             \/ v # VersionUnsupported /\ v \in ours /\ v \in theirs
<1> DEFINE both == ours \cap theirs
           v == ChooseSupportedVersion(ours, theirs)
<1>1. CASE both = {}
  BY <1>1 DEF ChooseSupportedVersion
<1>2. CASE both # {}
  <2>1. both \in SUBSET ours /\ both \subseteq Nat
    OBVIOUS
  <2>2. IsFiniteSet(both)
    BY <2>1, FS_Subset
  <2>3. v = Preferred(both)
    BY <1>2 DEF ChooseSupportedVersion
  <2> HIDE DEF both, v
  <2>4. v \in both
    BY <1>2, <2>1, <2>2, <2>3, PreferredExists
  <2>5. v # VersionUnsupported
    BY <2>1, <2>4 DEF VersionUnsupported
  <2> QED BY <2>4, <2>5 DEF both, v
<1> QED BY <1>1, <1>2

\* A client that is not told another version has the best one already.
LEMMA FirstVersionStands ==
  ASSUME NEW ours, IsFiniteSet(ours), ours # {}, ours \subseteq Nat, NEW theirs,
         Preferred(ours) \in theirs
  PROVE  ChooseSupportedVersion(ours, theirs) = Preferred(ours)
<1> DEFINE both == ours \cap theirs
<1>1. Preferred(ours) \in both /\ \A w \in ours : w <= Preferred(ours)
  BY PreferredExists
<1>2. both \in SUBSET ours /\ both \subseteq Nat /\ both # {}
  BY <1>1
<1>3. IsFiniteSet(both)
  BY <1>2, FS_Subset
<1>4. ChooseSupportedVersion(ours, theirs) = Preferred(both)
  BY <1>2 DEF ChooseSupportedVersion
<1> HIDE DEF both
<1>5. Preferred(both) \in both /\ \A w \in both : w <= Preferred(both)
  BY <1>2, <1>3, PreferredExists
<1>6. /\ Preferred(ours) \in Nat /\ Preferred(both) \in Nat
      /\ Preferred(both) <= Preferred(ours) /\ Preferred(ours) <= Preferred(both)
  BY <1>1, <1>2, <1>5
<1> QED BY <1>4, <1>6
-----------------------------------------------------------------------------
\* The client's run loop packs the hello the handler waits with.
LEMMA ClientPackStep ==
  ASSUME HInv, ClientPack
  PROVE  HInv'
<1> DEFINE n == cs.wrote + 1
<1>1. /\ cs.handler = "write" /\ cs.pending = NoPacket /\ cs.run = "running"
      /\ UNCHANGED <<cache, serverVersions, client, hc, table, ss, hs, accepted>>
      /\ net' = net \cup {ClientPacket(NullKey, "CHLO", n, getTags(hc))}
  BY DEF ClientPack, Turning, serverVars
<1>2. n \in Nat /\ n = cs.wrote + 1
  BY Counts
<1>3. /\ IsSession(cs') /\ cs'.handler = "written" /\ cs'.inbox = cs.inbox
      /\ cs'.rcvd = cs.rcvd /\ cs'.wrote = n
      /\ cs'.aeadChanged = cs.aeadChanged /\ cs'.handshakeChan = cs.handshakeChan
      /\ cs'.handshakeComplete = cs.handshakeComplete
      /\ cs'.run = cs.run /\ cs'.pending = cs.pending
  <2>1. cs' = [cs EXCEPT !.wrote = n, !.handler = "written"]
    BY DEF ClientPack
  <2> HIDE DEF n
  <2> QED BY <1>1, <1>2, <2>1, Counts DEF IsSession
<1>4. cs.wrote = Read(cs) /\ n <= Rejects + 1 /\ hc.secureAEAD = NoKey
  BY <1>1, Counts DEF HInv, ClientTurn
<1>5. ~cs.handshakeComplete
  BY <1>1, <1>4, Counts DEF HInv, EventsTold, ClientKeys, ClientTurn
<1>6. getTags(hc) = HelloNo(n)
  BY <1>4, NextHello, Counts DEF HInv
<1>7. PICK q : /\ net' = net \cup {q} /\ IsPacket(q)
               /\ q.to = "server" /\ q.conn = Conn /\ q.ver = client.version
               /\ q.key = NullKey /\ q.type = "CHLO" /\ q.n = n /\ q.msg = HelloNo(n)
  <2> DEFINE q == Packet("server", Conn, client.version, NullKey, FALSE, "CHLO", n, HelloNo(n))
  <2>1. net' = net \cup {q}
    BY <1>1, <1>6, Zenon, KeysDiffer DEF ClientPacket, NullKey, Conn
  <2> HIDE DEF n
  <2>2. /\ IsPacket(q) /\ q.to = "server" /\ q.conn = Conn /\ q.ver = client.version
        /\ q.key = NullKey /\ q.type = "CHLO" /\ q.n = n /\ q.msg = HelloNo(n)
    BY DEF Packet, IsPacket
  <2> QED BY <2>1, <2>2
<1> HIDE DEF n
<1>p1. Types'
  BY <1>1, <1>3, <1>7 DEF HInv, Types
<1>p2. Negotiation'
  BY <1>1, <1>5, <1>7 DEF HInv, Negotiation, Fresh, NoSessionFor, Conn
<1>p3. Table'
  BY <1>1, <1>5 DEF HInv, Table, Fresh, Conn
<1>p4. Lockstep'
  BY <1>1, <1>2, <1>3, <1>4, Counts DEF HInv, Lockstep, ClientTurn, Read, Conn, Rejects
<1>p5. ClientKnows'
  BY <1>1, <1>3 DEF HInv, ClientKnows, Read, Conn, UnknownVersionListed
<1>p6. ClientTurn'
  BY <1>1, <1>2, <1>3 DEF HInv, ClientTurn, Read
<1>p7. ClientKeys'
  BY <1>1, <1>3, <1>4, Counts DEF HInv, ClientKeys, Rejects
<1>p8. ServerTurn'
  BY <1>1, <1>2, <1>4, Counts DEF HInv, ServerTurn, Conn, Rejects, ReplyNo
<1>p9. Packets'
  <2>1. ASSUME NEW p \in net PROVE PacketOK(p)'
    BY <1>1, <1>2, <1>3, Counts, PacketKept
  <2>2. PacketOK(q)'
    BY <1>1, <1>2, <1>3, <1>7, Counts, KeysDiffer DEF PacketOK, ToServer, HelloNo
  <2> QED BY <1>7, <2>1, <2>2 DEF Packets
<1>p10. EventsTold'
  BY <1>1, <1>3 DEF HInv, EventsTold, Conn
<1> QED BY <1>p1, <1>p2, <1>p3, <1>p4, <1>p5, <1>p6, <1>p7, <1>p8, <1>p9, <1>p10 DEF HInv

-----------------------------------------------------------------------------
\* Steps of the client's run loop that leave its handshake alone.
ClientTalkKept ==
  /\ IsSession(cs') /\ cs'.inbox = cs.inbox /\ cs'.rcvd = cs.rcvd /\ cs'.wrote = cs.wrote
  /\ \/ cs'.handler = cs.handler
     \/ cs.handler = "failed" /\ cs'.handler = "closed"

ClientEventsKept ==
  /\ Events(cs'.aeadChanged) \subseteq Events(cs.aeadChanged)
  /\ "secure" \in Events(cs'.handshakeChan) => hc.secureAEAD # NoKey
  /\ cs'.handshakeComplete => hc.forwardSecureAEAD # NoKey
  /\ cs.handshakeComplete => cs'.handshakeComplete
  /\ cs.run = "ended" => cs'.run = "ended"

PendingOK(p) ==
  p # NoPacket => /\ p.type = "SHLO" /\ p.n = Rejects + 1
                  /\ p.key = SecureKey /\ p.msg = ReplyNo(Rejects + 1)
                  /\ IsPacket(p) /\ ss[Conn].wrote = Rejects + 1

ClientSent(q) ==
  /\ IsPacket(q) /\ q.to = "server" /\ q.conn = Conn /\ q.type \in {"DATA", "CLOSE"}
  /\ q.key.level = "forward" => hc.forwardSecureAEAD # NoKey
  /\ \/ q.ver = 0
     \/ q.ver = client.version /\ ~cs.handshakeComplete /\ cs.run = "running"

\* What is left to show of a step of the client's session that leaves its crypto setup and
\* the place in the crypto stream.
LEMMA ClientQuietStep ==
  ASSUME HInv, UNCHANGED <<cache, serverVersions, client, hc, table, ss, hs, accepted>>,
         ClientTalkKept, ClientEventsKept, PendingOK(cs'.pending),
         \A q \in net' : q \in net \/ ClientSent(q), cs'.run = cs.run \/ cs'.run = "ended"
  PROVE  HInv'
<1>1. /\ UNCHANGED <<cache, serverVersions, client, hc, table, ss, hs, accepted>>
      /\ \A q \in net' : q \in net \/ ClientSent(q)
  OBVIOUS
<1>2. 0 \notin serverVersions
  BY HandshakeAssumption DEF HInv, Types
<1>p1. Types'
  BY <1>1, <1>2 DEF HInv, Types, ClientTalkKept, ClientSent
<1>p2. Negotiation'
  <2>1. \A j : Fresh(j) => Fresh(j)'
    BY <1>1 DEF Fresh
  <2>2. \A j \in Conns \ {Conn} : NoSessionFor(j) => NoSessionFor(j)'
    BY <1>1 DEF NoSessionFor, ClientSent
  <2>3. Conn' = Conn
    BY <1>1 DEF Conn
  <2> QED BY <1>1, <2>1, <2>2, <2>3, Counts DEF HInv, Negotiation, ClientSent, ClientEventsKept
<1>p3. Table'
  BY <1>1, <1>2, Counts DEF HInv, Types, Negotiation, Table, Fresh, NoSessionFor, Conn,
    ClientSent, ClientEventsKept
<1>p4. Lockstep'
  BY <1>1, Counts DEF HInv, Lockstep, Read, Conn, Rejects, HelloNo, ReplyNo, ClientTalkKept
<1>p5. ClientKnows'
  BY <1>1, Counts DEF HInv, ClientKnows, Read, Conn, UnknownVersionListed, ClientTalkKept
<1>p6. ClientTurn'
  BY <1>1, Counts DEF HInv, ClientTurn, Read, Conn, Rejects, HelloNo, ReplyNo, SecureKey,
    ClientTalkKept, PendingOK
<1>p7. ClientKeys'
  BY <1>1, Counts
    DEF HInv, ClientKeys, Read, Conn, Rejects, SecureKey, ForwardKey, ClientTalkKept
<1>p8. ServerTurn'
  BY <1>1, Counts DEF HInv, ServerTurn, Read, Conn, Rejects, ReplyNo, SecureKey, ForwardKey
<1>p9. Packets'
  <2>1. ASSUME NEW p \in net PROVE PacketOK(p)'
    BY <1>1, Counts, PacketKept DEF HInv, ClientTalkKept
  <2>2. ASSUME NEW q \in net', ClientSent(q) PROVE PacketOK(q)'
    BY <2>2, <1>1, Counts DEF ClientSent, PacketOK, ToServer, Conn
  <2> QED BY <1>1, <2>1, <2>2 DEF Packets
<1>p10. EventsTold'
  BY <1>1, Counts DEF HInv, EventsTold, Conn, ClientEventsKept
<1> QED BY <1>p1, <1>p2, <1>p3, <1>p4, <1>p5, <1>p6, <1>p7, <1>p8, <1>p9, <1>p10 DEF HInv

\* A packet of the client other than a hello gives the forward secure key away only if
\* the client has it.
LEMMA ClientSealed ==
  ASSUME HInv, cs.run = "running", NEW type \in {"DATA", "CLOSE"}
  PROVE  ClientSent(ClientPacket(ClientSealer(hc), type, 0, NoCHLO))
<1> DEFINE key == ClientSealer(hc)
           forward == key.level = "forward"
           ver == IF forward THEN 0 ELSE client.version
           q == Packet("server", Conn, ver, key, FALSE, type, 0, NoCHLO)
<1>1. key.level = "forward" <=> hc.forwardSecureAEAD # NoKey
  BY KeysDiffer DEF HInv, ClientKeys, ClientSealer, SecureKey, ForwardKey
<1>2. hc.forwardSecureAEAD = NoKey => ~cs.handshakeComplete
  BY DEF HInv, EventsTold
<1>3. ClientPacket(key, type, 0, NoCHLO) = q
  BY Zenon DEF ClientPacket, Conn
<1> HIDE DEF key
<1>4. /\ forward => ver = 0
      /\ ~forward => ver = client.version
  OBVIOUS
<1> HIDE DEF forward, ver
<1>5. /\ IsPacket(q) /\ q.to = "server" /\ q.conn = Conn /\ q.type = type
      /\ q.key = key /\ q.ver = ver
  BY DEF Packet, IsPacket
<1> HIDE DEF q
<1>6. type = "DATA" \/ type = "CLOSE"
  OBVIOUS
<1>7. ClientSent(q)
  <2>1. q.key.level = "forward" => hc.forwardSecureAEAD # NoKey
    BY <1>1, <1>5 DEF forward
  <2>2. q.ver = 0 \/ (q.ver = client.version /\ ~cs.handshakeComplete /\ cs.run = "running")
    BY <1>1, <1>2, <1>4, <1>5 DEF forward
  <2> QED BY <1>5, <1>6, <2>1, <2>2 DEF ClientSent
<1> QED BY <1>3, <1>7 DEF key

\* Errors and closes, of either end, events and data change nothing of the handshake.
LEMMA ClientQuietSteps ==
  ASSUME HInv,
         \/ ClientFailed \/ ClientSend \/ ClientEvent \/ ClientTimeout \/ ClientEnd
         \/ ClientAppClose \/ \E p \in net : ClientReset(p)
  PROVE  HInv'
<1>1. PendingOK(cs.pending) /\ PendingOK(NoPacket)
  BY DEF HInv, ClientTurn, PendingOK
<1>2. /\ "secure" \in Events(cs.handshakeChan) => hc.secureAEAD # NoKey
      /\ "secure" \in Events(cs.aeadChanged) => hc.secureAEAD # NoKey
      /\ cs.handshakeComplete \/ "closed" \in Events(cs.aeadChanged) => hc.forwardSecureAEAD # NoKey
  BY DEF HInv, EventsTold
<1>3. SUFFICES /\ UNCHANGED <<cache, serverVersions, client, hc, table, ss, hs, accepted>>
               /\ ClientTalkKept /\ ClientEventsKept /\ PendingOK(cs'.pending)
               /\ \A q \in net' : q \in net \/ ClientSent(q)
               /\ cs'.run = cs.run \/ cs'.run = "ended"
  BY <1>3, ClientQuietStep
<1>4. CASE ClientFailed
  <2>1. \E e : cs' = [closeSession(cs, e) EXCEPT !.handler = "closed"]
    BY <1>4 DEF ClientFailed
  <2>2. PICK t : /\ IsSession(t) /\ t.inbox = cs.inbox
                 /\ t.rcvd = cs.rcvd /\ t.wrote = cs.wrote
                 /\ t.aeadChanged = cs.aeadChanged /\ t.handshakeChan = cs.handshakeChan
                 /\ t.handshakeComplete = cs.handshakeComplete
                 /\ t.run = cs.run /\ t.pending = cs.pending
                 /\ cs' = [t EXCEPT !.handler = "closed"]
    BY <2>1, CloseSessionFacts, Counts
  <2>3. /\ IsSession(cs') /\ cs'.inbox = t.inbox /\ cs'.rcvd = t.rcvd /\ cs'.wrote = t.wrote
        /\ cs'.handler = "closed"
        /\ cs'.aeadChanged = t.aeadChanged /\ cs'.handshakeChan = t.handshakeChan
        /\ cs'.handshakeComplete = t.handshakeComplete
        /\ cs'.run = t.run /\ cs'.pending = t.pending
    BY <2>2 DEF IsSession
  <2>4. ClientTalkKept /\ ClientEventsKept /\ PendingOK(cs'.pending) /\ cs'.run = cs.run
    BY <1>1, <1>2, <1>4, <2>2, <2>3 DEF ClientFailed, ClientTalkKept, ClientEventsKept
  <2>5. UNCHANGED <<cache, serverVersions, client, hc, table, ss, hs, accepted>> /\ net' = net
    BY <1>4 DEF ClientFailed, serverVars
  <2> QED BY <2>4, <2>5
<1>5. CASE ClientSend
  <2> DEFINE q == ClientPacket(ClientSealer(hc), "DATA", 0, NoCHLO)
  <2>1. ClientSent(q)
    BY <1>5, ClientSealed DEF ClientSend, Turning
  <2>2. /\ UNCHANGED <<cache, serverVersions, client, cs, hc, table, ss, hs, accepted>>
        /\ net' = net \cup {q}
    BY <1>5 DEF ClientSend, serverVars, clientVars
  <2> HIDE DEF q
  <2>3. ClientTalkKept /\ ClientEventsKept /\ PendingOK(cs'.pending) /\ cs'.run = cs.run
    BY <1>1, <1>2, <2>2, Counts DEF ClientTalkKept, ClientEventsKept
  <2> QED BY <2>1, <2>2, <2>3
<1>6. CASE ClientEvent
  <2>1. cs' = passEvent(cs) /\ cs.aeadChanged # <<>>
    BY <1>6 DEF ClientEvent
  <2>2. ClientTalkKept /\ ClientEventsKept /\ PendingOK(cs'.pending) /\ cs'.run = cs.run
    BY <1>1, <1>2, <2>1, PassEventFacts, Counts DEF ClientTalkKept, ClientEventsKept
  <2>3. UNCHANGED <<cache, serverVersions, client, hc, table, ss, hs, accepted>> /\ net' = net
    BY <1>6 DEF ClientEvent, serverVars
  <2> QED BY <2>2, <2>3
<1>7. CASE ClientTimeout \/ ClientAppClose \/ \E p \in net : ClientReset(p)
  <2>1. \E e : cs' = closeSession(cs, e)
    BY <1>7 DEF ClientTimeout, ClientAppClose, ClientReset
  <2>2. ClientTalkKept /\ ClientEventsKept /\ PendingOK(cs'.pending) /\ cs'.run = cs.run
    BY <1>1, <1>2, <2>1, CloseSessionFacts, Counts DEF ClientTalkKept, ClientEventsKept
  <2>3. UNCHANGED <<cache, serverVersions, client, hc, table, ss, hs, accepted>> /\ net' = net
    BY <1>7 DEF ClientTimeout, ClientAppClose, ClientReset, serverVars
  <2> QED BY <2>2, <2>3
<1>8. CASE ClientEnd
  <2> DEFINE q == ClientPacket(ClientSealer(hc), "CLOSE", 0, NoCHLO)
  <2>1. ClientSent(q)
    BY <1>8, ClientSealed DEF ClientEnd
  <2>2. /\ UNCHANGED <<cache, serverVersions, client, hc, table, ss, hs, accepted>>
        /\ cs' = endRun(cs) /\ (net' = net \/ net' = net \cup {q})
    BY <1>8 DEF ClientEnd, serverVars
  <2> HIDE DEF q
  <2>3. ClientTalkKept /\ ClientEventsKept /\ PendingOK(cs'.pending) /\ cs'.run = "ended"
    BY <1>1, <1>2, <2>2, EndRunFacts, Counts DEF ClientTalkKept, ClientEventsKept
  <2> QED BY <2>1, <2>2, <2>3
<1> QED BY <1>4, <1>5, <1>6, <1>7, <1>8

-----------------------------------------------------------------------------
\* What maybeUpgradeCrypto and the counter of sendCHLO come to.
LEMMA ClientLoopHello ==
  ASSUME HInv, cs.handler = "loop", cs.run = "running"
  PROVE  LET up == maybeUpgradeCrypto(hc)
         IN  \/ hc.secureAEAD # NoKey /\ up = hc
             \/ /\ hc.secureAEAD = NoKey /\ hc.divNonce
                /\ up = [hc EXCEPT !.secureAEAD = SecureKey]
             \/ /\ hc.secureAEAD = NoKey /\ up = hc
                /\ cs.wrote = Read(cs) /\ Read(cs) <= Rejects
                /\ hc.hellos = cs.wrote
                /\ countCHLO(hc) = [hc EXCEPT !.hellos = hc.hellos + 1, !.err = "none"]
<1> DEFINE up == maybeUpgradeCrypto(hc)
<1>1. /\ hc.hellos = cs.wrote
      /\ \/ cs.wrote = Read(cs) /\ (Read(cs) <= Rejects \/ hc.secureAEAD # NoKey)
         \/ cs.wrote = Read(cs) + 1 /\ hc.divNonce
  BY DEF HInv, ClientTurn
<1>2. CASE hc.secureAEAD # NoKey
  BY <1>2, Zenon DEF maybeUpgradeCrypto
<1>3. CASE hc.secureAEAD = NoKey /\ hc.divNonce
  <2>1. cs.wrote = Rejects + 1 /\ Read(cs) = Rejects /\ cache # "stale"
    BY <1>1, <1>3, Counts DEF HInv, ClientKeys
  <2>2. Rejects >= 1 /\ (cache = "none" => Rejects = 2)
    BY RejectionsType DEF Rejects
  <2>3. cache \in {"none", "current", "stale"}
    BY HandshakeAssumption DEF HInv, Types
  <2>4. hc.conn = Conn /\ hc.scfg = "new" /\ hc.nonc = "new" /\ hc.cert /\ hc.serverVerified
    BY <2>1, <2>2, <2>3, Counts DEF HInv, ClientKnows
  <2>5. hc.lastSentCHLO = HelloNo(Rejects + 1)
    BY <2>1, Counts DEF HInv, ClientTurn
  <2>6. hc.lastSentCHLO # NoCHLO
    BY <2>5, HelloFacts DEF HelloNo
  <2>7. up = [hc EXCEPT !.secureAEAD = DerivedKey("secure", hc.conn, hc.lastSentCHLO, hc.scfg, hc.nonc)]
    BY <1>3, <2>4, <2>6, Zenon DEF maybeUpgradeCrypto
  <2>8. up = [hc EXCEPT !.secureAEAD = SecureKey]
    BY <2>4, <2>5, <2>7, Zenon DEF SecureKey, KeyOf, HelloNo, Rejects
  <2> QED BY <1>3, <2>8, Zenon
<1>4. CASE hc.secureAEAD = NoKey /\ ~hc.divNonce
  <2>1. up = hc
    BY <1>4, Zenon DEF maybeUpgradeCrypto
  <2>2. cs.wrote = Read(cs) /\ Read(cs) <= Rejects
    BY <1>1, <1>4
  <2>3. ~(hc.hellos + 1 > MaxClientHellos)
    BY <1>1, <2>2, Counts, RejectionsType, HandshakeAssumption DEF Rejects
  <2>4. countCHLO(hc) = [hc EXCEPT !.hellos = hc.hellos + 1, !.err = "none"]
    BY <2>3, Zenon DEF countCHLO
  <2> QED BY <1>1, <1>4, <2>1, <2>2, <2>4
<1> QED BY <1>2, <1>3, <1>4

\* The loop of HandleCryptoStream: the client has its secure key, or derives it from the
\* nonce it was given, or sends one more hello, never more than it may.
LEMMA ClientLoopStep ==
  ASSUME HInv, ClientLoop
  PROVE  HInv'
<1> DEFINE up == maybeUpgradeCrypto(hc)
           h == IF up.secureAEAD = NoKey THEN countCHLO(up) ELSE up
           turn == IF h.err # "none" THEN "failed"
                   ELSE IF up.secureAEAD = NoKey THEN "write" ELSE "select"
           told == IF up = hc THEN cs.aeadChanged ELSE Append(cs.aeadChanged, "secure")
<1>1. /\ cs.run = "running" /\ cs.handler = "loop"
      /\ UNCHANGED <<cache, serverVersions, client, table, ss, hs, accepted, net>>
  BY DEF ClientLoop, serverVars
<1>4. hc' = h /\ cs' = [cs EXCEPT !.handler = turn, !.aeadChanged = told]
  BY Zenon DEF ClientLoop
<1>5. /\ IsSession(cs) /\ IsClientSetup(hc) /\ hc.secureAEAD \in {NoKey, SecureKey}
      /\ SecureKey # NoKey
      /\ Append(cs.aeadChanged, "secure") \in Seq(EventNames)
      /\ Events(Append(cs.aeadChanged, "secure")) = Events(cs.aeadChanged) \cup {"secure"}
  BY Counts, KeysDiffer, EventsAppend DEF HInv, ClientKeys, IsSession, EventNames, SecureKey
<1>6. \/ hc.secureAEAD # NoKey /\ up = hc
      \/ /\ hc.secureAEAD = NoKey /\ hc.divNonce
         /\ up = [hc EXCEPT !.secureAEAD = SecureKey]
      \/ /\ hc.secureAEAD = NoKey /\ up = hc
         /\ cs.wrote = Read(cs) /\ Read(cs) <= Rejects
         /\ hc.hellos = cs.wrote
         /\ countCHLO(hc) = [hc EXCEPT !.hellos = hc.hellos + 1, !.err = "none"]
  BY <1>1, ClientLoopHello
<1>7. \/ /\ hc.secureAEAD # NoKey /\ h = hc /\ told = cs.aeadChanged
         /\ turn = IF hc.err # "none" THEN "failed" ELSE "select"
      \/ /\ hc.secureAEAD = NoKey /\ hc.divNonce
         /\ h = [hc EXCEPT !.secureAEAD = SecureKey] /\ told = Append(cs.aeadChanged, "secure")
         /\ turn = IF hc.err # "none" THEN "failed" ELSE "select"
      \/ /\ hc.secureAEAD = NoKey /\ told = cs.aeadChanged /\ turn = "write"
         /\ cs.wrote = Read(cs) /\ Read(cs) <= Rejects
         /\ hc.hellos = cs.wrote
         /\ h = [hc EXCEPT !.hellos = hc.hellos + 1, !.err = "none"]
  <2> HIDE DEF up
  <2>1. CASE hc.secureAEAD # NoKey /\ up = hc
    BY <2>1, Zenon
  <2>2. CASE hc.secureAEAD = NoKey /\ hc.divNonce /\ up = [hc EXCEPT !.secureAEAD = SecureKey]
    <3>1. up.secureAEAD = SecureKey /\ up.err = hc.err
      BY <2>2, <1>5 DEF IsClientSetup
    <3>2. up # hc
      BY <3>1, <2>2, <1>5
    <3> QED BY <2>2, <3>1, <3>2, <1>5, Zenon
  <2>3. CASE /\ hc.secureAEAD = NoKey /\ up = hc
             /\ cs.wrote = Read(cs) /\ Read(cs) <= Rejects
             /\ hc.hellos = cs.wrote
             /\ countCHLO(hc) = [hc EXCEPT !.hellos = hc.hellos + 1, !.err = "none"]
    <3>1. h = [hc EXCEPT !.hellos = hc.hellos + 1, !.err = "none"] /\ told = cs.aeadChanged
      BY <2>3, Zenon
    <3>2. h.err = "none"
      BY <3>1, <1>5 DEF IsClientSetup
    <3>3. turn = "write"
      BY <2>3, <3>2, Zenon
    <3> QED BY <2>3, <3>1, <3>3
  <2> QED BY <1>6, <2>1, <2>2, <2>3
<1> HIDE DEF up, h, turn, told
<1>3. /\ IsClientSetup(hc')
      /\ hc'.conn = hc.conn /\ hc'.version = hc.version
      /\ hc'.negotiatedVersions = hc.negotiatedVersions
      /\ hc'.stk = hc.stk /\ hc'.scfg = hc.scfg /\ hc'.nonc = hc.nonc
      /\ hc'.cert = hc.cert /\ hc'.serverVerified = hc.serverVerified
      /\ hc'.proof = hc.proof /\ hc'.divNonce = hc.divNonce
      /\ hc'.lastSentCHLO = hc.lastSentCHLO
      /\ hc'.receivedSecurePacket = hc.receivedSecurePacket
      /\ hc'.forwardSecureAEAD = hc.forwardSecureAEAD
      /\ hc'.secureAEAD \in {NoKey, SecureKey} /\ (hc.secureAEAD # NoKey => hc'.secureAEAD # NoKey)
      /\ hc'.err # "none" => hc.err # "none"
      /\ \/ /\ hc'.secureAEAD # NoKey /\ (hc.secureAEAD # NoKey \/ hc.divNonce)
            /\ turn \in {"failed", "select"} /\ hc'.hellos = hc.hellos
         \/ /\ hc'.secureAEAD = NoKey /\ turn = "write" /\ hc'.hellos = hc.hellos + 1
            /\ cs.wrote = Read(cs) /\ Read(cs) <= Rejects
      /\ \/ told = cs.aeadChanged
         \/ told = Append(cs.aeadChanged, "secure") /\ hc'.secureAEAD # NoKey
  <2>1. CASE hc.secureAEAD # NoKey
    BY <1>4, <1>5, <1>7, <2>1
  <2>2. CASE hc.secureAEAD = NoKey /\ told = Append(cs.aeadChanged, "secure") /\ hc.divNonce
            /\ h = [hc EXCEPT !.secureAEAD = SecureKey] /\ turn \in {"failed", "select"}
    <3> HIDE DEF SecureKey
    <3> QED BY <1>4, <1>5, <2>2 DEF IsClientSetup
  <2>3. CASE /\ hc.secureAEAD = NoKey /\ told = cs.aeadChanged /\ turn = "write"
             /\ cs.wrote = Read(cs) /\ Read(cs) <= Rejects
             /\ hc.hellos = cs.wrote
             /\ h = [hc EXCEPT !.hellos = hc.hellos + 1, !.err = "none"]
    <3> DEFINE n == hc.hellos + 1
    <3>1. n \in Nat /\ n = hc.hellos + 1
      BY <2>3, <1>5 DEF IsClientSetup
    <3>2. hc' = [hc EXCEPT !.hellos = n, !.err = "none"]
      BY <1>4, <2>3
    <3> HIDE DEF n
    <3> QED BY <1>5, <2>3, <3>1, <3>2 DEF IsClientSetup
  <2>4. turn = (IF hc.err # "none" THEN "failed" ELSE "select") => turn \in {"failed", "select"}
    OBVIOUS
  <2> QED BY <1>7, <2>1, <2>2, <2>3, <2>4
<1>2. /\ IsSession(cs') /\ cs'.handler = turn /\ cs'.inbox = cs.inbox
      /\ cs'.rcvd = cs.rcvd /\ cs'.wrote = cs.wrote
      /\ \/ Events(cs'.aeadChanged) = Events(cs.aeadChanged)
         \/ hc'.secureAEAD # NoKey /\ Events(cs'.aeadChanged) = Events(cs.aeadChanged) \cup {"secure"}
      /\ cs'.handshakeChan = cs.handshakeChan
      /\ cs'.handshakeComplete = cs.handshakeComplete
      /\ cs'.run = cs.run /\ cs'.pending = cs.pending
  <2>1. told \in Seq(EventNames)
    BY <1>3, <1>5 DEF IsSession
  <2>2. /\ IsSession(cs') /\ cs'.handler = turn /\ cs'.inbox = cs.inbox
        /\ cs'.rcvd = cs.rcvd /\ cs'.wrote = cs.wrote
        /\ cs'.aeadChanged = told /\ cs'.handshakeChan = cs.handshakeChan
        /\ cs'.handshakeComplete = cs.handshakeComplete
        /\ cs'.run = cs.run /\ cs'.pending = cs.pending
    BY <1>4, <1>5, <2>1 DEF IsSession
  <2> QED BY <1>3, <1>5, <2>2
<1>p1. Types'
  BY <1>1, <1>2, <1>3 DEF HInv, Types
<1>p2. Negotiation'
  BY <1>1, <1>2, <1>3 DEF HInv, Negotiation, Fresh, NoSessionFor, Conn
<1>p3. Table'
  BY <1>1, <1>2 DEF HInv, Table, Fresh, NoSessionFor, Conn
<1>p4. Lockstep'
  BY <1>1, <1>2 DEF HInv, Lockstep, Read, Conn, Rejects, HelloNo, ReplyNo
<1>p5. ClientKnows'
  BY <1>1, <1>2, <1>3 DEF HInv, ClientKnows, Read, Conn, UnknownVersionListed
<1>p6. ClientTurn'
  BY <1>1, <1>2, <1>3 DEF HInv, ClientTurn, Read, Conn, Rejects, HelloNo, ReplyNo, SecureKey
<1>p7. ClientKeys'
  BY <1>1, <1>2, <1>3 DEF HInv, ClientKeys, Read, Conn, Rejects, SecureKey, ForwardKey
<1>p8. ServerTurn'
  BY <1>1 DEF HInv, ServerTurn, Conn, Rejects, ReplyNo, SecureKey, ForwardKey
<1>p9. Packets'
  <2>1. ASSUME NEW p \in net PROVE PacketOK(p)'
    BY <1>1, <1>2, <1>3, Counts, PacketKept
  <2> QED BY <1>1, <2>1 DEF Packets
<1>p10. EventsTold'
  BY <1>1, <1>2, <1>3 DEF HInv, EventsTold, Conn
<1> QED BY <1>p1, <1>p2, <1>p3, <1>p4, <1>p5, <1>p6, <1>p7, <1>p8, <1>p9, <1>p10 DEF HInv

-----------------------------------------------------------------------------
\* The handler remembers the hello the run loop has packed.
LEMMA ClientWrittenStep ==
  ASSUME HInv, ClientWritten
  PROVE  HInv'
<1>1. /\ cs.run = "running" /\ cs.handler = "written"
      /\ UNCHANGED <<cache, serverVersions, client, table, ss, hs, accepted, net>>
  BY DEF ClientWritten, serverVars
<1>2. /\ IsSession(cs') /\ cs'.handler = "select" /\ cs'.inbox = cs.inbox
      /\ cs'.rcvd = cs.rcvd /\ cs'.wrote = cs.wrote
      /\ cs'.handshakeChan = cs.handshakeChan
      /\ cs'.handshakeComplete = cs.handshakeComplete /\ cs'.run = cs.run
      /\ cs'.aeadChanged = cs.aeadChanged /\ cs'.pending = cs.pending
  BY Counts DEF ClientWritten, IsSession
<1>3. /\ IsClientSetup(hc')
      /\ hc'.conn = hc.conn /\ hc'.version = hc.version
      /\ hc'.negotiatedVersions = hc.negotiatedVersions /\ hc'.hellos = hc.hellos
      /\ hc'.stk = hc.stk /\ hc'.scfg = hc.scfg
      /\ hc'.nonc = hc.nonc /\ hc'.cert = hc.cert
      /\ hc'.serverVerified = hc.serverVerified /\ hc'.proof = hc.proof
      /\ hc'.chloForSignature = hc.chloForSignature /\ hc'.divNonce = hc.divNonce
      /\ hc'.receivedSecurePacket = hc.receivedSecurePacket /\ hc'.secureAEAD = hc.secureAEAD
      /\ hc'.forwardSecureAEAD = hc.forwardSecureAEAD /\ hc'.err = hc.err
      /\ cs.wrote = Read(cs) + 1 /\ hc'.lastSentCHLO = HelloNo(cs.wrote)
  <2>1. getTags(hc) = HelloNo(Read(cs) + 1)
    BY NextHello, Counts DEF HInv
  <2>2. cs.wrote = Read(cs) + 1
    BY <1>1 DEF HInv, ClientTurn
  <2>3. hc' = [hc EXCEPT !.lastSentCHLO = HelloNo(cs.wrote)]
    BY <2>1, <2>2, Zenon DEF ClientWritten
  <2> QED BY <2>2, <2>3, Counts DEF IsClientSetup
<1>p1. Types'
  BY <1>1, <1>2, <1>3 DEF HInv, Types
<1>p2. Negotiation'
  BY <1>1, <1>2, <1>3 DEF HInv, Negotiation, Fresh, NoSessionFor, Conn
<1>p3. Table'
  BY <1>1, <1>2 DEF HInv, Table, Fresh, NoSessionFor, Conn
<1>p4. Lockstep'
  BY <1>1, <1>2 DEF HInv, Lockstep, Read, Conn, Rejects, HelloNo, ReplyNo
<1>p5. ClientKnows'
  BY <1>1, <1>2, <1>3 DEF HInv, ClientKnows, Read, Conn, UnknownVersionListed
<1>p6. ClientTurn'
  BY <1>1, <1>2, <1>3 DEF HInv, ClientTurn, Read, Conn, Rejects, HelloNo, ReplyNo, SecureKey
<1>p7. ClientKeys'
  BY <1>1, <1>2, <1>3, Counts DEF HInv, ClientKeys, Conn, Rejects, SecureKey
<1>p8. ServerTurn'
  BY <1>1 DEF HInv, ServerTurn, Conn, Rejects, ReplyNo, SecureKey, ForwardKey
<1>p9. Packets'
  <2>1. ASSUME NEW p \in net PROVE PacketOK(p)'
    BY <1>1, <1>2, <1>3, Counts, PacketKept
  <2> QED BY <1>1, <2>1 DEF Packets
<1>p10. EventsTold'
  BY <1>1, <1>2, <1>3 DEF HInv, EventsTold, Conn
<1> QED BY <1>p1, <1>p2, <1>p3, <1>p4, <1>p5, <1>p6, <1>p7, <1>p8, <1>p9, <1>p10 DEF HInv

\* A nonce comes with the SHLO, so the server has the keys.
LEMMA ClientNonceStep ==
  ASSUME HInv, ClientNonce
  PROVE  HInv'
<1>1. /\ cs.run = "running" /\ cs.handler = "select" /\ cs.pending # NoPacket
      /\ UNCHANGED <<cache, serverVersions, client, table, ss, hs, accepted, net>>
      /\ ss[Conn].wrote = Rejects + 1 /\ cache # "stale"
  BY Counts DEF ClientNonce, serverVars, HInv, ClientTurn, ServerTurn
<1>2. /\ IsSession(cs') /\ cs'.handler = "loop" /\ cs'.inbox = cs.inbox
      /\ cs'.rcvd = cs.rcvd /\ cs'.wrote = cs.wrote
      /\ cs'.handshakeChan = cs.handshakeChan
      /\ cs'.handshakeComplete = cs.handshakeComplete /\ cs'.run = cs.run
      /\ cs'.aeadChanged = cs.aeadChanged
      /\ cs'.pending.type = "SHLO" /\ cs'.pending.n = Rejects + 1
      /\ cs'.pending.key = SecureKey /\ cs'.pending.msg = ReplyNo(Rejects + 1)
      /\ IsPacket(cs'.pending)
  <2> DEFINE p == [cs.pending EXCEPT !.nonce = FALSE]
  <2>1. cs' = [cs EXCEPT !.pending = p, !.handler = "loop"]
    BY Zenon DEF ClientNonce
  <2>2. /\ cs.pending.type = "SHLO" /\ cs.pending.n = Rejects + 1
        /\ cs.pending.key = SecureKey /\ cs.pending.msg = ReplyNo(Rejects + 1)
        /\ IsPacket(cs.pending)
    BY <1>1 DEF HInv, ClientTurn
  <2>3. /\ p.type = "SHLO" /\ p.n = Rejects + 1
        /\ p.key = SecureKey /\ p.msg = ReplyNo(Rejects + 1)
        /\ IsPacket(p)
    BY <2>2 DEF IsPacket
  <2> HIDE DEF p
  <2>4. /\ IsSession(cs') /\ cs'.handler = "loop" /\ cs'.inbox = cs.inbox
        /\ cs'.rcvd = cs.rcvd /\ cs'.wrote = cs.wrote
        /\ cs'.handshakeChan = cs.handshakeChan
        /\ cs'.handshakeComplete = cs.handshakeComplete /\ cs'.run = cs.run
        /\ cs'.aeadChanged = cs.aeadChanged /\ cs'.pending = p
    BY <2>1, Counts DEF IsSession
  <2> QED BY <2>3, <2>4
<1>3. /\ IsClientSetup(hc') /\ hc'.divNonce
      /\ hc'.conn = hc.conn /\ hc'.version = hc.version
      /\ hc'.negotiatedVersions = hc.negotiatedVersions /\ hc'.hellos = hc.hellos
      /\ hc'.stk = hc.stk /\ hc'.scfg = hc.scfg
      /\ hc'.nonc = hc.nonc /\ hc'.cert = hc.cert
      /\ hc'.serverVerified = hc.serverVerified /\ hc'.proof = hc.proof
      /\ hc'.chloForSignature = hc.chloForSignature /\ hc'.lastSentCHLO = hc.lastSentCHLO
      /\ hc'.receivedSecurePacket = hc.receivedSecurePacket /\ hc'.secureAEAD = hc.secureAEAD
      /\ hc'.forwardSecureAEAD = hc.forwardSecureAEAD /\ hc'.err = hc.err
  BY Counts DEF ClientNonce, IsClientSetup
<1>p1. Types'
  BY <1>1, <1>2, <1>3 DEF HInv, Types
<1>p2. Negotiation'
  BY <1>1, <1>2, <1>3 DEF HInv, Negotiation, Fresh, NoSessionFor, Conn
<1>p3. Table'
  BY <1>1, <1>2 DEF HInv, Table, Fresh, NoSessionFor, Conn
<1>p4. Lockstep'
  BY <1>1, <1>2, Counts DEF HInv, Lockstep, Read, Conn, Rejects, ReplyNo
<1>p5. ClientKnows'
  BY <1>1, <1>2, <1>3 DEF HInv, ClientKnows, Read, Conn, UnknownVersionListed
<1>p6. ClientTurn'
  BY <1>1, <1>2, <1>3 DEF HInv, ClientTurn, Read, Conn, Rejects, HelloNo, ReplyNo, SecureKey
<1>p7. ClientKeys'
  BY <1>1, <1>2, <1>3, Counts DEF HInv, ClientKeys, Read, Conn, Rejects, SecureKey, ForwardKey
<1>p8. ServerTurn'
  BY <1>1 DEF HInv, ServerTurn, Conn, Rejects, ReplyNo, SecureKey, ForwardKey
<1>p9. Packets'
  <2>1. ASSUME NEW p \in net PROVE PacketOK(p)'
    BY <1>1, <1>2, <1>3, Counts, PacketKept
  <2> QED BY <1>1, <2>1 DEF Packets
<1>p10. EventsTold'
  BY <1>1, <1>2, <1>3 DEF HInv, EventsTold, Conn
<1> QED BY <1>p1, <1>p2, <1>p3, <1>p4, <1>p5, <1>p6, <1>p7, <1>p8, <1>p9, <1>p10 DEF HInv

-----------------------------------------------------------------------------
\* A REJ: the client keeps token and config, and from the second on the proof, which is
\* for the hello it sent last.
LEMMA ClientRejected ==
  ASSUME HInv, NEW n \in Nat, n = Read(cs) + 1, n <= Rejects, cs.wrote = n,
         hc.lastSentCHLO = HelloNo(n)
  PROVE  LET h == handleClientMessage(hc, ReplyNo(n))
         IN  /\ IsClientSetup(h)
             /\ h.conn = hc.conn /\ h.version = hc.version
             /\ h.negotiatedVersions = hc.negotiatedVersions /\ h.hellos = hc.hellos
             /\ h.divNonce = hc.divNonce /\ h.lastSentCHLO = hc.lastSentCHLO
             /\ h.receivedSecurePacket = hc.receivedSecurePacket /\ h.secureAEAD = hc.secureAEAD
             /\ h.forwardSecureAEAD = hc.forwardSecureAEAD /\ h.err = hc.err
             /\ h.stk = "given" /\ h.scfg = "new"
             /\ h.nonc = IF cache = "stale" THEN "old" ELSE "new"
             /\ h.cert \in BOOLEAN /\ (h.cert <=> n >= 2 \/ cache # "none")
             /\ h.serverVerified = h.cert
             /\ n <= 1 => h.proof = NoCHLO
<1> DEFINE m == ReplyNo(n)
           h == handleClientMessage(hc, m)
           nonc == IF hc.nonc = "none" THEN "new" ELSE hc.nonc
           known == [hc EXCEPT !.stk = "given", !.scfg = "new", !.nonc = nonc]
           told == IF m.proof = NoCHLO THEN known
                   ELSE [known EXCEPT !.proof = m.proof, !.cert = TRUE,
                                      !.chloForSignature = hc.lastSentCHLO]
<1>1. /\ m.tag = "REJ" /\ m.stk = "given" /\ m.scfg = "new"
      /\ m.proof = IF n >= 2 THEN HelloNo(n) ELSE NoCHLO
  BY Counts DEF ReplyNo, Reply, Rejects, HelloNo
<1>2. HelloNo(n) # NoCHLO
  BY HelloFacts DEF HelloNo
<1>3. cache \in {"none", "current", "stale"} /\ (cache # "none" => n = 1) /\ n <= 2 /\ n >= 1
  BY Counts, RejectionsType, HandshakeAssumption DEF HInv, Types, Rejects
<1>4. /\ hc.nonc = IF n = 1 /\ cache = "none" THEN "none" ELSE IF cache = "stale" THEN "old" ELSE "new"
      /\ hc.cert \in BOOLEAN /\ (hc.cert <=> cache # "none") /\ hc.serverVerified = hc.cert
      /\ hc.proof = NoCHLO
  BY <1>3, Counts DEF HInv, ClientKnows
<1>5. nonc = IF cache = "stale" THEN "old" ELSE "new"
  BY <1>3, <1>4
<1> HIDE DEF nonc
<1>6. /\ IsClientSetup(known) /\ known.stk = "given" /\ known.scfg = "new" /\ known.nonc = nonc
      /\ known.conn = hc.conn /\ known.version = hc.version
      /\ known.negotiatedVersions = hc.negotiatedVersions /\ known.hellos = hc.hellos
      /\ known.cert = hc.cert /\ known.serverVerified = hc.serverVerified
      /\ known.proof = hc.proof /\ known.chloForSignature = hc.chloForSignature
      /\ known.divNonce = hc.divNonce /\ known.lastSentCHLO = hc.lastSentCHLO
      /\ known.receivedSecurePacket = hc.receivedSecurePacket /\ known.secureAEAD = hc.secureAEAD
      /\ known.forwardSecureAEAD = hc.forwardSecureAEAD /\ known.err = hc.err
  BY Counts DEF IsClientSetup
<1>7. h = IF told.proof = NoCHLO \/ ~told.cert THEN told
          ELSE IF told.proof = told.chloForSignature
               THEN [told EXCEPT !.serverVerified = TRUE]
               ELSE [told EXCEPT !.err = "ProofInvalid"]
  BY <1>1, Zenon DEF handleClientMessage, handleREJMessage, nonc
<1> HIDE DEF known, h, m
<1>13. SUFFICES
             /\ IsClientSetup(h)
             /\ h.conn = hc.conn /\ h.version = hc.version
             /\ h.negotiatedVersions = hc.negotiatedVersions /\ h.hellos = hc.hellos
             /\ h.divNonce = hc.divNonce /\ h.lastSentCHLO = hc.lastSentCHLO
             /\ h.receivedSecurePacket = hc.receivedSecurePacket /\ h.secureAEAD = hc.secureAEAD
             /\ h.forwardSecureAEAD = hc.forwardSecureAEAD /\ h.err = hc.err
             /\ h.stk = "given" /\ h.scfg = "new"
             /\ h.nonc = IF cache = "stale" THEN "old" ELSE "new"
             /\ h.cert \in BOOLEAN /\ (h.cert <=> n >= 2 \/ cache # "none")
             /\ h.serverVerified = h.cert
             /\ n <= 1 => h.proof = NoCHLO
  BY Zenon DEF h, m
<1>8. CASE n <= 1
  <2>1. m.proof = NoCHLO
    BY <1>1, <1>8
  <2>2. told = known
    BY <2>1, Zenon
  <2> HIDE DEF told
  <2>3. h = known
    BY <1>4, <1>6, <1>7, <2>2
  <2> QED BY <1>3, <1>4, <1>5, <1>6, <1>8, <2>3
<1>9. CASE n >= 2
  <2>1. m.proof = HelloNo(n)
    BY <1>1, <1>9
  <2>2. told = [known EXCEPT !.proof = HelloNo(n), !.cert = TRUE, !.chloForSignature = HelloNo(n)]
    BY <2>1, <1>2, Zenon
  <2>3. /\ IsClientSetup(told) /\ told.proof = HelloNo(n) /\ told.cert = TRUE
        /\ told.chloForSignature = HelloNo(n)
        /\ told.stk = "given" /\ told.scfg = "new" /\ told.nonc = nonc
        /\ told.conn = hc.conn /\ told.version = hc.version
        /\ told.negotiatedVersions = hc.negotiatedVersions /\ told.hellos = hc.hellos
        /\ told.serverVerified = hc.serverVerified /\ told.divNonce = hc.divNonce
        /\ told.lastSentCHLO = hc.lastSentCHLO
        /\ told.receivedSecurePacket = hc.receivedSecurePacket
        /\ told.secureAEAD = hc.secureAEAD /\ told.forwardSecureAEAD = hc.forwardSecureAEAD
        /\ told.err = hc.err
    BY <1>6, <2>2 DEF IsClientSetup
  <2> HIDE DEF told
  <2>4. h = [told EXCEPT !.serverVerified = TRUE]
    BY <1>2, <1>7, <2>3, Zenon
  <2>5. /\ IsClientSetup(h) /\ h.proof = HelloNo(n)
        /\ h.cert \in BOOLEAN /\ (h.cert <=> TRUE) /\ h.serverVerified = h.cert
        /\ h.stk = "given" /\ h.scfg = "new" /\ h.nonc = nonc
        /\ h.conn = hc.conn /\ h.version = hc.version
        /\ h.negotiatedVersions = hc.negotiatedVersions /\ h.hellos = hc.hellos
        /\ h.divNonce = hc.divNonce /\ h.lastSentCHLO = hc.lastSentCHLO
        /\ h.receivedSecurePacket = hc.receivedSecurePacket /\ h.secureAEAD = hc.secureAEAD
        /\ h.forwardSecureAEAD = hc.forwardSecureAEAD /\ h.err = hc.err
    BY <2>3, <2>4 DEF IsClientSetup
  <2> QED BY <1>3, <1>5, <1>9, <2>5
<1> QED BY <1>3, <1>8, <1>9

\* The SHLO: the client has the secure key by then, which only the true hello gives, and
\* refuses the list of versions only where it was told one with a version it does not know.
LEMMA ClientAnswered ==
  ASSUME HInv, NEW n \in Nat, n = Read(cs) + 1, n = Rejects + 1, cs.rcvd = n, cs.wrote = n,
         hc.lastSentCHLO = HelloNo(n)
  PROVE  LET h == handleClientMessage(hc, ReplyNo(n))
         IN  /\ IsClientSetup(h) /\ hc.secureAEAD # NoKey /\ hc.forwardSecureAEAD = NoKey
             /\ h.conn = hc.conn /\ h.version = hc.version
             /\ h.negotiatedVersions = hc.negotiatedVersions /\ h.hellos = hc.hellos
             /\ h.stk = hc.stk /\ h.scfg = hc.scfg
             /\ h.nonc = hc.nonc /\ h.cert = hc.cert
             /\ h.serverVerified = hc.serverVerified /\ h.proof = hc.proof
             /\ h.divNonce = hc.divNonce /\ h.lastSentCHLO = hc.lastSentCHLO
             /\ h.receivedSecurePacket = hc.receivedSecurePacket /\ h.secureAEAD = hc.secureAEAD
             /\ \/ h.err = hc.err /\ h.forwardSecureAEAD = ForwardKey
                \/ UnknownVersionListed /\ h.forwardSecureAEAD = NoKey
<1> DEFINE m == ReplyNo(n)
           h == handleClientMessage(hc, m)
<1>1. m.tag = "SHLO" /\ m.versions = serverVersions
  BY Counts, ReplyTag DEF ReplyNo, Rejects
<1>2. hc.secureAEAD # NoKey /\ hc.receivedSecurePacket /\ cache # "stale" /\ hc.forwardSecureAEAD = NoKey
  BY Counts DEF HInv, ClientKeys
<1>3. cache \in {"none", "current", "stale"} /\ Rejects >= 1
  BY RejectionsType, HandshakeAssumption DEF HInv, Types, Rejects
<1>4. hc.conn = Conn /\ hc.scfg = "new" /\ hc.nonc = "new"
  BY <1>2, <1>3, Counts DEF HInv, ClientKnows
<1> HIDE DEF m
<1>5. h = IF ~validateVersionList(hc, serverVersions) THEN [hc EXCEPT !.err = "VersionNegotiationMismatch"]
          ELSE [hc EXCEPT !.forwardSecureAEAD =
                  DerivedKey("forward", hc.conn, hc.lastSentCHLO, hc.scfg, hc.nonc)]
  BY <1>1, <1>2, Zenon DEF handleClientMessage, handleSHLOMessage
<1>6. DerivedKey("forward", hc.conn, hc.lastSentCHLO, hc.scfg, hc.nonc) = ForwardKey
  BY <1>4, Zenon DEF ForwardKey, KeyOf, HelloNo, Rejects
<1> HIDE DEF h
<1>13. SUFFICES
             /\ IsClientSetup(h) /\ hc.secureAEAD # NoKey /\ hc.forwardSecureAEAD = NoKey
             /\ h.conn = hc.conn /\ h.version = hc.version
             /\ h.negotiatedVersions = hc.negotiatedVersions /\ h.hellos = hc.hellos
             /\ h.stk = hc.stk /\ h.scfg = hc.scfg
             /\ h.nonc = hc.nonc /\ h.cert = hc.cert
             /\ h.serverVerified = hc.serverVerified /\ h.proof = hc.proof
             /\ h.divNonce = hc.divNonce /\ h.lastSentCHLO = hc.lastSentCHLO
             /\ h.receivedSecurePacket = hc.receivedSecurePacket /\ h.secureAEAD = hc.secureAEAD
             /\ \/ h.err = hc.err /\ h.forwardSecureAEAD = ForwardKey
                \/ UnknownVersionListed /\ h.forwardSecureAEAD = NoKey
  BY Zenon DEF h, m
<1>7. CASE validateVersionList(hc, serverVersions)
  <2>1. h = [hc EXCEPT !.forwardSecureAEAD = ForwardKey]
    BY <1>5, <1>6, <1>7, Zenon
  <2> QED BY <1>2, <2>1, Counts DEF IsClientSetup
<1>8. CASE ~validateVersionList(hc, serverVersions)
  <2>1. h = [hc EXCEPT !.err = "VersionNegotiationMismatch"]
    BY <1>5, <1>8, Zenon
  <2>2. hc.negotiatedVersions = {} \/ hc.negotiatedVersions = serverVersions
    BY DEF HInv, ClientKnows
  <2>3. UnknownVersionListed
    BY <1>8, <2>2, Zenon DEF UnknownVersionListed, validateVersionList
  <2> QED BY <1>2, <2>1, <2>3, Counts DEF IsClientSetup
<1> QED BY <1>7, <1>8

\* The handler reads a reply.
LEMMA ClientMessageStep ==
  ASSUME HInv, ClientMessage
  PROVE  HInv'
<1> DEFINE n == cs.rcvd
           h == handleClientMessage(hc, ReplyNo(n))
<1>1. /\ cs.run = "running" /\ cs.handler = "select"
      /\ UNCHANGED <<cache, serverVersions, client, table, ss, hs, accepted, net>>
  BY DEF ClientMessage, serverVars
<1>2. /\ cs.inbox = <<ReplyNo(n)>> /\ n \in Nat /\ n = Read(cs) + 1 /\ cs.wrote = n
      /\ hc.lastSentCHLO = HelloNo(n) /\ n <= Rejects + 1
      /\ hc.hellos = n /\ (n = Rejects + 1 => hc.secureAEAD # NoKey)
  <2>1. cs.inbox = <<ReplyNo(n)>> /\ n = Read(cs) + 1
    BY Counts DEF ClientMessage, HInv, Lockstep, Read
  <2> QED BY <1>1, <2>1, Counts DEF HInv, ClientTurn, ClientKeys
<1>6. hc' = h
  BY <1>2, Inboxes, Zenon DEF ClientMessage
<1>7. \/ n <= Rejects /\ n <= cs.wrote
      \/ n = Rejects + 1
  BY <1>2, Counts
<1> HIDE DEF n, h
<1>3. /\ IsClientSetup(hc')
      /\ hc'.conn = hc.conn /\ hc'.version = hc.version
      /\ hc'.negotiatedVersions = hc.negotiatedVersions /\ hc'.hellos = hc.hellos
      /\ hc'.divNonce = hc.divNonce /\ hc'.lastSentCHLO = hc.lastSentCHLO
      /\ hc'.receivedSecurePacket = hc.receivedSecurePacket /\ hc'.secureAEAD = hc.secureAEAD
      /\ hc'.stk = "given" /\ hc'.scfg = "new"
      /\ hc'.nonc = IF cache = "stale" THEN "old" ELSE "new"
      /\ hc'.cert \in BOOLEAN /\ (hc'.cert <=> n >= 2 \/ cache # "none")
      /\ hc'.serverVerified = hc'.cert
      /\ n <= 1 => hc'.proof = NoCHLO
      /\ hc'.err # "none" => UnknownVersionListed
      /\ \/ hc'.forwardSecureAEAD = hc.forwardSecureAEAD
         \/ /\ n = Rejects + 1 /\ hc'.forwardSecureAEAD = ForwardKey
            /\ hc.forwardSecureAEAD = NoKey
  <2>1. hc.err # "none" => UnknownVersionListed
    BY DEF HInv, ClientKnows
  <2>2. CASE n <= Rejects
    <3> QED BY <1>2, <1>6, <2>1, <2>2, ClientRejected DEF h
  <2>3. CASE n = Rejects + 1
    <3>1. /\ n >= 2 /\ (cache = "none" => Rejects = 2)
          /\ cache \in {"none", "current", "stale"}
      BY <1>2, <2>3, RejectionsType, HandshakeAssumption DEF HInv, Types, Rejects
    <3>2. /\ hc.stk = "given" /\ hc.scfg = "new" /\ hc.nonc = IF cache = "stale" THEN "old" ELSE "new"
          /\ hc.cert \in BOOLEAN /\ (hc.cert <=> n >= 2 \/ cache # "none")
          /\ hc.serverVerified = hc.cert
      BY <1>2, <2>3, <3>1, Counts DEF HInv, ClientKnows
    <3>3. cs.rcvd = n
      BY DEF n
    <3> QED BY <1>2, <1>6, <2>1, <2>3, <3>1, <3>2, <3>3, ClientAnswered DEF h
  <2> QED BY <1>7, <2>2, <2>3
<1>4. /\ IsSession(cs') /\ cs'.handler \in {"failed", "loop"} /\ cs'.inbox = <<>>
      /\ cs'.rcvd = cs.rcvd /\ cs'.wrote = cs.wrote
      /\ cs'.handshakeChan = cs.handshakeChan
      /\ cs'.handshakeComplete = cs.handshakeComplete /\ cs'.run = cs.run
      /\ cs'.pending = cs.pending
      /\ \/ Events(cs'.aeadChanged) = Events(cs.aeadChanged)
         \/ /\ Events(cs'.aeadChanged) = Events(cs.aeadChanged) \cup {"forward", "closed"}
            /\ hc'.forwardSecureAEAD # NoKey
  <2> DEFINE turn == IF hc'.err # "none" THEN "failed" ELSE "loop"
             same == hc'.forwardSecureAEAD = hc.forwardSecureAEAD
             told == IF same THEN cs.aeadChanged ELSE cs.aeadChanged \o <<"forward", "closed">>
  <2>1. cs' = [cs EXCEPT !.inbox = <<>>, !.handler = turn, !.aeadChanged = told]
    <3>1. Tail(cs.inbox) = <<>>
      BY <1>2, Inboxes
    <3> QED BY <3>1, Zenon DEF ClientMessage
  <2>2. /\ cs.aeadChanged \in Seq(EventNames)
        /\ cs.aeadChanged \o <<"forward", "closed">> \in Seq(EventNames)
        /\ Events(cs.aeadChanged \o <<"forward", "closed">>) = Events(cs.aeadChanged) \cup {"forward", "closed"}
    BY EventsForward, Counts DEF IsSession
  <2>3. told \in Seq(EventNames) /\ turn \in {"failed", "loop"}
    BY <2>2
  <2>4. \/ Events(told) = Events(cs.aeadChanged)
        \/ /\ Events(told) = Events(cs.aeadChanged) \cup {"forward", "closed"}
           /\ hc'.forwardSecureAEAD # NoKey
    <3>1. CASE same BY <3>1
    <3>2. CASE ~same
      <4>1. hc'.forwardSecureAEAD # NoKey
        BY <1>3, <3>2, KeysDiffer DEF ForwardKey
      <4> QED BY <2>2, <3>2, <4>1
    <3> QED BY <3>1, <3>2
  <2> HIDE DEF turn, told
  <2>5. /\ IsSession(cs') /\ cs'.handler = turn /\ cs'.inbox = <<>>
        /\ cs'.rcvd = cs.rcvd /\ cs'.wrote = cs.wrote
        /\ cs'.handshakeChan = cs.handshakeChan
        /\ cs'.handshakeComplete = cs.handshakeComplete /\ cs'.run = cs.run
        /\ cs'.pending = cs.pending /\ cs'.aeadChanged = told
    BY <2>1, <2>3, Counts DEF IsSession
  <2> QED BY <2>3, <2>4, <2>5
<1>5. cs.rcvd = n
  BY DEF n
<1>p1. Types'
  BY <1>1, <1>3, <1>4 DEF HInv, Types
<1>p2. Negotiation'
  BY <1>1, <1>3, <1>4 DEF HInv, Negotiation, Fresh, NoSessionFor, Conn
<1>p3. Table'
  BY <1>1, <1>4 DEF HInv, Table, Fresh, NoSessionFor, Conn
<1>p4. Lockstep'
  BY <1>1, <1>2, <1>4, <1>5, Counts DEF Lockstep, Read, Conn, Rejects
<1>p5. ClientKnows'
  BY <1>1, <1>2, <1>3, <1>4, Counts DEF HInv, ClientKnows, Read, Conn, UnknownVersionListed
<1>p6. ClientTurn'
  BY <1>1, <1>2, <1>3, <1>4, Counts
    DEF HInv, ClientTurn, Read, Conn, Rejects, ReplyNo, SecureKey
<1>p7. ClientKeys'
  BY <1>1, <1>3, <1>4, <1>5, Counts
    DEF HInv, ClientKeys, Read, Conn, Rejects, SecureKey, ForwardKey
<1>p8. ServerTurn'
  BY <1>1 DEF HInv, ServerTurn, Conn, Rejects, ReplyNo, SecureKey, ForwardKey
<1>p9. Packets'
  <2>1. ASSUME NEW p \in net PROVE PacketOK(p)'
    BY <1>1, <1>3, <1>4, Counts, PacketKept
  <2> QED BY <1>1, <2>1 DEF Packets
<1>p10. EventsTold'
  BY <1>1, <1>3, <1>4 DEF HInv, EventsTold, Conn
<1> QED BY <1>p1, <1>p2, <1>p3, <1>p4, <1>p5, <1>p6, <1>p7, <1>p8, <1>p9, <1>p10 DEF HInv

-----------------------------------------------------------------------------
\* The client opens a packet, if it can, and takes its frame.  The last reply opens with
\* the secure key only.
ReplyFound(p) ==
  /\ p.type # "CHLO"
  /\ p.type \in {"REJ", "SHLO"} =>
       /\ p.n \in 1..ss[Conn].wrote /\ p.msg = ReplyNo(p.n)
       /\ p.n = Rejects + 1 => p.key = SecureKey

\* The client's run loop opens a packet and takes its frame.
LEMMA ClientUnpackStep ==
  ASSUME HInv, cs.run = "running", NEW p, ReplyFound(p), clientUnpack(p),
         UNCHANGED <<cache, serverVersions, client, table, ss, hs, accepted, net>>
  PROVE  HInv'
<1> DEFINE level == ClientOpen(hc, p.key)
           next == p.type \in {"REJ", "SHLO"} /\ p.n = cs.rcvd + 1
           s == IF level = "none" THEN cs ELSE handleFrame(cs, p)
           seen == hc.receivedSecurePacket \/ level = "secure"
<1>1. /\ cs.run = "running"
      /\ UNCHANGED <<cache, serverVersions, client, table, ss, hs, accepted, net>>
  OBVIOUS
<1>6. p.n = Rejects + 1 /\ p.type \in {"REJ", "SHLO"} /\ level # "none"
         => hc.secureAEAD # NoKey /\ level = "secure"
  BY KeysDiffer DEF ClientOpen, ReplyFound, HInv, ClientKeys, SecureKey, ForwardKey
<1>7. \/ /\ s.inbox = cs.inbox /\ s.rcvd = cs.rcvd
      \/ /\ next /\ level # "none"
         /\ s.inbox = Append(cs.inbox, p.msg) /\ s.rcvd = cs.rcvd + 1
  BY HandleFrameFacts, Counts DEF ReplyFound
<1>8. /\ IsSession(s) /\ s.handler = cs.handler /\ s.wrote = cs.wrote
      /\ s.aeadChanged = cs.aeadChanged /\ s.handshakeChan = cs.handshakeChan
      /\ s.handshakeComplete = cs.handshakeComplete /\ s.run = cs.run
  BY HandleFrameFacts, Counts
<1>9. cs' = [s EXCEPT !.pending = NoPacket] /\ hc' = [hc EXCEPT !.receivedSecurePacket = seen]
  BY Zenon DEF clientUnpack
<1>10. seen \in BOOLEAN /\ (hc.receivedSecurePacket => seen) /\ (level = "secure" => seen)
  OBVIOUS
<1> HIDE DEF s, seen
<1>2. /\ IsSession(cs') /\ cs'.handler = cs.handler /\ cs'.wrote = cs.wrote
      /\ cs'.inbox = s.inbox /\ cs'.rcvd = s.rcvd
      /\ cs'.aeadChanged = cs.aeadChanged /\ cs'.handshakeChan = cs.handshakeChan
      /\ cs'.handshakeComplete = cs.handshakeComplete /\ cs'.run = cs.run
      /\ cs'.pending = NoPacket
  BY <1>8, <1>9 DEF IsSession
<1>3. /\ IsClientSetup(hc')
      /\ hc'.conn = hc.conn /\ hc'.version = hc.version
      /\ hc'.negotiatedVersions = hc.negotiatedVersions /\ hc'.hellos = hc.hellos
      /\ hc'.stk = hc.stk /\ hc'.scfg = hc.scfg
      /\ hc'.nonc = hc.nonc /\ hc'.cert = hc.cert
      /\ hc'.serverVerified = hc.serverVerified /\ hc'.proof = hc.proof
      /\ hc'.chloForSignature = hc.chloForSignature /\ hc'.divNonce = hc.divNonce
      /\ hc'.lastSentCHLO = hc.lastSentCHLO /\ hc'.secureAEAD = hc.secureAEAD
      /\ hc'.forwardSecureAEAD = hc.forwardSecureAEAD /\ hc'.err = hc.err
      /\ hc'.receivedSecurePacket = seen
  BY <1>9, <1>10, Counts DEF IsClientSetup
<1>4. \/ cs'.inbox = cs.inbox /\ cs'.rcvd = cs.rcvd
      \/ /\ cs.inbox = <<>> /\ cs'.inbox = <<ReplyNo(cs'.rcvd)>>
         /\ cs'.rcvd = cs.rcvd + 1 /\ cs'.rcvd <= ss[Conn].wrote
         /\ cs'.rcvd = Rejects + 1 => hc.secureAEAD # NoKey /\ hc'.receivedSecurePacket
  <2>1. CASE s.inbox = cs.inbox /\ s.rcvd = cs.rcvd
    BY <1>2, <2>1
  <2>2. CASE next /\ level # "none" /\ s.inbox = Append(cs.inbox, p.msg) /\ s.rcvd = cs.rcvd + 1
    <3>1. p.n = cs.rcvd + 1 /\ p.n \in 1..ss[Conn].wrote /\ p.msg = ReplyNo(p.n)
      BY <2>2 DEF ReplyFound
    <3>2. cs.inbox = <<>>
      <4>1. cs.inbox # <<>> => Read(cs) = cs.rcvd - 1
        BY DEF Read
      <4> QED BY <3>1, <4>1, Counts
    <3>3. cs'.inbox = <<ReplyNo(cs'.rcvd)>>
      BY <1>2, <2>2, <3>1, <3>2, Inboxes
    <3>4. cs'.rcvd = Rejects + 1 => hc.secureAEAD # NoKey /\ hc'.receivedSecurePacket
      BY <1>2, <1>3, <1>6, <1>10, <2>2, <3>1
    <3> QED BY <1>2, <2>2, <3>1, <3>2, <3>3, <3>4, Counts
  <2> QED BY <1>7, <2>1, <2>2
<1>5. Read(cs') = Read(cs) /\ (hc.receivedSecurePacket => hc'.receivedSecurePacket)
  <2>1. Read(cs') = Read(cs)
    <3>1. CASE cs'.inbox = cs.inbox /\ cs'.rcvd = cs.rcvd
      BY <3>1, Zenon DEF Read
    <3>2. CASE cs.inbox = <<>> /\ cs'.inbox = <<ReplyNo(cs'.rcvd)>> /\ cs'.rcvd = cs.rcvd + 1
      <4>1. cs'.inbox # <<>>
        BY <3>2, Inboxes
      <4>2. Read(cs) = cs.rcvd /\ Read(cs') = cs'.rcvd - 1
        BY <3>2, <4>1, Zenon DEF Read
      <4> QED BY <3>2, <4>2, Counts
    <3> QED BY <1>4, <3>1, <3>2
  <2> QED BY <1>3, <1>10, <2>1
<1> HIDE DEF level, next
<1>p1. Types'
  BY <1>2, <1>3 DEF HInv, Types
<1>p2. Negotiation'
  BY <1>2, <1>3 DEF HInv, Negotiation, Fresh, NoSessionFor, Conn
<1>p3. Table'
  BY <1>2 DEF HInv, Table, Fresh, NoSessionFor, Conn
<1>p4. Lockstep'
  BY <1>1, <1>2, <1>3, <1>4, <1>5, Counts, RejectionsType, KeysDiffer
    DEF HInv, Types, Lockstep, ClientTurn, ServerTurn, Read, Conn, Rejects, HelloNo, ReplyNo
<1>p5. ClientKnows'
  BY <1>3, <1>5 DEF HInv, ClientKnows, Conn, UnknownVersionListed
<1>p6. ClientTurn'
  BY <1>2, <1>3, <1>5 DEF HInv, ClientTurn, Rejects, HelloNo
<1>p7. ClientKeys'
  BY <1>3, <1>4, <1>5 DEF HInv, ClientKeys, Conn, Rejects, SecureKey, ForwardKey
<1>p8. ServerTurn'
  BY Counts DEF HInv, ServerTurn, Conn, Rejects, ReplyNo, SecureKey, ForwardKey
<1>p9. Packets'
  <2>1. ASSUME NEW r \in net PROVE PacketOK(r)'
    BY <1>2, <1>3, Counts, PacketKept
  <2> QED BY <2>1 DEF Packets
<1>p10. EventsTold'
  BY <1>2, <1>3 DEF HInv, EventsTold, Conn
<1> QED BY <1>p1, <1>p2, <1>p3, <1>p4, <1>p5, <1>p6, <1>p7, <1>p8, <1>p9, <1>p10 DEF HInv

\* A packet from the network, held up if it has a nonce.
LEMMA ClientReceiveStep ==
  ASSUME HInv, NEW p \in net, ClientReceive(p)
  PROVE  HInv'
<1>1. /\ cs.run = "running" /\ p.to = "client" /\ p.conn = Conn /\ p.type \notin {"VN", "RESET"}
      /\ UNCHANGED <<cache, serverVersions, client, table, ss, hs, accepted, net>>
      /\ IF p.nonce THEN cs' = [cs EXCEPT !.pending = p] /\ UNCHANGED hc ELSE clientUnpack(p)
  BY DEF ClientReceive, Turning, serverVars, Conn
<1>2. ToClient(p) /\ IsPacket(p)
  BY <1>1 DEF HInv, Packets, PacketOK, Types
<1>3. CASE p.nonce
  <2>1. PendingOK(p)
    BY <1>1, <1>2, <1>3 DEF PendingOK, ToClient
  <2>2. /\ IsSession(cs') /\ cs'.handler = cs.handler /\ cs'.inbox = cs.inbox
        /\ cs'.rcvd = cs.rcvd /\ cs'.wrote = cs.wrote
        /\ cs'.aeadChanged = cs.aeadChanged /\ cs'.handshakeChan = cs.handshakeChan
        /\ cs'.handshakeComplete = cs.handshakeComplete /\ cs'.run = cs.run
        /\ cs'.pending = p
    BY <1>1, <1>3, Counts DEF IsSession
  <2>3. ClientTalkKept /\ ClientEventsKept
    BY <2>2, Counts DEF HInv, EventsTold, ClientTalkKept, ClientEventsKept
  <2> QED BY <1>1, <1>3, <2>1, <2>2, <2>3, ClientQuietStep
<1>4. CASE ~p.nonce
  <2>1. ReplyFound(p)
    BY <1>1, <1>2, Counts, RejectionsType DEF ReplyFound, ToClient, Rejects
  <2> QED BY <1>1, <1>4, <2>1, ClientUnpackStep
<1> QED BY <1>3, <1>4

\* The packet the run loop was held up with.
LEMMA ClientResumeStep ==
  ASSUME HInv, ClientResume
  PROVE  HInv'
<1>1. /\ cs.run = "running" /\ cs.pending # NoPacket /\ clientUnpack(cs.pending)
      /\ UNCHANGED <<cache, serverVersions, client, table, ss, hs, accepted, net>>
  BY DEF ClientResume, serverVars
<1>2. ReplyFound(cs.pending)
  BY <1>1, Counts, RejectionsType DEF ReplyFound, Rejects, HInv, ClientTurn
<1> QED BY <1>1, <1>2, ClientUnpackStep

-----------------------------------------------------------------------------
\* A step of Dial, or of the goroutine in listen: the client's own record changes, and
\* its session at most by an error it is closed with.
LEMMA ClientDialed ==
  ASSUME HInv, UNCHANGED <<cache, serverVersions, hc, table, ss, hs, accepted, net>>,
         ClientTalkKept, ClientEventsKept, PendingOK(cs'.pending),
         cs'.run = cs.run, cs'.handler = cs.handler,
         IsClient(client'), client'.version = client.version,
         client'.connectionID = client.connectionID,
         client.receivedVersionNegotiationPacket => client'.receivedVersionNegotiationPacket,
         ~client'.versionNegotiated => client'.dial \in {"version", "failed"},
         client'.dial \in {"established", "complete"} => hc.secureAEAD # NoKey,
         client'.dial = "complete" => cs'.handshakeComplete
  PROVE  HInv'
<1>1. /\ UNCHANGED <<cache, serverVersions, hc, table, ss, hs, accepted, net>>
      /\ client'.version = client.version /\ Conn' = Conn /\ cs'.run = cs.run
  BY DEF Conn
<1>2. SecureKey' = SecureKey /\ ForwardKey' = ForwardKey /\ Rejects' = Rejects
  BY <1>1, Zenon DEF SecureKey, ForwardKey, Rejects
<1>3. \A n : HelloNo(n)' = HelloNo(n) /\ ReplyNo(n)' = ReplyNo(n)
  BY <1>1, Zenon DEF HelloNo, ReplyNo
<1>p1. Types'
  BY <1>1 DEF HInv, Types, ClientTalkKept
<1>p2. Negotiation'
  <2>1. \A j : (Fresh(j) => Fresh(j)') /\ (NoSessionFor(j) => NoSessionFor(j)')
    BY <1>1 DEF Fresh, NoSessionFor
  <2> QED BY <1>1, <2>1, Counts DEF HInv, Negotiation
<1>p3. Table'
  <2>1. (Fresh(Conn) => Fresh(Conn)') /\ (NoSessionFor(Conn) => NoSessionFor(Conn)')
    BY <1>1 DEF Fresh, NoSessionFor
  <2> QED BY <1>1, <2>1, Counts DEF HInv, Table, ClientEventsKept
<1>p4. Lockstep'
  BY <1>1, <1>2, <1>3, Counts DEF HInv, Lockstep, Read, ClientTalkKept
<1>p5. ClientKnows'
  BY <1>1, Counts DEF HInv, ClientKnows, Read, UnknownVersionListed, ClientTalkKept
<1>p6. ClientTurn'
  BY <1>1, <1>2, <1>3, Counts DEF HInv, ClientTurn, Read, ClientTalkKept, PendingOK
<1>p7. ClientKeys'
  BY <1>1, <1>2, <1>3, Counts DEF HInv, ClientKeys, Read, ClientTalkKept
<1>p8. ServerTurn'
  BY <1>1, <1>2, <1>3, Counts DEF HInv, ServerTurn, Read
<1>p9. Packets'
  <2> SUFFICES ASSUME NEW p \in net PROVE PacketOK(p)'
    BY <1>1 DEF Packets
  <2>1. PacketOK(p)
    BY DEF HInv, Packets
  <2>2. ToServer(p) => ToServer(p)'
    BY <1>1, <1>3, Counts DEF ToServer, ClientTalkKept
  <2>3. ToClient(p) => ToClient(p)'
    BY <1>1, <1>2, <1>3, Counts DEF ToClient
  <2> QED BY <1>1, <2>1, <2>2, <2>3 DEF PacketOK
<1>p10. EventsTold'
  BY <1>1, Counts DEF HInv, EventsTold, ClientEventsKept
<1> QED BY <1>p1, <1>p2, <1>p3, <1>p4, <1>p5, <1>p6, <1>p7, <1>p8, <1>p9, <1>p10 DEF HInv

\* Dial waits for the version, then for the secure key, then for the end of the handshake.
LEMMA ClientDialSteps ==
  ASSUME HInv, DialStep \/ DialFails \/ \E p \in net : ClientDispatch(p)
  PROVE  HInv'
<1>1. UNCHANGED <<cache, serverVersions, cs, hc, table, ss, hs, accepted, net>>
  BY DEF DialStep, DialFails, ClientDispatch, serverVars
<1>2. /\ ClientTalkKept /\ ClientEventsKept /\ PendingOK(cs'.pending)
      /\ cs'.run = cs.run /\ cs'.handler = cs.handler
  BY <1>1, Counts DEF HInv, EventsTold, ClientTurn, ClientTalkKept, ClientEventsKept, PendingOK
<1>3. /\ IsClient(client)
      /\ ~client.versionNegotiated => client.dial \in {"version", "failed"}
      /\ client.dial \in {"established", "complete"} => hc.secureAEAD # NoKey
      /\ client.dial = "complete" => cs.handshakeComplete
  BY Counts DEF HInv, Negotiation
<1>4. CASE DialStep
  <2> DEFINE d == CASE client.dial = "version" /\ client.versionNegotiated -> "handshake"
                    [] client.dial = "handshake" /\ cs.handshakeChan # <<>> ->
                         IF Head(cs.handshakeChan) = "secure" THEN "established" ELSE "failed"
                    [] client.dial = "established" /\ cs.handshakeComplete -> "complete"
                    [] OTHER -> client.dial
  <2>1. client' = [client EXCEPT !.dial = d]
    BY <1>4, Zenon DEF DialStep
  <2>2. cs.handshakeChan # <<>> /\ Head(cs.handshakeChan) = "secure" => hc.secureAEAD # NoKey
    BY EventsTail, Counts DEF HInv, EventsTold, IsSession
  <2>3. /\ ~client.versionNegotiated => d \in {"version", "failed"}
        /\ d \in {"established", "complete"} => hc.secureAEAD # NoKey
        /\ d = "complete" => cs.handshakeComplete
    BY <1>3, <2>2
  <2> HIDE DEF d
  <2>4. /\ IsClient(client') /\ client'.version = client.version /\ client'.dial = d
        /\ client'.connectionID = client.connectionID
        /\ client'.versionNegotiated = client.versionNegotiated
        /\ client'.receivedVersionNegotiationPacket = client.receivedVersionNegotiationPacket
    BY <1>3, <2>1 DEF IsClient
  <2> QED BY <1>1, <1>2, <2>3, <2>4, ClientDialed
<1>5. CASE DialFails \/ \E p \in net : ClientDispatch(p)
  <2>1. \/ client' = [client EXCEPT !.dial = "failed"]
        \/ client' = [client EXCEPT !.versionNegotiated = TRUE]
    BY <1>5 DEF DialFails, ClientDispatch
  <2>2. /\ IsClient(client') /\ client'.version = client.version
        /\ client'.connectionID = client.connectionID
        /\ client'.receivedVersionNegotiationPacket = client.receivedVersionNegotiationPacket
        /\ \/ client'.dial = "failed"
           \/ client'.dial = client.dial /\ client'.versionNegotiated
    BY <1>3, <2>1 DEF IsClient
  <2> QED BY <1>1, <1>2, <1>3, <2>2, ClientDialed
<1> QED BY <1>4, <1>5

-----------------------------------------------------------------------------
\* What a session and the two crypto setups begin with.
LEMMA NewSessionFacts ==
  ASSUME NEW handler
  PROVE  LET s == newSession(handler)
         IN  /\ IsSession(s) /\ s.handler = handler /\ s.inbox = <<>>
             /\ s.rcvd = 0 /\ s.wrote = 0
             /\ s.aeadChanged = <<>> /\ s.handshakeChan = <<>>
             /\ ~s.handshakeComplete /\ s.pending = NoPacket
             /\ s.closing = "none" /\ s.run = "running"
BY DEF newSession, IsSession

\* NewCryptoSetupClient: what is in the cache decides what the first hello says.
LEMMA NewClientFacts ==
  ASSUME NEW conn, NEW version, NEW versions, NEW found \in {"none", "current", "stale"}
  PROVE  LET h == NewCryptoSetupClient(conn, version, versions, found)
         IN
             /\ IsClientSetup(h) /\ h.conn = conn /\ h.version = version
             /\ h.negotiatedVersions = versions /\ h.hellos = 0
             /\ h.stk = (IF found = "none" THEN "none" ELSE "old")
             /\ h.scfg = (IF found = "current" THEN "new" ELSE IF found = "stale" THEN "old" ELSE "none")
             /\ h.nonc = h.scfg /\ h.cert \in BOOLEAN /\ (h.cert <=> found # "none")
             /\ h.serverVerified = h.cert /\ h.proof = NoCHLO /\ ~h.divNonce
             /\ h.secureAEAD = NoKey /\ h.forwardSecureAEAD = NoKey /\ h.err = "none"
<1> DEFINE scfg == CASE found = "none" -> "none" [] found = "current" -> "new" [] found = "stale" -> "old"
           stk == IF found = "none" THEN "none" ELSE "old"
           cert == found # "none"
           h == NewCryptoSetupClient(conn, version, versions, found)
<1>1. h = [conn |-> conn, version |-> version, negotiatedVersions |-> versions,
           hellos |-> 0, stk |-> stk, scfg |-> scfg, nonc |-> scfg,
           cert |-> cert, serverVerified |-> cert,
           proof |-> NoCHLO, chloForSignature |-> NoCHLO,
           divNonce |-> FALSE, lastSentCHLO |-> NoCHLO, receivedSecurePacket |-> FALSE,
           secureAEAD |-> NoKey, forwardSecureAEAD |-> NoKey, err |-> "none"]
  BY Zenon DEF NewCryptoSetupClient
<1>2. scfg = IF found = "current" THEN "new" ELSE IF found = "stale" THEN "old" ELSE "none"
  OBVIOUS
<1>3. cert \in BOOLEAN /\ (cert <=> found # "none")
  OBVIOUS
<1> HIDE DEF scfg, cert, h
<1>4. /\ IsClientSetup(h) /\ h.conn = conn /\ h.version = version
      /\ h.negotiatedVersions = versions /\ h.hellos = 0
      /\ h.stk = stk /\ h.scfg = scfg /\ h.nonc = scfg /\ h.cert = cert
      /\ h.serverVerified = cert /\ h.proof = NoCHLO /\ h.divNonce = FALSE
      /\ h.secureAEAD = NoKey /\ h.forwardSecureAEAD = NoKey /\ h.err = "none"
  BY <1>1, <1>3 DEF IsClientSetup
<1> QED BY <1>2, <1>3, <1>4 DEF h

\* NewCryptoSetup: no keys.
LEMMA NewServerFacts ==
  ASSUME NEW conn, NEW version, NEW versions
  PROVE  LET g == NewCryptoSetup(conn, version, versions)
         IN  /\ IsServerSetup(g) /\ g.conn = conn /\ g.version = version
             /\ g.supportedVersions = versions
             /\ ~g.receivedSecurePacket /\ ~g.receivedForwardSecurePacket /\ ~g.sentSHLO
             /\ g.secureAEAD = NoKey /\ g.forwardSecureAEAD = NoKey /\ g.err = "none"
BY DEF NewCryptoSetup, IsServerSetup

\* Another version: a new session and crypto setup, with a connection ID the server has
\* not seen.  The old version was none of the server's, so nothing has come of it there.
LEMMA ClientNegotiateStep ==
  ASSUME HInv, NEW p \in net, ClientNegotiate(p)
  PROVE  HInv'
<1> DEFINE new == ChooseSupportedVersion(ClientVersions, serverVersions)
<1>1. /\ p.type = "VN" /\ ~client.receivedVersionNegotiationPacket /\ ~client.versionNegotiated
      /\ UNCHANGED <<cache, serverVersions, table, ss, hs, accepted, net>>
      /\ p.msg.versions = serverVersions /\ client.version \notin serverVersions
      /\ Conn = 1 /\ client.connectionID = 1
  <2>1. /\ p.type = "VN" /\ ~client.receivedVersionNegotiationPacket /\ ~client.versionNegotiated
        /\ client.version \notin p.msg.versions
        /\ UNCHANGED <<cache, serverVersions, table, ss, hs, accepted, net>>
    BY DEF ClientNegotiate, serverVars
  <2>2. p.msg.versions = serverVersions
    BY <2>1 DEF HInv, Negotiation
  <2>3. Conn = 1
    BY <2>1, Counts DEF HInv, Negotiation, Conns
  <2> QED BY <2>1, <2>2, <2>3 DEF Conn
<1>2. \/ new = VersionUnsupported
      \/ new # VersionUnsupported /\ new \in ClientVersions /\ new \in serverVersions
  BY ChosenVersion, HandshakeAssumption
<1>3. CASE new = VersionUnsupported
  <2>1. /\ cs' = closeSession(cs, "InvalidVersion") /\ hc' = hc
        /\ client' = [client EXCEPT !.receivedVersionNegotiationPacket = TRUE]
    BY <1>1, <1>3 DEF ClientNegotiate
  <2>2. /\ IsClient(client') /\ client'.version = client.version
        /\ client'.connectionID = client.connectionID
        /\ client'.receivedVersionNegotiationPacket
        /\ client'.dial = client.dial /\ ~client'.versionNegotiated
        /\ client.dial \in {"version", "failed"}
    BY <1>1, <2>1, Counts DEF IsClient, HInv, Negotiation
  <2>3. /\ ClientTalkKept /\ ClientEventsKept /\ PendingOK(cs'.pending)
        /\ cs'.run = cs.run /\ cs'.handler = cs.handler
    BY <2>1, CloseSessionFacts, Counts
       DEF HInv, EventsTold, ClientTurn, ClientTalkKept, ClientEventsKept, PendingOK
  <2> QED BY <1>1, <2>1, <2>2, <2>3, ClientDialed
<1>4. CASE new # VersionUnsupported
  <2> HIDE DEF new
  <2>1. /\ client' = [client EXCEPT !.receivedVersionNegotiationPacket = TRUE,
                                     !.version = new, !.connectionID = 2]
        /\ hc' = NewCryptoSetupClient(2, new, serverVersions, cache)
        /\ \E r : cs' = [newSession("loop") EXCEPT !.run = r]
    BY <1>1, <1>4 DEF ClientNegotiate, new
  <2>2. /\ IsClient(client') /\ client'.version = new /\ client'.connectionID = 2
        /\ client'.receivedVersionNegotiationPacket
        /\ client'.dial = client.dial /\ ~client'.versionNegotiated
        /\ client.dial \in {"version", "failed"}
    BY <1>1, <2>1, Counts DEF IsClient, HInv, Negotiation, Conns
  <2>3.
        /\ IsSession(cs') /\ cs'.handler = "loop" /\ cs'.inbox = <<>>
        /\ cs'.rcvd = 0 /\ cs'.wrote = 0 /\ cs'.aeadChanged = <<>> /\ cs'.handshakeChan = <<>>
        /\ ~cs'.handshakeComplete /\ cs'.pending = NoPacket
    <3>1. PICK r : cs' = [newSession("loop") EXCEPT !.run = r]
      BY <2>1
    <3>2. PICK s : /\ s = newSession("loop") /\ IsSession(s) /\ s.handler = "loop" /\ s.inbox = <<>>
                   /\ s.rcvd = 0 /\ s.wrote = 0
                   /\ s.aeadChanged = <<>> /\ s.handshakeChan = <<>>
                   /\ ~s.handshakeComplete /\ s.pending = NoPacket
      BY NewSessionFacts
    <3>3. cs' = [s EXCEPT !.run = r]
      BY <3>1, <3>2
    <3> QED BY <3>2, <3>3 DEF IsSession
  <2>4. /\ Conn' = 2 /\ Rejects' = Rejects /\ Rejects \in Nat /\ Rejects >= 1
        /\ cache \in {"none", "current", "stale"}
    <3>1. Conn' = 2 /\ Rejects' = Rejects
      BY <1>1, <2>2 DEF Conn, Rejects
    <3> QED BY <3>1, RejectionsType, HandshakeAssumption DEF HInv, Types, Rejects
  <2>5.
        /\ IsClientSetup(hc') /\ hc'.conn = 2 /\ hc'.version = new
        /\ hc'.negotiatedVersions = serverVersions /\ hc'.hellos = 0
        /\ hc'.stk = (IF cache = "none" THEN "none" ELSE "old")
        /\ hc'.scfg = (IF cache = "current" THEN "new" ELSE IF cache = "stale" THEN "old" ELSE "none")
        /\ hc'.nonc = hc'.scfg /\ hc'.cert \in BOOLEAN /\ (hc'.cert <=> cache # "none")
        /\ hc'.serverVerified = hc'.cert /\ hc'.proof = NoCHLO /\ ~hc'.divNonce
        /\ hc'.secureAEAD = NoKey /\ hc'.forwardSecureAEAD = NoKey /\ hc'.err = "none"
    BY <2>1, <2>4, NewClientFacts
  <2>6. /\ Fresh(1) /\ NoSessionFor(1) /\ Fresh(2) /\ NoSessionFor(2)
    <3>1. 1 \in Conns /\ 2 \in Conns \ {Conn}
      BY <1>1 DEF Conns
    <3>2. Fresh(2) /\ NoSessionFor(2)
      BY <3>1 DEF HInv, Negotiation
    <3>3. Fresh(1)
      BY <1>1 DEF HInv, Table
    <3>4. 0 \notin serverVersions
      BY HandshakeAssumption DEF HInv, Types
    <3>5. NoSessionFor(1)
      BY <1>1, <3>4 DEF HInv, Packets, PacketOK, ToServer, NoSessionFor
    <3> QED BY <3>2, <3>3, <3>5
  <2>7. /\ Fresh(1)' /\ NoSessionFor(1)' /\ Fresh(2)' /\ NoSessionFor(2)'
    BY <1>1, <2>6 DEF Fresh, NoSessionFor
  <2>8. /\ ss'[2].handler = "read" /\ ss'[2].inbox = <<>> /\ ss'[2].rcvd = 0 /\ ss'[2].wrote = 0
        /\ ss'[2].aeadChanged = <<>> /\ ss'[2].handshakeChan = <<>>
        /\ ~ss'[2].handshakeComplete /\ ss'[2].pending = NoPacket
        /\ table'[2] = "absent"
    BY <2>7, NewSessionFacts DEF Fresh
  <2>9. /\ hs'[2].conn = 2 /\ hs'[2].supportedVersions = serverVersions
        /\ ~hs'[2].receivedForwardSecurePacket
        /\ hs'[2].secureAEAD = NoKey /\ hs'[2].forwardSecureAEAD = NoKey /\ hs'[2].err = "none"
    BY <1>1, <2>7, NewServerFacts DEF Fresh
  <2>10. accepted' = {}
    <3>1. hs[1].forwardSecureAEAD = NoKey
      BY <2>6, NewServerFacts DEF Fresh
    <3> QED BY <1>1, <3>1 DEF HInv, EventsTold
  <2>11. new \in ClientVersions /\ new \in serverVersions
    BY <1>2, <1>4
  <2>p1. Types'
    BY <1>1, <2>2, <2>3, <2>5 DEF HInv, Types
  <2>p2. Negotiation'
    <3>1. \A q \in net : q.type = "VN" => q.msg.versions = serverVersions
      BY DEF HInv, Negotiation
    <3>2. Conns \ {2} = {1}
      BY DEF Conns
    <3>3. client'.version = ChooseSupportedVersion(ClientVersions, serverVersions)
      BY <2>2 DEF new
    <3> QED BY <1>1, <2>2, <2>4, <2>7, <2>11, <3>1, <3>2, <3>3 DEF Negotiation
  <2>p3. Table'
    BY <1>1, <2>4, <2>7, <2>8, <2>9 DEF Table
  <2>p4. Lockstep'
    BY <1>1, <2>2, <2>3, <2>4, <2>5, <2>8, <2>9, <2>10, EventsNone DEF Lockstep, Read
  <2>p5. ClientKnows'
    BY <1>1, <2>2, <2>3, <2>4, <2>5, <2>8, <2>9, <2>10 DEF ClientKnows, Read
  <2>p6. ClientTurn'
    BY <1>1, <2>2, <2>3, <2>4, <2>5, <2>8, <2>9, <2>10 DEF ClientTurn, Read
  <2>p7. ClientKeys'
    BY <1>1, <2>2, <2>3, <2>4, <2>5, <2>8, <2>9, <2>10 DEF ClientKeys, Read
  <2>p8. ServerTurn'
    BY <1>1, <2>2, <2>3, <2>4, <2>5, <2>8, <2>9, <2>10 DEF ServerTurn, Read
  <2>p9. Packets'
    <3>1. \A q \in net : PacketOK(q) /\ q.conn = 1
      BY <1>1 DEF HInv, Packets, Negotiation
    <3> QED BY <1>1, <2>4, <3>1 DEF Packets, PacketOK
  <2>p10. EventsTold'
    BY <1>1, <2>2, <2>3, <2>4, <2>5, <2>8, <2>9, <2>10, EventsNone DEF EventsTold
  <2> QED BY <2>p1, <2>p2, <2>p3, <2>p4, <2>p5, <2>p6, <2>p7, <2>p8, <2>p9, <2>p10 DEF HInv
<1> QED BY <1>3, <1>4

-----------------------------------------------------------------------------
\* The server has no other session than the client's.
LEMMA Elsewhere ==
  ASSUME HInv, NEW k \in Conns,
         \/ table[k] # "absent" \/ ss[k].handler # "read" \/ ss[k].inbox # <<>>
         \/ ss[k].pending # NoPacket \/ ss[k].handshakeChan # <<>>
  PROVE  k = Conn /\ ~Fresh(Conn)
<1>1. ~Fresh(k)
  BY NewSessionFacts DEF Fresh
<1> QED BY <1>1, Counts DEF HInv, Negotiation

\* A session that still runs and has begun is in the table, for the version of the client.
LEMMA Alive ==
  ASSUME HInv, ~Fresh(Conn)
  PROVE  /\ hs[Conn].version = client.version /\ client.version \in serverVersions
         /\ hs[Conn].conn = Conn /\ hs[Conn].supportedVersions = serverVersions
         /\ ss[Conn].run = "running" => table[Conn] = "live"
<1>1. table[Conn] \in {"absent", "live", "tombstone"}
  BY Counts DEF HInv, Types
<1> QED BY <1>1 DEF HInv, Table

\* What is left to show of a step of the client's session at the server.
LEMMA ServerStep ==
  ASSUME HInv, ~Fresh(Conn), UNCHANGED <<cache, serverVersions, client, cs, hc, accepted>>,
         NEW s, NEW g, ss' = [ss EXCEPT ![Conn] = s], hs' = [hs EXCEPT ![Conn] = g],
         IsSession(s), IsServerSetup(g),
         g.conn = Conn, g.version = client.version, g.supportedVersions = serverVersions,
         ss[Conn].run = "running",
         \/ table' = table
         \/ table' = [table EXCEPT ![Conn] = "tombstone"] /\ s.run = "ended",
         s.inbox \in {<<>>, <<HelloNo(s.rcvd)>>},
         s.wrote >= ss[Conn].wrote, s.wrote <= Read(s), Read(s) <= s.rcvd,
         Read(s) >= Read(ss[Conn]), s.rcvd <= cs.wrote,
         ServerTurn',
         hs[Conn].forwardSecureAEAD # NoKey => g.forwardSecureAEAD # NoKey,
         "forward" \in Events(s.aeadChanged) \cup Events(s.handshakeChan)
           => g.forwardSecureAEAD # NoKey,
         ("closed" \in Events(s.aeadChanged) \/ s.handshakeComplete
            \/ g.receivedForwardSecurePacket) => hc.forwardSecureAEAD # NoKey,
         \A q \in net' : \/ q \in net
                         \/ /\ IsPacket(q) /\ q.to = "client" /\ q.conn = Conn
                            /\ q.type # "VN" /\ ToClient(q)'
  PROVE  HInv'
<1>1. /\ UNCHANGED <<cache, serverVersions, client, cs, hc, accepted>>
      /\ Conn' = Conn /\ Rejects' = Rejects /\ SecureKey' = SecureKey /\ ForwardKey' = ForwardKey
  BY Zenon DEF Conn, Rejects, SecureKey, ForwardKey
<1>2. \A n : HelloNo(n)' = HelloNo(n) /\ ReplyNo(n)' = ReplyNo(n)
  BY <1>1, Zenon DEF HelloNo, ReplyNo
<1>3. /\ ss'[Conn] = s /\ hs'[Conn] = g
      /\ ss' \in [Conns -> {ss'[j] : j \in Conns}] /\ hs' \in [Conns -> {hs'[j] : j \in Conns}]
      /\ \A j \in Conns : IsSession(ss'[j]) /\ IsServerSetup(hs'[j])
      /\ \A j \in Conns \ {Conn} : ss'[j] = ss[j] /\ hs'[j] = hs[j] /\ table'[j] = table[j]
      /\ table' \in [Conns -> {"absent", "live", "tombstone"}]
      /\ table'[Conn] = "live" \/ (table'[Conn] = "tombstone" /\ s.run = "ended")
  <2>1. /\ ss \in [Conns -> {ss[j] : j \in Conns}] /\ hs \in [Conns -> {hs[j] : j \in Conns}]
        /\ \A j \in Conns : IsSession(ss[j]) /\ IsServerSetup(hs[j])
        /\ table \in [Conns -> {"absent", "live", "tombstone"}]
    BY DEF HInv, Types
  <2>2. table[Conn] = "live"
    BY Alive
  <2>3. ss'[Conn] = s /\ \A j \in Conns \ {Conn} : ss'[j] = ss[j]
    BY <2>1, Counts
  <2>4. hs'[Conn] = g /\ \A j \in Conns \ {Conn} : hs'[j] = hs[j]
    BY <2>1, Counts
  <2>5. ss' \in [Conns -> {ss'[j] : j \in Conns}] /\ hs' \in [Conns -> {hs'[j] : j \in Conns}]
    <3>1. DOMAIN ss' = Conns /\ ss' = [j \in Conns |-> ss'[j]]
      BY <2>1
    <3>2. DOMAIN hs' = Conns /\ hs' = [j \in Conns |-> hs'[j]]
      BY <2>1
    <3> QED BY <3>1, <3>2
  <2>6. \A j \in Conns : IsSession(ss'[j]) /\ IsServerSetup(hs'[j])
    BY <2>1, <2>3, <2>4
  <2>7. CASE table' = table
    BY <2>1, <2>2, <2>3, <2>4, <2>5, <2>6, <2>7
  <2>8. CASE table' = [table EXCEPT ![Conn] = "tombstone"] /\ s.run = "ended"
    BY <2>1, <2>2, <2>3, <2>4, <2>5, <2>6, <2>8, Counts
  <2> QED BY <2>7, <2>8
<1>4. /\ s.rcvd \in Nat /\ s.wrote \in Nat /\ Read(s) \in Int
  <2>1. s.rcvd \in Nat /\ s.wrote \in Nat
    BY DEF IsSession
  <2> QED BY <2>1 DEF Read
<1>p1. Types'
  BY <1>1, <1>3 DEF HInv, Types
<1>p2. Negotiation'
  <2>1. ASSUME NEW j \in Conns \ {Conn}
        PROVE  (Fresh(j) => Fresh(j)') /\ (NoSessionFor(j) => NoSessionFor(j)')
    BY <1>1, <1>3 DEF Fresh, NoSessionFor
  <2> QED BY <1>1, <2>1, Counts DEF HInv, Negotiation
<1>p3. Table'
  BY <1>1, <1>3, Alive DEF Table
<1>p4. Lockstep'
  <2>1. /\ cs.inbox \in {<<>>, <<ReplyNo(cs.rcvd)>>} /\ 0 <= Read(cs)
    BY DEF HInv, Lockstep
  <2>2. s.inbox \in {<<>>, <<HelloNo(s.rcvd)>>}
    OBVIOUS
  <2>3. /\ Read(cs') = Read(cs) /\ Read(ss'[Conn]) = Read(s)
    BY <1>1, <1>3, Zenon
  <2> QED BY <1>1, <1>2, <1>3, <1>4, <2>1, <2>2, <2>3, Counts DEF Lockstep
<1>p5. ClientKnows'
  BY <1>1, Zenon DEF HInv, ClientKnows, UnknownVersionListed
<1>p6. ClientTurn'
  <2>1. s.wrote <= Rejects + 1 /\ (ss[Conn].wrote = Rejects + 1 => s.wrote = Rejects + 1)
    BY <1>4, Counts
  <2> QED BY <1>1, <1>2, <1>3, <2>1, Counts DEF HInv, ClientTurn
<1>p7. ClientKeys'
  <2>1. Read(ss[Conn]) = Rejects + 1 => Read(s) = Rejects + 1
    BY <1>4, Counts
  <2>2. Read(cs') = Read(cs) /\ Read(ss'[Conn]) = Read(s)
    BY <1>1, <1>3, Zenon
  <2> QED BY <1>1, <1>3, <2>1, <2>2, Counts DEF HInv, ClientKeys
<1>p8. ServerTurn'
  OBVIOUS
<1>p9. Packets'
  <2>1. s.wrote <= Rejects + 1
    BY <1>4, Counts
  <2>2. ASSUME NEW p \in net PROVE PacketOK(p)'
    BY <1>1, <1>3, <1>4, <2>1, Counts, PacketKept
  <2>3. ASSUME NEW q \in net', q \notin net PROVE PacketOK(q)'
    BY <1>1, <2>3, Counts DEF PacketOK
  <2> QED BY <2>2, <2>3 DEF Packets
<1>p10. EventsTold'
  <2>1. "forward" \in Events(ss'[Conn].aeadChanged) \cup Events(ss'[Conn].handshakeChan)
           => hs'[Conn].forwardSecureAEAD # NoKey
    BY <1>3
  <2>2. ("closed" \in Events(ss'[Conn].aeadChanged) \/ ss'[Conn].handshakeComplete
           \/ hs'[Conn].receivedForwardSecurePacket) => hc.forwardSecureAEAD # NoKey
    BY <1>3
  <2>3. Conn \in accepted => hs'[Conn].forwardSecureAEAD # NoKey
    BY <1>3 DEF HInv, EventsTold
  <2>4. EventsTold
    BY DEF HInv
  <2> QED BY <1>1, <2>1, <2>2, <2>3, <2>4, Zenon DEF EventsTold
<1> QED BY <1>p1, <1>p2, <1>p3, <1>p4, <1>p5, <1>p6, <1>p7, <1>p8, <1>p9, <1>p10 DEF HInv

-----------------------------------------------------------------------------
\* The server reads a hello: the first ones are inchoate, the last is not.
LEMMA HelloHandled ==
  ASSUME HInv, NEW n \in Nat, n >= 1, n <= Rejects + 1, NEW g, g = hs[Conn],
         g.version = client.version, g.conn = Conn, g.supportedVersions = serverVersions
  PROVE  LET h == handleMessage(g, HelloNo(n))
         IN  \/ n <= Rejects /\ h = [g EXCEPT !.reply = ReplyNo(n)]
             \/ /\ n = Rejects + 1 /\ cache # "stale"
                /\ h = [g EXCEPT !.secureAEAD = SecureKey, !.forwardSecureAEAD = ForwardKey,
                                 !.reply = ReplyNo(n)]
             \/ /\ n = Rejects + 1 /\ cache = "stale"
                /\ h = [g EXCEPT !.err = "InvalidCryptoMessageParameter"]
<1> DEFINE chlo == HelloNo(n)
           h == handleMessage(g, chlo)
           known == cache # "none" \/ n >= 3
<1>1. /\ cache \in {"none", "current", "stale"} /\ Rejects \in Nat
      /\ Rejects = IF cache = "none" THEN 2 ELSE 1
  BY RejectionsType, HandshakeAssumption DEF HInv, Types, Rejects
<1>2. /\ chlo.ver = client.version
      /\ chlo.stk = (IF n >= 2 THEN "given" ELSE IF cache = "none" THEN "none" ELSE "old")
      /\ chlo.scid = (IF n >= 2 \/ cache = "current" THEN "new" ELSE IF cache = "stale" THEN "old" ELSE "none")
      /\ chlo.nonc = (IF ~known THEN "none" ELSE IF cache = "stale" THEN "old" ELSE "new")
  BY Zenon DEF HelloNo, Hello
<1>3. chlo.pubs <=> known
  BY Zenon DEF HelloNo, Hello
<1> HIDE DEF chlo
<1>4. isInchoateCHLO(chlo) <=> n <= Rejects
  BY <1>1, <1>2, <1>3 DEF isInchoateCHLO, acceptSTK
<1>5. h = IF isInchoateCHLO(chlo) THEN handleInchoateCHLO(g, chlo) ELSE handleCHLO(g, chlo)
  BY <1>2, Zenon DEF handleMessage
<1> HIDE DEF h
<1>6. CASE n <= Rejects
  <2>1. acceptSTK(chlo.stk) <=> n >= 2
    BY <1>1, <1>2 DEF acceptSTK
  <2>2. ReplyNo(n) = [tag |-> "REJ", stk |-> "given", scfg |-> "new",
                      proof |-> IF n >= 2 THEN chlo ELSE NoCHLO]
    <3>1. ~(n > Rejects)
      BY <1>1, <1>6
    <3> QED BY <3>1, Zenon DEF ReplyNo, Reply, Rejects, chlo, HelloNo
  <2>3. (IF acceptSTK(chlo.stk) THEN chlo ELSE NoCHLO) = (IF n >= 2 THEN chlo ELSE NoCHLO)
    BY <2>1, Zenon
  <2>4. h = handleInchoateCHLO(g, chlo)
    BY <1>4, <1>5, <1>6, Zenon
  <2>5. h = [g EXCEPT !.reply = ReplyNo(n)]
    BY <2>2, <2>3, <2>4, Zenon DEF handleInchoateCHLO
  <2> QED BY <1>6, <2>5, Zenon DEF h, chlo
<1>7. CASE n = Rejects + 1
  <2>1. h = handleCHLO(g, chlo) /\ known
    <3>1. ~(n <= Rejects) /\ known
      BY <1>1, <1>7
    <3> QED BY <1>4, <1>5, <3>1, Zenon
  <2>2. ReplyNo(n) = [tag |-> "SHLO", versions |-> serverVersions]
    <3>1. n > Rejects
      BY <1>1, <1>7
    <3> QED BY <3>1, Zenon DEF ReplyNo, Reply, Rejects
  <2>3. CASE cache = "stale"
    <3>1. chlo.nonc = "old"
      BY <1>2, <2>1, <2>3, Zenon
    <3>2. h = [g EXCEPT !.err = "InvalidCryptoMessageParameter"]
      BY <2>1, <3>1 DEF handleCHLO
    <3> QED BY <1>7, <2>3, <3>2, Zenon DEF h, chlo
  <2>4. CASE cache # "stale"
    <3>1. chlo.nonc = "new"
      BY <1>2, <2>1, <2>4, Zenon
    <3>2. /\ DerivedKey("secure", g.conn, chlo, "new", "new") = SecureKey
          /\ DerivedKey("forward", g.conn, chlo, "new", "new") = ForwardKey
      BY <1>7, Zenon DEF SecureKey, ForwardKey, KeyOf, HelloNo, Rejects, chlo
    <3>3. h = [g EXCEPT !.secureAEAD = DerivedKey("secure", g.conn, chlo, "new", chlo.nonc),
                        !.forwardSecureAEAD = DerivedKey("forward", g.conn, chlo, "new", chlo.nonc),
                        !.reply = [tag |-> "SHLO", versions |-> g.supportedVersions]]
      BY <2>1, <3>1, Zenon DEF handleCHLO
    <3>4. h = [g EXCEPT !.secureAEAD = SecureKey, !.forwardSecureAEAD = ForwardKey,
                        !.reply = ReplyNo(n)]
      BY <2>2, <3>1, <3>2, <3>3, Zenon
    <3> QED BY <1>7, <2>4, <3>4, Zenon DEF h, chlo
  <2> QED BY <2>3, <2>4
<1>8. n <= Rejects \/ n = Rejects + 1
  BY <1>1
<1> QED BY <1>6, <1>7, <1>8

\* The server's handler reads the next hello and has its reply ready.
LEMMA ServerMessageStep ==
  ASSUME HInv, ServerMessage(Conn)
  PROVE  HInv'
<1> DEFINE b == ss[Conn].rcvd
           h == handleMessage(hs[Conn], HelloNo(b))
           d == ss[Conn].wrote
<1>1. /\ ss[Conn].run = "running" /\ ss[Conn].handler = "read" /\ ss[Conn].inbox # <<>>
      /\ UNCHANGED <<cache, serverVersions, client, cs, hc, table, accepted, net>>
  BY DEF ServerMessage, clientVars
<1>2. ~Fresh(Conn)
  BY <1>1, Elsewhere, Counts
<1>3. /\ ss[Conn].inbox = <<HelloNo(b)>> /\ Read(ss[Conn]) = b - 1 /\ d = b - 1 /\ b - 1 <= Rejects
      /\ b \in Nat /\ b >= 1 /\ b <= Rejects + 1 /\ d \in Nat /\ b <= cs.wrote
  <2>1. Read(ss[Conn]) = b - 1
    BY <1>1, Zenon DEF Read
  <2> QED BY <1>1, <2>1, Counts DEF HInv, Lockstep, ServerTurn
<1>4. /\ hs[Conn].version = client.version /\ hs[Conn].conn = Conn
      /\ hs[Conn].supportedVersions = serverVersions
  BY <1>2, Alive
<1>5. /\ hs[Conn].secureAEAD = NoKey /\ hs[Conn].forwardSecureAEAD = NoKey
      /\ hs[Conn].err # "none" => cache = "stale"
      /\ ss[Conn].pending # NoPacket => /\ hs[Conn].receivedForwardSecurePacket
                                       /\ ss[Conn].pending.type \in {"DATA", "CLOSE"}
      /\ SecureKey # NoKey /\ ForwardKey # NoKey
      /\ IsServerSetup(hs[Conn]) /\ Rejects \in Nat
  BY <1>3, Counts, KeysDiffer DEF HInv, ServerTurn, SecureKey, ForwardKey
<1>6. \/ b <= Rejects /\ h = [hs[Conn] EXCEPT !.reply = ReplyNo(b)]
      \/ /\ b = Rejects + 1 /\ cache # "stale"
         /\ h = [hs[Conn] EXCEPT !.secureAEAD = SecureKey, !.forwardSecureAEAD = ForwardKey,
                                 !.reply = ReplyNo(b)]
      \/ /\ b = Rejects + 1 /\ cache = "stale"
         /\ h = [hs[Conn] EXCEPT !.err = "InvalidCryptoMessageParameter"]
  BY <1>3, <1>4, HelloHandled
<1>7. hs' = [hs EXCEPT ![Conn] = h] /\ hs'[Conn] = h
  <2>1. Head(ss[Conn].inbox) = HelloNo(b)
    BY <1>3, Inboxes
  <2>2. hs' = [hs EXCEPT ![Conn] = h]
    BY <2>1, Zenon DEF ServerMessage
  <2> HIDE DEF h
  <2> QED BY <2>2, Counts DEF HInv, Types
<1> HIDE DEF h, b, d
<1>8. PICK g : g = h
  OBVIOUS
<1>9. /\ IsServerSetup(g) /\ g.conn = Conn /\ g.version = client.version
      /\ g.supportedVersions = serverVersions
      /\ g.receivedForwardSecurePacket = hs[Conn].receivedForwardSecurePacket
      /\ g.secureAEAD = (IF b = Rejects + 1 /\ cache # "stale" THEN SecureKey ELSE NoKey)
      /\ g.forwardSecureAEAD = (IF b = Rejects + 1 /\ cache # "stale" THEN ForwardKey ELSE NoKey)
      /\ g.err # "none" => cache = "stale"
      /\ b = Rejects + 1 /\ cache = "stale" => g.err # "none"
      /\ g.err = "none" => g.reply = ReplyNo(b)
  <2>1. CASE b <= Rejects /\ g = [hs[Conn] EXCEPT !.reply = ReplyNo(b)]
    <3>1. /\ IsServerSetup(g)
          /\ g.conn = hs[Conn].conn /\ g.version = hs[Conn].version
          /\ g.supportedVersions = hs[Conn].supportedVersions
          /\ g.receivedSecurePacket = hs[Conn].receivedSecurePacket
          /\ g.receivedForwardSecurePacket = hs[Conn].receivedForwardSecurePacket
          /\ g.sentSHLO = hs[Conn].sentSHLO
          /\ g.secureAEAD = hs[Conn].secureAEAD /\ g.forwardSecureAEAD = hs[Conn].forwardSecureAEAD
          /\ g.err = hs[Conn].err
          /\ g.reply = ReplyNo(b)
      BY <1>5, <2>1 DEF IsServerSetup
    <3> QED BY <1>3, <1>4, <1>5, <2>1, <3>1
  <2>2. CASE /\ b = Rejects + 1 /\ cache # "stale"
             /\ g = [hs[Conn] EXCEPT !.secureAEAD = SecureKey, !.forwardSecureAEAD = ForwardKey,
                                     !.reply = ReplyNo(b)]
    <3>1. /\ IsServerSetup(g)
          /\ g.conn = hs[Conn].conn /\ g.version = hs[Conn].version
          /\ g.supportedVersions = hs[Conn].supportedVersions
          /\ g.receivedSecurePacket = hs[Conn].receivedSecurePacket
          /\ g.receivedForwardSecurePacket = hs[Conn].receivedForwardSecurePacket
          /\ g.sentSHLO = hs[Conn].sentSHLO
          /\ g.err = hs[Conn].err
          /\ g.reply = ReplyNo(b) /\ g.secureAEAD = SecureKey /\ g.forwardSecureAEAD = ForwardKey
      BY <1>5, <2>2 DEF IsServerSetup
    <3> QED BY <1>4, <1>5, <2>2, <3>1
  <2>3. CASE /\ b = Rejects + 1 /\ cache = "stale"
             /\ g = [hs[Conn] EXCEPT !.err = "InvalidCryptoMessageParameter"]
    <3>1. /\ IsServerSetup(g)
          /\ g.conn = hs[Conn].conn /\ g.version = hs[Conn].version
          /\ g.supportedVersions = hs[Conn].supportedVersions
          /\ g.receivedSecurePacket = hs[Conn].receivedSecurePacket
          /\ g.receivedForwardSecurePacket = hs[Conn].receivedForwardSecurePacket
          /\ g.sentSHLO = hs[Conn].sentSHLO
          /\ g.reply = hs[Conn].reply /\ g.secureAEAD = hs[Conn].secureAEAD
          /\ g.forwardSecureAEAD = hs[Conn].forwardSecureAEAD
          /\ g.err = "InvalidCryptoMessageParameter"
      BY <1>5, <2>3 DEF IsServerSetup
    <3> QED BY <1>4, <1>5, <2>3, <3>1
  <2> QED BY <1>6, <1>8, <2>1, <2>2, <2>3
<1>10. PICK s : /\ ss' = [ss EXCEPT ![Conn] = s] /\ ss'[Conn] = s /\ IsSession(s) /\ s.inbox = <<>>
                /\ s.handler = (IF g.err # "none" THEN "failed" ELSE "write")
                /\ s.rcvd = b /\ s.wrote = d
                /\ Events(s.aeadChanged) \subseteq Events(ss[Conn].aeadChanged) \cup {"secure"}
                /\ s.handshakeChan = ss[Conn].handshakeChan
                /\ s.handshakeComplete = ss[Conn].handshakeComplete
                /\ s.run = ss[Conn].run /\ s.pending = ss[Conn].pending
  <2> DEFINE turn == IF hs'[Conn].err # "none" THEN "failed" ELSE "write"
             told == IF hs'[Conn].secureAEAD = hs[Conn].secureAEAD THEN ss[Conn].aeadChanged
                     ELSE Append(ss[Conn].aeadChanged, "secure")
             s == [ss[Conn] EXCEPT !.inbox = <<>>, !.handler = turn, !.aeadChanged = told]
  <2>1. Tail(ss[Conn].inbox) = <<>>
    BY <1>3, Inboxes
  <2>2. ss' = [ss EXCEPT ![Conn].inbox = <<>>, ![Conn].handler = turn, ![Conn].aeadChanged = told]
    BY <2>1, Zenon DEF ServerMessage
  <2>3. told \in Seq(EventNames) /\ Events(told) \subseteq Events(ss[Conn].aeadChanged) \cup {"secure"}
    BY EventsAppend, Counts DEF IsSession, EventNames
  <2>4. turn = IF g.err # "none" THEN "failed" ELSE "write"
    BY <1>7, <1>8, Zenon
  <2> HIDE DEF turn, told
  <2>5. /\ IsSession(s) /\ s.inbox = <<>> /\ s.handler = turn /\ s.rcvd = b /\ s.wrote = d
        /\ s.aeadChanged = told /\ s.handshakeChan = ss[Conn].handshakeChan
        /\ s.handshakeComplete = ss[Conn].handshakeComplete
        /\ s.run = ss[Conn].run /\ s.pending = ss[Conn].pending
    BY <2>3, Counts DEF IsSession, b, d
  <2>6. ss' = [ss EXCEPT ![Conn] = s] /\ ss'[Conn] = s
    BY <2>2, Counts DEF HInv, Types
  <2> HIDE DEF s
  <2> QED BY <2>3, <2>4, <2>5, <2>6
<1>11. Read(s) = b /\ Conn' = Conn /\ Rejects' = Rejects
       /\ SecureKey' = SecureKey /\ ForwardKey' = ForwardKey
  BY <1>1, <1>10, Zenon DEF Read, Conn, Rejects, SecureKey, ForwardKey, ReplyNo
<1>12. ServerTurn'
  <2>1. \A n : ReplyNo(n)' = ReplyNo(n)
    BY <1>1, Zenon DEF ReplyNo
  <2>2. hs'[Conn] = g
    BY <1>7, <1>8
  <2> QED BY <1>1, <1>3, <1>5, <1>9, <1>10, <1>11, <2>1, <2>2 DEF ServerTurn
<1>13. /\ "forward" \notin Events(ss[Conn].aeadChanged) \cup Events(ss[Conn].handshakeChan)
       /\ ("closed" \in Events(ss[Conn].aeadChanged) \/ ss[Conn].handshakeComplete
            \/ hs[Conn].receivedForwardSecurePacket) => hc.forwardSecureAEAD # NoKey
  BY <1>5 DEF HInv, EventsTold
<1>14. /\ s.inbox \in {<<>>, <<HelloNo(s.rcvd)>>} /\ s.wrote >= ss[Conn].wrote /\ s.wrote <= Read(s)
       /\ Read(s) <= s.rcvd /\ Read(s) >= Read(ss[Conn]) /\ s.rcvd <= cs.wrote
  BY <1>3, <1>10, <1>11 DEF d
<1> QED BY <1>1, <1>2, <1>5, <1>7, <1>8, <1>9, <1>10, <1>12, <1>13, <1>14, ServerStep

-----------------------------------------------------------------------------
\* Steps of the server's run loop that leave the handshake alone.
LEMMA ServerQuietStep ==
  ASSUME HInv, ~Fresh(Conn), ss[Conn].run = "running",
         UNCHANGED <<cache, serverVersions, client, cs, hc, hs, accepted>>,
         NEW s, ss' = [ss EXCEPT ![Conn] = s], IsSession(s),
         s.inbox = ss[Conn].inbox, s.rcvd = ss[Conn].rcvd, s.wrote = ss[Conn].wrote,
         \/ s.handler = ss[Conn].handler
         \/ ss[Conn].handler = "failed" /\ s.handler = "closed",
         s.pending = ss[Conn].pending,
         Events(s.aeadChanged) \subseteq Events(ss[Conn].aeadChanged),
         "forward" \in Events(s.handshakeChan)
           => "forward" \in Events(ss[Conn].aeadChanged) \cup Events(ss[Conn].handshakeChan),
         s.handshakeComplete
           => ss[Conn].handshakeComplete \/ "closed" \in Events(ss[Conn].aeadChanged),
         \/ table' = table
         \/ table' = [table EXCEPT ![Conn] = "tombstone"] /\ s.run = "ended",
         \A q \in net' : \/ q \in net
                         \/ /\ IsPacket(q) /\ q.to = "client" /\ q.conn = Conn
                            /\ q.type = "CLOSE" /\ ~q.nonce
  PROVE  HInv'
<1>1. /\ UNCHANGED <<cache, serverVersions, client, cs, hc, hs, accepted>>
      /\ ss' = [ss EXCEPT ![Conn] = s]
  OBVIOUS
<1>2. /\ hs[Conn].version = client.version /\ hs[Conn].conn = Conn
      /\ hs[Conn].supportedVersions = serverVersions
  BY Alive
<1>3. /\ Conn' = Conn /\ Rejects' = Rejects
      /\ SecureKey' = SecureKey /\ ForwardKey' = ForwardKey
      /\ \A n : ReplyNo(n)' = ReplyNo(n)
  BY <1>1, Zenon DEF Conn, Rejects, SecureKey, ForwardKey, ReplyNo
<1>4. hs' = [hs EXCEPT ![Conn] = hs[Conn]] /\ ss'[Conn] = s
  BY <1>1, Counts DEF HInv, Types
<1>5. Read(s) = Read(ss[Conn])
  BY Zenon DEF Read
<1>6. ServerTurn'
  BY <1>1, <1>3, <1>4, <1>5, Counts DEF HInv, ServerTurn
<1>7. /\ s.inbox \in {<<>>, <<HelloNo(s.rcvd)>>} /\ s.wrote >= ss[Conn].wrote /\ s.wrote <= Read(s)
      /\ Read(s) <= s.rcvd /\ Read(s) >= Read(ss[Conn]) /\ s.rcvd <= cs.wrote
  BY <1>5, Counts DEF HInv, Lockstep
<1>8. /\ "forward" \in Events(s.aeadChanged) \cup Events(s.handshakeChan)
           => hs[Conn].forwardSecureAEAD # NoKey
      /\ ("closed" \in Events(s.aeadChanged) \/ s.handshakeComplete
            \/ hs[Conn].receivedForwardSecurePacket) => hc.forwardSecureAEAD # NoKey
  BY DEF HInv, EventsTold
<1>9. \A q \in net' : \/ q \in net
                      \/ /\ IsPacket(q) /\ q.to = "client" /\ q.conn = Conn
                         /\ q.type # "VN" /\ ToClient(q)'
  BY DEF ToClient
<1> QED BY <1>1, <1>2, <1>4, <1>6, <1>7, <1>8, <1>9, Counts, ServerStep

\* An error of the handler, an event passed on, a timeout or Close, and the end of run.
LEMMA ServerQuietSteps ==
  ASSUME HInv,
         ServerFailed(Conn) \/ ServerEvent(Conn) \/ ServerClose(Conn) \/ ServerEnd(Conn)
  PROVE  HInv'
<1>1. /\ UNCHANGED <<cache, serverVersions, client, cs, hc, hs, accepted>>
      /\ ss[Conn].run = "running"
      /\ ss[Conn].handler = "failed" \/ table[Conn] = "live"
  BY DEF ServerFailed, ServerEvent, ServerClose, ServerEnd, Turning, clientVars
<1>2. ~Fresh(Conn) /\ IsSession(ss[Conn])
  BY <1>1, Elsewhere, Counts
<1>3. CASE ServerFailed(Conn)
  <2>1. /\ \E e : ss' = [ss EXCEPT ![Conn] = [closeSession(ss[Conn], e) EXCEPT !.handler = "closed"]]
        /\ ss[Conn].handler = "failed" /\ table' = table /\ net' = net
    BY <1>3, Zenon DEF ServerFailed
  <2>2. PICK e : ss' = [ss EXCEPT ![Conn] = [closeSession(ss[Conn], e) EXCEPT !.handler = "closed"]]
    BY <2>1
  <2>3. PICK t, s : t = closeSession(ss[Conn], e) /\ s = [t EXCEPT !.handler = "closed"]
    OBVIOUS
  <2>4. /\ IsSession(t) /\ t.inbox = ss[Conn].inbox
        /\ t.rcvd = ss[Conn].rcvd /\ t.wrote = ss[Conn].wrote
        /\ t.aeadChanged = ss[Conn].aeadChanged
        /\ t.handshakeChan = ss[Conn].handshakeChan
        /\ t.handshakeComplete = ss[Conn].handshakeComplete
        /\ t.run = ss[Conn].run /\ t.pending = ss[Conn].pending
        /\ ss' = [ss EXCEPT ![Conn] = s]
    BY <1>2, <2>2, <2>3, CloseSessionFacts
  <2>5. /\ IsSession(s) /\ s.inbox = t.inbox /\ s.rcvd = t.rcvd /\ s.wrote = t.wrote
        /\ s.handler = "closed"
        /\ s.aeadChanged = t.aeadChanged /\ s.handshakeChan = t.handshakeChan
        /\ s.handshakeComplete = t.handshakeComplete
        /\ s.run = t.run /\ s.pending = t.pending
    BY <2>4, <2>3 DEF IsSession
  <2> QED BY <1>1, <1>2, <2>1, <2>4, <2>5, ServerQuietStep
<1>4. CASE ServerEvent(Conn)
  <2>1. /\ ss' = [ss EXCEPT ![Conn] = passEvent(ss[Conn])] /\ ss[Conn].aeadChanged # <<>>
        /\ table' = table /\ net' = net
    BY <1>4, Zenon DEF ServerEvent
  <2>2. PICK s : s = passEvent(ss[Conn])
    OBVIOUS
  <2>3. /\ IsSession(s) /\ s.handler = ss[Conn].handler /\ s.inbox = ss[Conn].inbox
        /\ s.rcvd = ss[Conn].rcvd /\ s.wrote = ss[Conn].wrote
        /\ Events(s.aeadChanged) \subseteq Events(ss[Conn].aeadChanged)
        /\ Events(s.handshakeChan)
             \subseteq Events(ss[Conn].handshakeChan) \cup (Events(ss[Conn].aeadChanged) \ {"closed"})
        /\ s.handshakeComplete
             => ss[Conn].handshakeComplete \/ "closed" \in Events(ss[Conn].aeadChanged)
        /\ s.run = ss[Conn].run /\ s.pending = ss[Conn].pending
    BY <1>2, <2>1, <2>2, PassEventFacts
  <2> QED BY <1>1, <1>2, <2>1, <2>2, <2>3, ServerQuietStep
<1>5. CASE ServerClose(Conn)
  <2>1. /\ \E e : ss' = [ss EXCEPT ![Conn] = closeSession(ss[Conn], e)]
        /\ table' = table /\ net' = net
    BY <1>5, Zenon DEF ServerClose
  <2>2. PICK e : ss' = [ss EXCEPT ![Conn] = closeSession(ss[Conn], e)]
    BY <2>1
  <2>3. PICK s : s = closeSession(ss[Conn], e)
    OBVIOUS
  <2>4. /\ ss' = [ss EXCEPT ![Conn] = s] /\ IsSession(s)
        /\ s.handler = ss[Conn].handler /\ s.inbox = ss[Conn].inbox
        /\ s.rcvd = ss[Conn].rcvd /\ s.wrote = ss[Conn].wrote
        /\ s.aeadChanged = ss[Conn].aeadChanged
        /\ s.handshakeChan = ss[Conn].handshakeChan
        /\ s.handshakeComplete = ss[Conn].handshakeComplete
        /\ s.run = ss[Conn].run /\ s.pending = ss[Conn].pending
    BY <1>2, <2>2, <2>3, CloseSessionFacts
  <2> QED BY <1>1, <1>2, <2>1, <2>4, ServerQuietStep
<1>6. CASE ServerEnd(Conn)
  <2> DEFINE q == ServerPacket(Conn, ServerSealer(hs[Conn]), "CLOSE", 0, NoCHLO)
  <2>1. /\ ss' = [ss EXCEPT ![Conn] = endRun(ss[Conn])]
        /\ table' = [table EXCEPT ![Conn] = "tombstone"]
        /\ net' = net \/ net' = net \cup {q}
    BY <1>6, Zenon DEF ServerEnd
  <2>2. PICK s : s = endRun(ss[Conn])
    OBVIOUS
  <2>3. /\ IsSession(s) /\ s.handler = ss[Conn].handler /\ s.inbox = ss[Conn].inbox
        /\ s.rcvd = ss[Conn].rcvd /\ s.wrote = ss[Conn].wrote
        /\ s.aeadChanged = ss[Conn].aeadChanged
        /\ Events(s.handshakeChan) \subseteq Events(ss[Conn].handshakeChan) \cup {"error"}
        /\ s.handshakeComplete = ss[Conn].handshakeComplete
        /\ s.run = "ended" /\ s.pending = ss[Conn].pending
    BY <1>2, <2>2, EndRunFacts
  <2>4. /\ IsPacket(q) /\ q.to = "client" /\ q.conn = Conn /\ q.type = "CLOSE" /\ ~q.nonce
    <3> DEFINE key == ServerSealer(hs[Conn])
               nonce == key.level = "secure"
    <3>1. ~nonce
      BY KeysDiffer DEF HInv, ServerTurn, ServerSealer, ForwardKey
    <3>2. q = Packet("client", Conn, 0, key, nonce, "CLOSE", 0, NoCHLO) /\ nonce \in BOOLEAN
      BY Zenon DEF ServerPacket
    <3> HIDE DEF key, nonce, q
    <3> QED BY <3>1, <3>2 DEF Packet, IsPacket
  <2> HIDE DEF q
  <2>5. \A p \in net' : \/ p \in net
                        \/ /\ IsPacket(p) /\ p.to = "client" /\ p.conn = Conn
                           /\ p.type = "CLOSE" /\ ~p.nonce
    BY <2>1, <2>4
  <2> QED BY <1>1, <1>2, <2>1, <2>2, <2>3, <2>5, ServerQuietStep
<1> QED BY <1>3, <1>4, <1>5, <1>6

-----------------------------------------------------------------------------
\* Write has returned: after the SHLO the session is forward secure.
LEMMA ServerWrittenStep ==
  ASSUME HInv, ServerWritten(Conn)
  PROVE  HInv'
<1> DEFINE shlo == hs[Conn].reply.tag = "SHLO"
           turn == IF shlo THEN "done" ELSE "read"
           told == IF shlo THEN Append(ss[Conn].aeadChanged, "forward") ELSE ss[Conn].aeadChanged
<1>1. /\ ss[Conn].run = "running" /\ ss[Conn].handler = "written"
      /\ UNCHANGED <<cache, serverVersions, client, cs, hc, table, accepted, net>>
  BY DEF ServerWritten, clientVars
<1>2. ~Fresh(Conn)
  BY <1>1, Elsewhere, Counts
<1>3. /\ hs[Conn].version = client.version /\ hs[Conn].conn = Conn
      /\ hs[Conn].supportedVersions = serverVersions
      /\ IsServerSetup(hs[Conn]) /\ IsSession(ss[Conn])
  BY <1>2, Alive, Counts
<1>4. /\ ss[Conn].wrote = Read(ss[Conn]) /\ Read(ss[Conn]) >= 1
      /\ hs[Conn].reply = ReplyNo(Read(ss[Conn]))
  BY <1>1 DEF HInv, ServerTurn
<1>5. shlo <=> Read(ss[Conn]) > Rejects
  BY <1>4, Counts, ReplyTag DEF ReplyNo, Rejects
<1>6. shlo => hs[Conn].forwardSecureAEAD = ForwardKey /\ ForwardKey # NoKey
  <2>1. shlo => Read(ss[Conn]) = Rejects + 1 /\ cache # "stale"
    BY <1>4, <1>5, Counts DEF HInv, ServerTurn
  <2> QED BY <2>1, KeysDiffer DEF HInv, ServerTurn, ForwardKey
<1>7. /\ "forward" \in Events(ss[Conn].aeadChanged) \cup Events(ss[Conn].handshakeChan)
           => hs[Conn].forwardSecureAEAD # NoKey
      /\ ("closed" \in Events(ss[Conn].aeadChanged) \/ ss[Conn].handshakeComplete
            \/ hs[Conn].receivedForwardSecurePacket) => hc.forwardSecureAEAD # NoKey
  BY DEF HInv, EventsTold
<1>8. /\ told \in Seq(EventNames) /\ turn \in {"done", "read"} /\ (turn = "read" <=> ~shlo)
      /\ Events(told) \subseteq Events(ss[Conn].aeadChanged) \cup {"forward"}
      /\ (Events(told) = Events(ss[Conn].aeadChanged) \/ shlo)
  <2>1. /\ ss[Conn].aeadChanged \in Seq(EventNames)
        /\ Append(ss[Conn].aeadChanged, "forward") \in Seq(EventNames)
        /\ Events(Append(ss[Conn].aeadChanged, "forward")) = Events(ss[Conn].aeadChanged) \cup {"forward"}
    BY <1>3, EventsAppend DEF IsSession, EventNames
  <2> QED BY <2>1
<1>9. /\ hs' = [hs EXCEPT ![Conn].sentSHLO = shlo]
      /\ ss' = [ss EXCEPT ![Conn].handler = turn, ![Conn].aeadChanged = told]
      /\ shlo \in BOOLEAN
  BY Zenon DEF ServerWritten
<1> HIDE DEF shlo, turn, told
<1>10. PICK s : s = [ss[Conn] EXCEPT !.handler = turn, !.aeadChanged = told]
  OBVIOUS
<1>19. PICK g : g = [hs[Conn] EXCEPT !.sentSHLO = shlo]
  OBVIOUS
<1>11. /\ IsServerSetup(g)
       /\ g.conn = hs[Conn].conn /\ g.version = hs[Conn].version
       /\ g.supportedVersions = hs[Conn].supportedVersions
       /\ g.receivedSecurePacket = hs[Conn].receivedSecurePacket
       /\ g.receivedForwardSecurePacket = hs[Conn].receivedForwardSecurePacket
       /\ g.reply = hs[Conn].reply
       /\ g.secureAEAD = hs[Conn].secureAEAD /\ g.forwardSecureAEAD = hs[Conn].forwardSecureAEAD
       /\ g.err = hs[Conn].err
  BY <1>3, <1>9, <1>19 DEF IsServerSetup
<1>12. /\ IsSession(s) /\ s.inbox = ss[Conn].inbox /\ s.handler = turn
       /\ s.rcvd = ss[Conn].rcvd /\ s.wrote = ss[Conn].wrote
       /\ s.aeadChanged = told /\ s.handshakeChan = ss[Conn].handshakeChan
       /\ s.handshakeComplete = ss[Conn].handshakeComplete
       /\ s.run = ss[Conn].run /\ s.pending = ss[Conn].pending
  <2>1. told \in Seq(EventNames)
    BY <1>8
  <2> QED BY <1>3, <1>10, <2>1 DEF IsSession
<1>13. /\ ss' = [ss EXCEPT ![Conn] = s] /\ ss'[Conn] = s
       /\ hs' = [hs EXCEPT ![Conn] = g] /\ hs'[Conn] = g
  BY <1>9, <1>10, <1>19, Counts DEF HInv, Types
<1>14. /\ Conn' = Conn /\ Rejects' = Rejects
       /\ SecureKey' = SecureKey /\ ForwardKey' = ForwardKey
       /\ \A n : ReplyNo(n)' = ReplyNo(n)
  BY <1>1, Zenon DEF Conn, Rejects, SecureKey, ForwardKey, ReplyNo
<1>15. Read(s) = Read(ss[Conn])
  BY <1>12, Zenon DEF Read
<1>16. ServerTurn'
  BY <1>1, <1>4, <1>5, <1>8, <1>11, <1>12, <1>13, <1>14, <1>15, Counts DEF HInv, ServerTurn
<1>17. /\ s.inbox \in {<<>>, <<HelloNo(s.rcvd)>>} /\ s.wrote >= ss[Conn].wrote /\ s.wrote <= Read(s)
       /\ Read(s) <= s.rcvd /\ Read(s) >= Read(ss[Conn]) /\ s.rcvd <= cs.wrote
  BY <1>12, <1>15, Counts DEF HInv, Lockstep
<1>18. /\ "forward" \in Events(s.aeadChanged) \cup Events(s.handshakeChan)
           => g.forwardSecureAEAD # NoKey
       /\ ("closed" \in Events(s.aeadChanged) \/ s.handshakeComplete
            \/ g.receivedForwardSecurePacket) => hc.forwardSecureAEAD # NoKey
  BY <1>6, <1>7, <1>8, <1>11, <1>12
<1> QED BY <1>1, <1>2, <1>3, <1>11, <1>12, <1>13, <1>16, <1>17, <1>18, ServerStep

\* The reply goes out; the SHLO with the secure key, and a nonce.
LEMMA ServerPackStep ==
  ASSUME HInv, ServerPack(Conn)
  PROVE  HInv'
<1> DEFINE b == ss[Conn].wrote + 1
           key == ServerSealerForCryptoStream(hs[Conn])
           nonce == key.level = "secure"
           q == ServerPacket(Conn, key, hs[Conn].reply.tag, b, hs[Conn].reply)
<1>1. /\ ss[Conn].run = "running" /\ ss[Conn].handler = "write"
      /\ UNCHANGED <<cache, serverVersions, client, cs, hc, table, hs, accepted>>
      /\ net' = net \cup {q}
  BY DEF ServerPack, Turning, clientVars
<1>2. ~Fresh(Conn)
  BY <1>1, Elsewhere, Counts
<1>3. /\ hs[Conn].version = client.version /\ hs[Conn].conn = Conn
      /\ hs[Conn].supportedVersions = serverVersions
      /\ IsServerSetup(hs[Conn]) /\ IsSession(ss[Conn])
  BY <1>2, Alive, Counts
<1>4. /\ b = Read(ss[Conn]) /\ b \in Nat /\ b >= 1 /\ b <= Rejects + 1
      /\ hs[Conn].reply = ReplyNo(b) /\ (b = Rejects + 1 => cache # "stale")
      /\ b = ss[Conn].wrote + 1
  BY <1>1, Counts DEF HInv, ServerTurn
<1> HIDE DEF b
<1>5. hs[Conn].reply.tag = IF b > Rejects THEN "SHLO" ELSE "REJ"
  BY <1>4, Counts, ReplyTag DEF ReplyNo, Rejects
<1>6. /\ b = Rejects + 1 => key = SecureKey /\ hs[Conn].secureAEAD = SecureKey
      /\ b # Rejects + 1 => key = NullKey /\ ~nonce
  BY <1>4, KeysDiffer DEF HInv, ServerTurn, ServerSealerForCryptoStream, SecureKey
<1>7. PICK p : /\ IsPacket(p) /\ p.to = "client" /\ p.conn = Conn /\ p.key = key /\ p.nonce = nonce
               /\ p.type = hs[Conn].reply.tag /\ p.n = b /\ p.msg = hs[Conn].reply
               /\ net' = net \cup {p}
  <2>1. q = Packet("client", Conn, 0, key, nonce, hs[Conn].reply.tag, b, hs[Conn].reply)
        /\ nonce \in BOOLEAN
    BY Zenon DEF ServerPacket
  <2> HIDE DEF key, nonce, q
  <2>2. /\ IsPacket(q) /\ q.to = "client" /\ q.conn = Conn /\ q.key = key /\ q.nonce = nonce
        /\ q.type = hs[Conn].reply.tag /\ q.n = b /\ q.msg = hs[Conn].reply
    BY <2>1 DEF Packet, IsPacket
  <2> QED BY <1>1, <2>2
<1> HIDE DEF key, nonce, q
<1>8. ss' = [ss EXCEPT ![Conn].wrote = b, ![Conn].handler = "written"]
  BY Zenon DEF ServerPack, b
<1>9. PICK s : s = [ss[Conn] EXCEPT !.wrote = b, !.handler = "written"]
  OBVIOUS
<1>10. /\ IsSession(s) /\ s.inbox = ss[Conn].inbox /\ s.handler = "written"
       /\ s.rcvd = ss[Conn].rcvd /\ s.wrote = b
       /\ s.aeadChanged = ss[Conn].aeadChanged /\ s.handshakeChan = ss[Conn].handshakeChan
       /\ s.handshakeComplete = ss[Conn].handshakeComplete
       /\ s.run = ss[Conn].run /\ s.pending = ss[Conn].pending
  BY <1>3, <1>4, <1>9 DEF IsSession
<1>11. /\ ss' = [ss EXCEPT ![Conn] = s] /\ ss'[Conn] = s
       /\ hs' = [hs EXCEPT ![Conn] = hs[Conn]] /\ hs'[Conn] = hs[Conn]
  BY <1>1, <1>8, <1>9, Counts DEF HInv, Types
<1>12. /\ Conn' = Conn /\ Rejects' = Rejects
       /\ SecureKey' = SecureKey /\ ForwardKey' = ForwardKey
       /\ \A n : ReplyNo(n)' = ReplyNo(n)
  BY <1>1, Zenon DEF Conn, Rejects, SecureKey, ForwardKey, ReplyNo
<1>13. Read(s) = Read(ss[Conn])
  BY <1>10, Zenon DEF Read
<1>14. ServerTurn'
  BY <1>1, <1>4, <1>10, <1>11, <1>12, <1>13, Counts DEF HInv, ServerTurn
<1>15. /\ s.inbox \in {<<>>, <<HelloNo(s.rcvd)>>} /\ s.wrote >= ss[Conn].wrote /\ s.wrote <= Read(s)
       /\ Read(s) <= s.rcvd /\ Read(s) >= Read(ss[Conn]) /\ s.rcvd <= cs.wrote
  <2>1. s.inbox \in {<<>>, <<HelloNo(s.rcvd)>>}
    BY <1>10 DEF HInv, Lockstep
  <2>2. s.wrote = Read(ss[Conn])
    BY <1>4, <1>10
  <2>3. s.rcvd = ss[Conn].rcvd /\ Read(s) = Read(ss[Conn]) /\ ss[Conn].wrote <= Read(ss[Conn])
    BY <1>10, <1>13, Counts
  <2> QED BY <2>1, <2>2, <2>3, Counts
<1>16. /\ "forward" \in Events(s.aeadChanged) \cup Events(s.handshakeChan)
           => hs[Conn].forwardSecureAEAD # NoKey
       /\ ("closed" \in Events(s.aeadChanged) \/ s.handshakeComplete
            \/ hs[Conn].receivedForwardSecurePacket) => hc.forwardSecureAEAD # NoKey
  BY <1>10 DEF HInv, EventsTold
<1>17. ToClient(p)' /\ p.type # "VN"
  <2>1. ss'[Conn].wrote = b /\ b \in 1..b /\ p.n = b /\ p.msg = ReplyNo(p.n)' /\ Rejects \in Nat
    <3>1. p.n = b /\ p.msg = ReplyNo(p.n)
      BY <1>4, <1>7
    <3> QED BY <1>4, <1>10, <1>11, <1>12, <3>1, Counts
  <2>2. CASE b <= Rejects
    <3>1. p.type = "REJ" /\ p.key = NullKey /\ ~p.nonce
      BY <1>4, <1>5, <1>6, <1>7, <2>2, Counts
    <3> QED BY <1>12, <2>1, <2>2, <3>1 DEF ToClient
  <2>3. CASE b = Rejects + 1
    <3>1. p.type = "SHLO" /\ p.key = SecureKey
      BY <1>4, <1>5, <1>6, <1>7, <2>3, Counts
    <3> QED BY <1>12, <2>1, <2>3, <3>1 DEF ToClient
  <2> QED BY <1>4, <2>2, <2>3, Counts
<1> QED BY <1>1, <1>2, <1>3, <1>7, <1>10, <1>11, <1>14, <1>15, <1>16, <1>17, ServerStep

-----------------------------------------------------------------------------
\* The first forward secure packet, which has nothing of the handshake in it.
LEMMA FirstForwardStep ==
  ASSUME HInv, ~Fresh(Conn), ss[Conn].run = "running", NEW p, p.type \in {"DATA", "CLOSE"},
         hc.forwardSecureAEAD # NoKey, firstForwardSecure(Conn, p),
         UNCHANGED <<cache, serverVersions, client, cs, hc, table, accepted, net>>
  PROVE  HInv'
<1> DEFINE t == handleFrame(ss[Conn], p)
<1>1. /\ UNCHANGED <<cache, serverVersions, client, cs, hc, table, accepted, net>>
      /\ ss[Conn].run = "running"
  OBVIOUS
<1>2. /\ hs[Conn].version = client.version /\ hs[Conn].conn = Conn
      /\ hs[Conn].supportedVersions = serverVersions
      /\ IsServerSetup(hs[Conn]) /\ IsSession(ss[Conn])
  BY Alive, Counts
<1>3. PICK g : g = [hs[Conn] EXCEPT !.receivedForwardSecurePacket = TRUE]
  OBVIOUS
<1>4. /\ IsServerSetup(g)
      /\ g.conn = hs[Conn].conn /\ g.version = hs[Conn].version
      /\ g.supportedVersions = hs[Conn].supportedVersions
      /\ g.receivedSecurePacket = hs[Conn].receivedSecurePacket
      /\ g.sentSHLO = hs[Conn].sentSHLO /\ g.reply = hs[Conn].reply
      /\ g.secureAEAD = hs[Conn].secureAEAD /\ g.forwardSecureAEAD = hs[Conn].forwardSecureAEAD
      /\ g.err = hs[Conn].err
      /\ g.receivedForwardSecurePacket
  BY <1>2, <1>3 DEF IsServerSetup
<1>5. PICK s : /\ IsSession(s) /\ s.inbox = ss[Conn].inbox /\ s.handler = ss[Conn].handler
               /\ s.rcvd = ss[Conn].rcvd /\ s.wrote = ss[Conn].wrote
               /\ Events(s.aeadChanged) \subseteq Events(ss[Conn].aeadChanged) \cup {"closed"}
               /\ s.handshakeChan = ss[Conn].handshakeChan
               /\ s.handshakeComplete = ss[Conn].handshakeComplete
               /\ s.run = ss[Conn].run /\ s.pending \in {p, NoPacket}
               /\ ss' = [ss EXCEPT ![Conn] = s]
  <2>1. CASE ~hs[Conn].sentSHLO
    <3>1. PICK s : s = [ss[Conn] EXCEPT !.pending = p]
      OBVIOUS
    <3>2. ss' = [ss EXCEPT ![Conn] = s]
      BY <2>1, <3>1, Zenon DEF firstForwardSecure
    <3>3. /\ IsSession(s) /\ s.inbox = ss[Conn].inbox /\ s.handler = ss[Conn].handler
          /\ s.rcvd = ss[Conn].rcvd /\ s.wrote = ss[Conn].wrote
          /\ s.aeadChanged = ss[Conn].aeadChanged /\ s.handshakeChan = ss[Conn].handshakeChan
          /\ s.handshakeComplete = ss[Conn].handshakeComplete
          /\ s.run = ss[Conn].run /\ s.pending = p
      BY <1>2, <3>1 DEF IsSession
    <3> QED BY <3>2, <3>3
  <2>2. CASE hs[Conn].sentSHLO
    <3>1. /\ IsSession(t) /\ t.handler = ss[Conn].handler /\ t.wrote = ss[Conn].wrote
          /\ t.inbox = ss[Conn].inbox /\ t.rcvd = ss[Conn].rcvd
          /\ t.aeadChanged = ss[Conn].aeadChanged /\ t.handshakeChan = ss[Conn].handshakeChan
          /\ t.handshakeComplete = ss[Conn].handshakeComplete
          /\ t.run = ss[Conn].run
      BY <1>2, HandleFrameFacts
    <3>2. ss' = [ss EXCEPT ![Conn] = [t EXCEPT !.pending = NoPacket,
                                               !.aeadChanged = Append(t.aeadChanged, "closed")]]
      BY <2>2, Zenon DEF firstForwardSecure
    <3> DEFINE told == Append(t.aeadChanged, "closed")
    <3>3. told \in Seq(EventNames) /\ Events(told) = Events(ss[Conn].aeadChanged) \cup {"closed"}
      BY <3>1, EventsAppend DEF IsSession, EventNames
    <3> HIDE DEF t, told
    <3>4. PICK s : s = [t EXCEPT !.pending = NoPacket, !.aeadChanged = told]
      OBVIOUS
    <3>5. /\ IsSession(s) /\ s.inbox = t.inbox /\ s.handler = t.handler
          /\ s.rcvd = t.rcvd /\ s.wrote = t.wrote
          /\ s.aeadChanged = told /\ s.handshakeChan = t.handshakeChan
          /\ s.handshakeComplete = t.handshakeComplete
          /\ s.run = t.run /\ s.pending = NoPacket
      BY <3>1, <3>3, <3>4 DEF IsSession
    <3>6. ss' = [ss EXCEPT ![Conn] = s]
      BY <3>2, <3>4 DEF told
    <3> QED BY <3>1, <3>3, <3>5, <3>6
  <2> QED BY <2>1, <2>2
<1>6. /\ ss'[Conn] = s /\ hs' = [hs EXCEPT ![Conn] = g] /\ hs'[Conn] = g
  BY <1>3, <1>5, Counts DEF firstForwardSecure, HInv, Types
<1>7. /\ Conn' = Conn /\ Rejects' = Rejects
      /\ SecureKey' = SecureKey /\ ForwardKey' = ForwardKey
      /\ \A n : ReplyNo(n)' = ReplyNo(n)
  BY <1>1, Zenon DEF Conn, Rejects, SecureKey, ForwardKey, ReplyNo
<1>8. Read(s) = Read(ss[Conn])
  BY <1>5, Zenon DEF Read
<1>9. ServerTurn'
  BY <1>1, <1>4, <1>5, <1>6, <1>7, <1>8, Counts DEF HInv, ServerTurn
<1>10. /\ s.inbox \in {<<>>, <<HelloNo(s.rcvd)>>} /\ s.wrote >= ss[Conn].wrote /\ s.wrote <= Read(s)
       /\ Read(s) <= s.rcvd /\ Read(s) >= Read(ss[Conn]) /\ s.rcvd <= cs.wrote
  BY <1>5, <1>8, Counts DEF HInv, Lockstep
<1>11. "forward" \in Events(s.aeadChanged) \cup Events(s.handshakeChan)
         => g.forwardSecureAEAD # NoKey
  BY <1>4, <1>5 DEF HInv, EventsTold
<1> QED BY <1>1, <1>2, <1>4, <1>5, <1>6, <1>9, <1>10, <1>11, ServerStep

\* The run loop was held up with the first forward secure packet until the SHLO was sent.
LEMMA ServerResumeStep ==
  ASSUME HInv, ServerResume(Conn)
  PROVE  HInv'
<1>1. /\ ss[Conn].pending # NoPacket /\ firstForwardSecure(Conn, ss[Conn].pending)
      /\ ss[Conn].run = "running"
      /\ UNCHANGED <<cache, serverVersions, client, cs, hc, table, accepted, net>>
  BY DEF ServerResume, clientVars
<1>2. ~Fresh(Conn)
  BY <1>1, Elsewhere, Counts
<1>3. ss[Conn].pending.type \in {"DATA", "CLOSE"} /\ hc.forwardSecureAEAD # NoKey
  BY <1>1 DEF HInv, ServerTurn, EventsTold
<1> QED BY <1>1, <1>2, <1>3, FirstForwardStep

\* The server opens a packet and takes its frame.
LEMMA ServerReceiveStep ==
  ASSUME HInv, NEW p \in net, ServerReceive(p)
  PROVE  HInv'
<1> DEFINE level == ServerOpen(hs[Conn], p.key)
           first == level = "forward" /\ ~hs[Conn].receivedForwardSecurePacket
           seen == hs[Conn].receivedSecurePacket \/ level = "secure"
           next == p.type = "CHLO" /\ p.n = ss[Conn].rcvd + 1
<1>1. /\ p.to = "server" /\ p.conn = Conn /\ ~Fresh(Conn)
  <2>1. p.to = "server" /\ table[p.conn] = "live" /\ p.conn \in Conns
    BY DEF ServerReceive, HInv, Packets, PacketOK
  <2> QED BY <2>1, Elsewhere
<1>2. /\ ss[Conn].run = "running" /\ level # "none"
      /\ UNCHANGED <<cache, serverVersions, client, cs, hc, table, accepted, net>>
      /\ first => firstForwardSecure(Conn, p)
      /\ ~first => /\ hs' = [hs EXCEPT ![Conn].receivedSecurePacket = seen]
                   /\ ss' = [ss EXCEPT ![Conn] = handleFrame(ss[Conn], p)]
  BY <1>1, Zenon DEF ServerReceive, Turning, clientVars
<1>3. ToServer(p)
  BY <1>1 DEF HInv, Packets, PacketOK
<1>4. CASE first
  <2>1. p.key = hs[Conn].forwardSecureAEAD /\ p.key # NoKey
    BY <1>4, KeysDiffer DEF ServerOpen
  <2>2. p.key.level = "forward" /\ p.key # NullKey
    BY <2>1, KeysDiffer DEF HInv, ServerTurn, ForwardKey
  <2>3. p.type \in {"DATA", "CLOSE"} /\ hc.forwardSecureAEAD # NoKey
    BY <1>3, <2>2 DEF ToServer
  <2> QED BY <1>1, <1>2, <1>4, <2>3, FirstForwardStep
<1>5. CASE ~first
  <2>1. /\ hs[Conn].version = client.version /\ hs[Conn].conn = Conn
        /\ hs[Conn].supportedVersions = serverVersions
        /\ IsServerSetup(hs[Conn]) /\ IsSession(ss[Conn])
    BY <1>1, Alive, Counts
  <2>2. seen \in BOOLEAN
    OBVIOUS
  <2>3. p.type \notin {"REJ", "SHLO"} /\ (p.type = "CHLO" => p.n \in 1..cs.wrote /\ p.msg = HelloNo(p.n))
    BY <1>3 DEF ToServer
  <2> HIDE DEF level, first, seen
  <2>4. PICK s : /\ s = handleFrame(ss[Conn], p)
                 /\ IsSession(s) /\ s.handler = ss[Conn].handler /\ s.wrote = ss[Conn].wrote
                 /\ s.inbox = (IF next THEN Append(ss[Conn].inbox, p.msg) ELSE ss[Conn].inbox)
                 /\ s.rcvd = (IF next THEN ss[Conn].rcvd + 1 ELSE ss[Conn].rcvd)
                 /\ s.aeadChanged = ss[Conn].aeadChanged
                 /\ s.handshakeChan = ss[Conn].handshakeChan
                 /\ s.handshakeComplete = ss[Conn].handshakeComplete
                 /\ s.run = ss[Conn].run /\ s.pending = ss[Conn].pending
    BY <2>1, <2>3, HandleFrameFacts
  <2>5. PICK g : g = [hs[Conn] EXCEPT !.receivedSecurePacket = seen]
    OBVIOUS
  <2>6. /\ IsServerSetup(g)
        /\ g.conn = hs[Conn].conn /\ g.version = hs[Conn].version
        /\ g.supportedVersions = hs[Conn].supportedVersions
        /\ g.receivedForwardSecurePacket = hs[Conn].receivedForwardSecurePacket
        /\ g.sentSHLO = hs[Conn].sentSHLO /\ g.reply = hs[Conn].reply
        /\ g.secureAEAD = hs[Conn].secureAEAD /\ g.forwardSecureAEAD = hs[Conn].forwardSecureAEAD
        /\ g.err = hs[Conn].err
    BY <2>1, <2>2, <2>5 DEF IsServerSetup
  <2>7. /\ ss' = [ss EXCEPT ![Conn] = s] /\ ss'[Conn] = s
        /\ hs' = [hs EXCEPT ![Conn] = g] /\ hs'[Conn] = g
    BY <1>2, <1>5, <2>4, <2>5, Counts DEF HInv, Types
  <2>8. /\ s.inbox \in {<<>>, <<HelloNo(s.rcvd)>>} /\ Read(s) = Read(ss[Conn])
        /\ s.rcvd >= ss[Conn].rcvd /\ s.rcvd <= cs.wrote
    <3>1. CASE ~next
      <4>1. s.inbox = ss[Conn].inbox /\ s.rcvd = ss[Conn].rcvd
        BY <2>4, <3>1
      <4>2. Read(s) = Read(ss[Conn])
        BY <4>1, Zenon DEF Read
      <4> QED BY <4>1, <4>2, Counts DEF HInv, Lockstep
    <3>2. CASE next
      <4>1. p.n = ss[Conn].rcvd + 1 /\ p.n <= cs.wrote /\ p.msg = HelloNo(p.n)
        BY <2>3, <3>2, Counts
      <4>2. Read(ss[Conn]) >= ss[Conn].rcvd
        <5>1. p.n <= Read(ss[Conn]) + 1
          BY <4>1, Counts
        <5> QED BY <4>1, <5>1, Counts
      <4>3. ss[Conn].inbox = <<>>
        <5>1. ss[Conn].inbox # <<>> => Read(ss[Conn]) = ss[Conn].rcvd - 1
          BY Zenon DEF Read
        <5> QED BY <4>2, <5>1, Counts
      <4>4. s.inbox = <<HelloNo(s.rcvd)>> /\ s.rcvd = ss[Conn].rcvd + 1
        BY <2>4, <3>2, <4>1, <4>3, Inboxes
      <4>5. s.inbox # <<>>
        BY <4>4, Inboxes
      <4>6. Read(s) = s.rcvd - 1 /\ Read(ss[Conn]) = ss[Conn].rcvd
        BY <4>3, <4>5, Zenon DEF Read
      <4> QED BY <4>1, <4>4, <4>6, Counts
    <3> QED BY <3>1, <3>2
  <2>9. /\ Conn' = Conn /\ Rejects' = Rejects
        /\ SecureKey' = SecureKey /\ ForwardKey' = ForwardKey
        /\ \A n : ReplyNo(n)' = ReplyNo(n)
    BY <1>2, Zenon DEF Conn, Rejects, SecureKey, ForwardKey, ReplyNo
  <2>10. ServerTurn'
    BY <1>2, <2>4, <2>6, <2>7, <2>8, <2>9, Counts DEF HInv, ServerTurn
  <2>11. /\ s.wrote >= ss[Conn].wrote /\ s.wrote <= Read(s)
         /\ Read(s) <= s.rcvd /\ Read(s) >= Read(ss[Conn])
    <3>1. s.wrote = ss[Conn].wrote /\ s.rcvd \in Nat
      BY <2>4 DEF IsSession
    <3> QED BY <2>8, <3>1, Counts
  <2>12. /\ "forward" \in Events(s.aeadChanged) \cup Events(s.handshakeChan)
              => g.forwardSecureAEAD # NoKey
         /\ ("closed" \in Events(s.aeadChanged) \/ s.handshakeComplete
              \/ g.receivedForwardSecurePacket) => hc.forwardSecureAEAD # NoKey
    BY <2>4, <2>6 DEF HInv, EventsTold
  <2>13. /\ UNCHANGED <<cache, serverVersions, client, cs, hc, accepted>>
         /\ table' = table /\ ss[Conn].run = "running" /\ \A q \in net' : q \in net
         /\ g.conn = Conn /\ g.version = client.version /\ g.supportedVersions = serverVersions
         /\ s.inbox \in {<<>>, <<HelloNo(s.rcvd)>>} /\ s.rcvd <= cs.wrote
         /\ hs[Conn].forwardSecureAEAD # NoKey => g.forwardSecureAEAD # NoKey
         /\ IsSession(s) /\ ~Fresh(Conn)
    BY <1>1, <1>2, <2>1, <2>4, <2>6, <2>8
  <2>14. ss' = [ss EXCEPT ![Conn] = s] /\ hs' = [hs EXCEPT ![Conn] = g] /\ IsServerSetup(g)
    BY <2>6, <2>7
  <2> QED BY <2>10, <2>11, <2>12, <2>13, <2>14, ServerStep
<1> QED BY <1>4, <1>5

-----------------------------------------------------------------------------
\* What is left to show of a step that leaves every session as it is: Accept, the deletion
\* of a tombstone, and the answer of a server that has no session for a packet.
LEMMA SessionsKept ==
  ASSUME HInv, UNCHANGED <<cache, serverVersions, client, cs, hc, ss, hs>>,
         accepted' \subseteq {Conn},
         Conn \in accepted' => hs[Conn].forwardSecureAEAD # NoKey,
         \/ table' = table
         \/ /\ table' = [table EXCEPT ![Conn] = "absent"] /\ table[Conn] = "tombstone"
            /\ cs.handshakeComplete \/ cs.run = "ended"
            /\ NoSessionFor(Conn)',
         \A q \in net' : \/ q \in net
                         \/ /\ IsPacket(q) /\ q.to = "client" /\ q.conn \in Conns
                            /\ Conn = 1 => q.conn = 1
                            /\ q.type \in {"VN", "RESET"}
                            /\ q.type = "VN" => q.msg.versions = serverVersions
  PROVE  HInv'
<1>1. /\ UNCHANGED <<cache, serverVersions, client, cs, hc, ss, hs>>
      /\ Conn' = Conn /\ Rejects' = Rejects /\ SecureKey' = SecureKey /\ ForwardKey' = ForwardKey
  BY Zenon DEF Conn, Rejects, SecureKey, ForwardKey
<1>2. \A n : HelloNo(n)' = HelloNo(n) /\ ReplyNo(n)' = ReplyNo(n)
  BY <1>1, Zenon DEF HelloNo, ReplyNo
<1>3. /\ table' \in [Conns -> {"absent", "live", "tombstone"}]
      /\ \A j \in Conns \ {Conn} : table'[j] = table[j]
      /\ \/ table'[Conn] = table[Conn]
         \/ /\ table'[Conn] = "absent" /\ table[Conn] = "tombstone"
            /\ cs.handshakeComplete \/ cs.run = "ended"
            /\ NoSessionFor(Conn)'
  BY Counts DEF HInv, Types
<1>4. \A j : NoSessionFor(j) => NoSessionFor(j)'
  BY <1>1 DEF NoSessionFor
<1>p1. Types'
  BY <1>1, <1>3 DEF HInv, Types
<1>p2. Negotiation'
  <2>1. ASSUME NEW j \in Conns \ {Conn} PROVE Fresh(j) => Fresh(j)'
    BY <1>1, <1>3 DEF Fresh
  <2> QED BY <1>1, <1>4, <2>1, Counts DEF HInv, Negotiation
<1>p3. Table'
  <2>1. table'[Conn] = table[Conn] => (Fresh(Conn) => Fresh(Conn)')
    BY <1>1 DEF Fresh
  <2>2. table[Conn] = "tombstone" => ~Fresh(Conn)
    BY DEF Fresh
  <2> QED BY <1>1, <1>3, <1>4, <2>1, <2>2 DEF HInv, Table
<1>p4. Lockstep'
  BY <1>1, <1>2, Counts DEF HInv, Lockstep
<1>p5. ClientKnows'
  BY <1>1, Zenon DEF HInv, ClientKnows, UnknownVersionListed
<1>p6. ClientTurn'
  BY <1>1, <1>2, Counts DEF HInv, ClientTurn
<1>p7. ClientKeys'
  BY <1>1, Zenon DEF HInv, ClientKeys
<1>p8. ServerTurn'
  BY <1>1, <1>2, Counts DEF HInv, ServerTurn
<1>p9. Packets'
  <2>1. ASSUME NEW p \in net PROVE PacketOK(p)'
    BY <1>1, Counts, PacketKept
  <2>2. ASSUME NEW q \in net', q \notin net PROVE PacketOK(q)'
    BY <1>1, <2>2 DEF PacketOK, ToClient
  <2> QED BY <2>1, <2>2 DEF Packets
<1>p10. EventsTold'
  BY <1>1, Zenon DEF HInv, EventsTold
<1> QED BY <1>p1, <1>p2, <1>p3, <1>p4, <1>p5, <1>p6, <1>p7, <1>p8, <1>p9, <1>p10 DEF HInv

\* Accept returns the client's session, which has told that it is forward secure.
LEMMA AcceptStep ==
  ASSUME HInv, NEW k \in Conns, Accept(k)
  PROVE  HInv'
<1>1. PICK i \in DOMAIN ss[k].handshakeChan : ss[k].handshakeChan[i] = "forward"
  BY DEF Accept
<1>2. ss[k].handshakeChan # <<>>
  BY <1>1
<1>3. k = Conn
  BY <1>2, Elsewhere
<1>4. hs[Conn].forwardSecureAEAD # NoKey
  BY <1>1, <1>3 DEF HInv, EventsTold, Events
<1>5. /\ UNCHANGED <<cache, serverVersions, client, cs, hc, table, ss, hs, net>>
      /\ accepted' = accepted \cup {Conn}
  BY <1>3 DEF Accept, clientVars
<1>6. accepted' \subseteq {Conn}
  BY <1>5 DEF HInv, EventsTold
<1> QED BY <1>4, <1>5, <1>6, SessionsKept

\* The tombstone that is deleted is that of the client's session, which has ended, and
\* what could begin another one for it has died with it.
LEMMA ServerDeleteStep ==
  ASSUME HInv, NEW k \in Conns, ServerDelete(k)
  PROVE  HInv'
<1>1. /\ table[k] = "tombstone" /\ table' = [table EXCEPT ![k] = "absent"]
      /\ client.connectionID = k => (cs.handshakeComplete \/ cs.run = "ended")
      /\ net' = {p \in net : ~(p.to = "server" /\ p.conn = k /\ p.ver # 0)}
      /\ UNCHANGED <<cache, serverVersions, client, cs, hc, ss, hs, accepted>>
  BY DEF ServerDelete, clientVars
<1>2. k = Conn
  BY <1>1, Elsewhere
<1>3. NoSessionFor(Conn)'
  <2>1. 0 \notin serverVersions
    BY HandshakeAssumption DEF HInv, Types
  <2>2. Conn' = Conn
    BY <1>1 DEF Conn
  <2> QED BY <1>1, <1>2, <2>1, <2>2 DEF NoSessionFor
<1>4. cs.handshakeComplete \/ cs.run = "ended"
  BY <1>1, <1>2 DEF Conn
<1>5. accepted \subseteq {Conn} /\ (Conn \in accepted => hs[Conn].forwardSecureAEAD # NoKey)
  BY DEF HInv, EventsTold
<1> QED BY <1>1, <1>2, <1>3, <1>4, <1>5, SessionsKept

\* A packet of a version the server has begins a session, and only the client's can;
\* any other is answered with a version negotiation packet or a reset.
LEMMA ServerDispatchStep ==
  ASSUME HInv, NEW p \in net, ServerDispatch(p)
  PROVE  HInv'
<1>1. /\ p.to = "server" /\ table[p.conn] = "absent" /\ p.conn \in Conns
      /\ UNCHANGED <<cache, serverVersions, client, cs, hc, accepted>>
  BY DEF ServerDispatch, clientVars, HInv, Packets, PacketOK
<1>2. accepted \subseteq {Conn} /\ (Conn \in accepted => hs[Conn].forwardSecureAEAD # NoKey)
  BY DEF HInv, EventsTold
<1>3. CASE p.ver \notin serverVersions
  <2> DEFINE type == IF p.ver = 0 THEN "RESET" ELSE "VN"
             msg == IF p.ver = 0 THEN NoCHLO ELSE [tag |-> "VN", versions |-> serverVersions]
  <2>1. PICK q : q = Packet("client", p.conn, 0, NullKey, FALSE, type, 0, msg)
    OBVIOUS
  <2>2. /\ net' = net \cup {q} /\ UNCHANGED <<table, ss, hs>>
    BY <1>3, <2>1, Zenon DEF ServerDispatch
  <2>3. type \in {"VN", "RESET"} /\ (type = "VN" => msg.versions = serverVersions)
    OBVIOUS
  <2> HIDE DEF type, msg
  <2>4. IsPacket(q) /\ q.to = "client" /\ q.conn = p.conn /\ q.type = type /\ q.msg = msg
    BY <2>1 DEF Packet, IsPacket
  <2>5. Conn = 1 => p.conn = 1
    BY DEF HInv, Negotiation
  <2> QED BY <1>1, <1>2, <2>2, <2>3, <2>4, <2>5, SessionsKept
<1>4. CASE p.ver \in serverVersions
  <2>1. p.conn = Conn
    <3>1. ~NoSessionFor(p.conn)
      BY <1>1, <1>4 DEF NoSessionFor
    <3> QED BY <1>1, <3>1 DEF HInv, Negotiation
  <2>2. Fresh(Conn)
    <3>1. ~NoSessionFor(Conn)
      BY <1>1, <1>4, <2>1 DEF NoSessionFor
    <3> QED BY <1>1, <2>1, <3>1 DEF HInv, Table
  <2>3. p.ver = client.version
    <3>1. 0 \notin serverVersions
      BY HandshakeAssumption DEF HInv, Types
    <3> QED BY <1>1, <1>4, <2>1, <3>1 DEF HInv, Packets, PacketOK, ToServer
  <2>4. PICK g : g = NewCryptoSetup(Conn, client.version, serverVersions)
    OBVIOUS
  <2>5. /\ table' = [table EXCEPT ![Conn] = "live"] /\ net' = net
        /\ ss' = [ss EXCEPT ![Conn] = newSession("read")]
        /\ hs' = [hs EXCEPT ![Conn] = g]
    BY <1>4, <2>1, <2>3, <2>4 DEF ServerDispatch
  <2>6. /\ table \in [Conns -> {"absent", "live", "tombstone"}]
        /\ ss \in [Conns -> {ss[j] : j \in Conns}] /\ hs \in [Conns -> {hs[j] : j \in Conns}]
        /\ \A j \in Conns : IsServerSetup(hs[j])
    BY DEF HInv, Types
  <2>7. ss' = ss
    BY <2>2, <2>5, <2>6, Counts DEF Fresh
  <2>8. /\ hs'[Conn] = g /\ table'[Conn] = "live"
        /\ table' \in [Conns -> {"absent", "live", "tombstone"}]
        /\ \A j \in Conns \ {Conn} : hs'[j] = hs[j] /\ table'[j] = table[j]
    BY <2>5, <2>6, Counts
  <2>9. hs' = [j \in Conns |-> hs'[j]]
    BY <2>5, <2>6
  <2>10. /\ IsServerSetup(g) /\ g.conn = Conn /\ g.version = client.version
         /\ g.supportedVersions = serverVersions
         /\ ~g.receivedForwardSecurePacket
         /\ g.secureAEAD = NoKey /\ g.forwardSecureAEAD = NoKey /\ g.err = "none"
    BY <2>4, NewServerFacts
  <2>11. /\ ss[Conn].handler = "read" /\ ss[Conn].inbox = <<>>
         /\ ss[Conn].pending = NoPacket
         /\ hs[Conn].secureAEAD = NoKey /\ hs[Conn].forwardSecureAEAD = NoKey
    BY <2>2, NewSessionFacts, NewServerFacts DEF Fresh
  <2>12. /\ UNCHANGED <<cache, serverVersions, client, cs, hc, accepted, net>> /\ ss' = ss
         /\ Conn' = Conn /\ Rejects' = Rejects /\ SecureKey' = SecureKey /\ ForwardKey' = ForwardKey
    BY <1>1, <2>5, <2>7, Zenon DEF Conn, Rejects, SecureKey, ForwardKey
  <2>13. \A n : HelloNo(n)' = HelloNo(n) /\ ReplyNo(n)' = ReplyNo(n)
    BY <2>12, Zenon DEF HelloNo, ReplyNo
  <2>p1. Types'
    <3>1. \A j \in Conns : IsServerSetup(hs'[j])
      BY <2>6, <2>8, <2>10
    <3>2. hs' \in [Conns -> {hs'[j] : j \in Conns}]
      BY <2>9
    <3> QED BY <2>8, <2>12, <3>1, <3>2 DEF HInv, Types
  <2>p2. Negotiation'
    <3>1. ASSUME NEW j \in Conns \ {Conn}
          PROVE  (Fresh(j) => Fresh(j)') /\ (NoSessionFor(j) => NoSessionFor(j)')
      BY <2>8, <2>12 DEF Fresh, NoSessionFor
    <3> QED BY <2>12, <3>1, Counts DEF HInv, Negotiation
  <2>p3. Table'
    BY <1>4, <2>3, <2>8, <2>10, <2>12 DEF Table
  <2>p4. Lockstep'
    BY <2>12, <2>13, Counts DEF HInv, Lockstep
  <2>p5. ClientKnows'
    BY <2>12, Zenon DEF HInv, ClientKnows, UnknownVersionListed
  <2>p6. ClientTurn'
    BY <2>12, <2>13, Counts DEF HInv, ClientTurn
  <2>p7. ClientKeys'
    BY <2>12, Zenon DEF HInv, ClientKeys
  <2>p8. ServerTurn'
    BY <2>8, <2>10, <2>11, <2>12, <2>13, Counts DEF HInv, ServerTurn
  <2>p9. Packets'
    <3>1. ASSUME NEW q \in net PROVE PacketOK(q)'
      BY <2>12, Counts, PacketKept
    <3> QED BY <2>12, <3>1 DEF Packets
  <2>p10. EventsTold'
    <3>1. Conn \notin accepted /\ "forward" \notin Events(ss[Conn].aeadChanged) \cup Events(ss[Conn].handshakeChan)
      BY <2>11 DEF HInv, EventsTold
    <3> QED BY <2>8, <2>10, <2>12, <3>1, Zenon DEF HInv, EventsTold
  <2> QED BY <2>p1, <2>p2, <2>p3, <2>p4, <2>p5, <2>p6, <2>p7, <2>p8, <2>p9, <2>p10 DEF HInv
<1> QED BY <1>3, <1>4

-----------------------------------------------------------------------------
\* Before the first packet: the client is about to send its first hello, the server has
\* nothing yet.
LEMMA HInvInit == Init => HInv
<1> SUFFICES ASSUME Init PROVE HInv
  OBVIOUS
<1>1. /\ cache \in Caches /\ cache \in {"none", "current", "stale"}
      /\ serverVersions \in VersionLists
      /\ accepted = {} /\ net = {}
  BY HandshakeAssumption DEF Init
<1>2. /\ IsClient(client) /\ client.version = Preferred(ClientVersions) /\ client.connectionID = 1
      /\ client.dial = "version" /\ ~client.versionNegotiated
  BY DEF Init, IsClient, Conns
<1>3.
      /\ IsSession(cs) /\ cs.handler = "loop" /\ cs.inbox = <<>>
      /\ cs.rcvd = 0 /\ cs.wrote = 0 /\ cs.aeadChanged = <<>> /\ cs.handshakeChan = <<>>
      /\ ~cs.handshakeComplete /\ cs.pending = NoPacket
  BY NewSessionFacts DEF Init
<1>4. Conn = 1 /\ Rejects \in Nat /\ Rejects >= 1
  BY <1>1, <1>2, RejectionsType DEF Conn, Rejects
<1>5.
      /\ IsClientSetup(hc) /\ hc.conn = 1 /\ hc.version = client.version
      /\ hc.negotiatedVersions = {} /\ hc.hellos = 0
      /\ hc.stk = (IF cache = "none" THEN "none" ELSE "old")
      /\ hc.scfg = (IF cache = "current" THEN "new" ELSE IF cache = "stale" THEN "old" ELSE "none")
      /\ hc.nonc = hc.scfg /\ hc.cert \in BOOLEAN /\ (hc.cert <=> cache # "none")
      /\ hc.serverVerified = hc.cert /\ hc.proof = NoCHLO /\ ~hc.divNonce
      /\ hc.secureAEAD = NoKey /\ hc.forwardSecureAEAD = NoKey /\ hc.err = "none"
  BY <1>1, <1>2, NewClientFacts DEF Init
<1>6. /\ table \in [Conns -> {"absent", "live", "tombstone"}]
      /\ DOMAIN ss = Conns /\ ss = [j \in Conns |-> ss[j]]
      /\ DOMAIN hs = Conns /\ hs = [j \in Conns |-> hs[j]]
      /\ \A j \in Conns : Fresh(j) /\ NoSessionFor(j)
  BY <1>1 DEF Init, Fresh, NoSessionFor
<1>7. \A j \in Conns : IsSession(ss[j]) /\ IsServerSetup(hs[j])
  BY <1>6, NewSessionFacts, NewServerFacts DEF Fresh
<1>8. 1 \in Conns
  BY DEF Conns
<1>9. /\ ss[1].handler = "read" /\ ss[1].inbox = <<>> /\ ss[1].rcvd = 0 /\ ss[1].wrote = 0
      /\ ss[1].aeadChanged = <<>> /\ ss[1].handshakeChan = <<>>
      /\ ~ss[1].handshakeComplete /\ ss[1].pending = NoPacket
      /\ table[1] = "absent"
  BY <1>6, <1>8, NewSessionFacts DEF Fresh
<1>10. /\ hs[1].conn = 1 /\ hs[1].supportedVersions = serverVersions
       /\ ~hs[1].receivedForwardSecurePacket
       /\ hs[1].secureAEAD = NoKey /\ hs[1].forwardSecureAEAD = NoKey /\ hs[1].err = "none"
  BY <1>6, <1>8, NewServerFacts DEF Fresh
<1>p1. Types
  <2>1. ss \in [Conns -> {ss[j] : j \in Conns}] /\ hs \in [Conns -> {hs[j] : j \in Conns}]
    BY <1>6
  <2> QED BY <1>1, <1>2, <1>3, <1>5, <1>6, <1>7, <2>1 DEF Types
<1>p2. Negotiation
  <2>1. Preferred(ClientVersions) \in ClientVersions
    BY PreferredExists, HandshakeAssumption
  <2> QED BY <1>1, <1>2, <1>4, <1>5, <1>6, <2>1 DEF Negotiation
<1>p3. Table
  BY <1>4, <1>6, <1>8, <1>9, <1>10 DEF Table
<1>p4. Lockstep
  BY <1>2, <1>3, <1>4, <1>9 DEF Lockstep, Read
<1>p5. ClientKnows
  BY <1>1, <1>3, <1>4, <1>5 DEF ClientKnows, Read
<1>p6. ClientTurn
  BY <1>3, <1>4, <1>5 DEF ClientTurn, Read
<1>p7. ClientKeys
  BY <1>3, <1>4, <1>5, <1>9 DEF ClientKeys, Read
<1>p8. ServerTurn
  BY <1>4, <1>9, <1>10 DEF ServerTurn, Read
<1>p9. Packets
  BY <1>1 DEF Packets
<1>p10. EventsTold
  BY <1>1, <1>3, <1>4, <1>5, <1>9, <1>10, EventsNone DEF EventsTold
<1> QED BY <1>p1, <1>p2, <1>p3, <1>p4, <1>p5, <1>p6, <1>p7, <1>p8, <1>p9, <1>p10 DEF HInv

\* A step of the client, of Dial or of the goroutine that listens.
LEMMA ClientStep ==
  ASSUME HInv,
         \/ ClientHandler \/ ClientPack \/ ClientSend \/ ClientResume \/ ClientEvent
         \/ ClientTimeout \/ ClientEnd \/ DialStep \/ DialFails \/ ClientAppClose
         \/ \E p \in net : \/ ClientReceive(p) \/ ClientDispatch(p) \/ ClientReset(p)
                           \/ ClientNegotiate(p)
  PROVE  HInv'
<1>1. CASE ClientHandler
  <2>1. CASE ClientLoop     BY <2>1, ClientLoopStep
  <2>2. CASE ClientWritten  BY <2>2, ClientWrittenStep
  <2>3. CASE ClientMessage  BY <2>3, ClientMessageStep
  <2>4. CASE ClientNonce    BY <2>4, ClientNonceStep
  <2>5. CASE ClientFailed   BY <2>5, ClientQuietSteps
  <2> QED BY <1>1, <2>1, <2>2, <2>3, <2>4, <2>5 DEF ClientHandler
<1>2. CASE ClientPack
  BY <1>2, ClientPackStep
<1>3. CASE ClientSend \/ ClientEvent \/ ClientTimeout \/ ClientEnd \/ ClientAppClose
  BY <1>3, ClientQuietSteps
<1>4. CASE ClientResume
  BY <1>4, ClientResumeStep
<1>5. CASE DialStep \/ DialFails
  BY <1>5, ClientDialSteps
<1>6. ASSUME NEW p \in net, ClientReceive(p) PROVE HInv'
  BY <1>6, ClientReceiveStep
<1>7. ASSUME NEW p \in net, ClientDispatch(p) PROVE HInv'
  BY <1>7, ClientDialSteps
<1>8. ASSUME NEW p \in net, ClientReset(p) PROVE HInv'
  BY <1>8, ClientQuietSteps
<1>9. ASSUME NEW p \in net, ClientNegotiate(p) PROVE HInv'
  BY <1>9, ClientNegotiateStep
<1> QED BY <1>1, <1>2, <1>3, <1>4, <1>5, <1>6, <1>7, <1>8, <1>9

\* A step of the server's session k, or of Accept and the table: k is the client's.
LEMMA SessionStep ==
  ASSUME HInv, NEW k \in Conns,
         \/ Accept(k) \/ ServerDelete(k) \/ ServerHandler(k) \/ ServerPack(k)
         \/ ServerResume(k) \/ ServerEvent(k) \/ ServerClose(k) \/ ServerEnd(k)
  PROVE  HInv'
<1>1. CASE Accept(k)
  BY <1>1, AcceptStep
<1>2. CASE ServerDelete(k)
  BY <1>2, ServerDeleteStep
<1>3. CASE ServerHandler(k)
  <2>1. ss[k].inbox # <<>> \/ ss[k].handler # "read"
    BY <1>3 DEF ServerHandler, ServerMessage, ServerWritten, ServerFailed
  <2>2. k = Conn
    BY <2>1, Elsewhere
  <2> QED BY <1>3, <2>2, ServerMessageStep, ServerWrittenStep, ServerQuietSteps
    DEF ServerHandler
<1>4. CASE ServerResume(k)
  <2>1. ss[k].pending # NoPacket
    BY <1>4 DEF ServerResume
  <2>2. k = Conn
    BY <2>1, Elsewhere
  <2> QED BY <1>4, <2>2, ServerResumeStep
<1>5. CASE ServerPack(k) \/ ServerEvent(k) \/ ServerClose(k) \/ ServerEnd(k)
  <2>1. table[k] # "absent"
    BY <1>5 DEF ServerPack, ServerEvent, ServerClose, ServerEnd
  <2>2. k = Conn
    BY <2>1, Elsewhere
  <2> QED BY <1>5, <2>2, ServerPackStep, ServerQuietSteps
<1> QED BY <1>1, <1>2, <1>3, <1>4, <1>5

\* Every step keeps the two ends in step with each other.
LEMMA HInvNext == HInv /\ [Next]_vars => HInv'
<1> SUFFICES ASSUME HInv, [Next]_vars PROVE HInv'
  OBVIOUS
<1>1. ASSUME NEW p \in net, ServerDispatch(p) PROVE HInv'
  BY <1>1, ServerDispatchStep
<1>2. ASSUME NEW p \in net, ServerReceive(p) PROVE HInv'
  BY <1>2, ServerReceiveStep
<1>3. CASE UNCHANGED vars
  <2>1. UNCHANGED <<cache, serverVersions, client, cs, hc, table, ss, hs, accepted, net>>
    BY <1>3 DEF vars
  <2>2. accepted \subseteq {Conn} /\ (Conn \in accepted => hs[Conn].forwardSecureAEAD # NoKey)
    BY DEF HInv, EventsTold
  <2> QED BY <2>1, <2>2, SessionsKept
<1> QED BY <1>1, <1>2, <1>3, ClientStep, SessionStep DEF Next

-----------------------------------------------------------------------------
\* A client that has the secure key is at the last reply; one that has the forward secure
\* key has read it, and every counter stands still.
LEMMA LastReply ==
  ASSUME HInv
  PROVE  /\ hc.secureAEAD # NoKey => Read(ss[Conn]) = Rejects + 1 /\ ~Fresh(Conn)
         /\ hc.forwardSecureAEAD # NoKey =>
              /\ cs.rcvd = Rejects + 1 /\ ss[Conn].wrote = Rejects + 1
              /\ ss[Conn].rcvd = Rejects + 1 /\ cs.wrote = Rejects + 1
              /\ Read(ss[Conn]) = Rejects + 1 /\ cache # "stale"
<1>1. hc.secureAEAD # NoKey => Read(ss[Conn]) = Rejects + 1
  BY DEF HInv, ClientKeys
<1>2. Fresh(Conn) => Read(ss[Conn]) = 0
  BY NewSessionFacts DEF Fresh, Read
<1>3. hc.forwardSecureAEAD # NoKey => Read(cs) = Rejects + 1
  BY DEF HInv, ClientKeys
<1>4. cache = "stale" => ss[Conn].wrote <= Rejects
  BY DEF HInv, ServerTurn
<1> QED BY <1>1, <1>2, <1>3, <1>4, Counts

\* What the ends hold in step comes to the same keys, and to the best version.
LEMMA InStepAgrees == HInv => EndsAgree
<1> SUFFICES ASSUME HInv PROVE EndsAgree
  OBVIOUS
<1>1. hc.secureAEAD # NoKey => hc.secureAEAD = hs[Conn].secureAEAD
  BY LastReply DEF HInv, ClientKeys, ServerTurn
<1>2. hc.forwardSecureAEAD # NoKey => hc.forwardSecureAEAD = hs[Conn].forwardSecureAEAD
  BY LastReply DEF HInv, ClientKeys, ServerTurn
<1>3. table[Conn] = "live" => hs[Conn].version = client.version
  BY DEF HInv, Table, Fresh
<1>4. accepted \subseteq {Conn} /\ (Conn \in accepted => hs[Conn].forwardSecureAEAD # NoKey)
  BY DEF HInv, EventsTold
<1>5. client.dial \in {"established", "complete"} =>
         client.version = ChooseSupportedVersion(ClientVersions, serverVersions)
  <2> SUFFICES ASSUME client.dial \in {"established", "complete"}
               PROVE  client.version = ChooseSupportedVersion(ClientVersions, serverVersions)
    OBVIOUS
  <2>1. client.version \in serverVersions
    BY LastReply DEF HInv, Negotiation, Table
  <2>2. CASE Conn = 1
    <3>1. client.version = Preferred(ClientVersions)
      BY <2>2 DEF HInv, Negotiation
    <3> QED BY <2>1, <3>1, FirstVersionStands, HandshakeAssumption
  <2>3. CASE Conn = 2
    BY <2>3 DEF HInv, Negotiation
  <2> QED BY <2>2, <2>3, Counts DEF Conns
<1>6. client.dial = "complete" => hc.forwardSecureAEAD = hs[Conn].forwardSecureAEAD
  <2>1. client.dial = "complete" => hc.forwardSecureAEAD # NoKey
    BY DEF HInv, Negotiation, EventsTold
  <2> QED BY <1>2, <2>1
<1> QED BY <1>1, <1>2, <1>3, <1>4, <1>5, <1>6, Zenon DEF EndsAgree, Conn

\* An end whose handshake is complete has nothing left to retransmit.
LEMMA InStepStrandsNone == HInv => NoHelloStranded
<1> SUFFICES ASSUME HInv PROVE NoHelloStranded
  OBVIOUS
<1>1. cs.handshakeComplete \/ ss[Conn].handshakeComplete => hc.forwardSecureAEAD # NoKey
  BY DEF HInv, EventsTold
<1> QED BY <1>1, LastReply DEF NoHelloStranded, Conn

\* Only what one end knew before can make it fail the other.
LEMMA InStepAccepts == HInv => HonestHandshakeAccepted
<1> SUFFICES ASSUME HInv PROVE HonestHandshakeAccepted
  OBVIOUS
<1>1. hc.err # "none" => UnknownVersionListed
  BY DEF HInv, ClientKnows
<1>2. ASSUME NEW k \in Conns, hs[k].err # "none" PROVE StaleNonce
  <2>1. ~Fresh(k)
    BY <1>2, NewServerFacts DEF Fresh
  <2>2. k = Conn
    BY <2>1 DEF HInv, Negotiation
  <2>3. cache = "stale"
    BY <1>2, <2>2 DEF HInv, ServerTurn
  <2> QED BY <2>3 DEF HInv, ClientKnows, StaleNonce
<1> QED BY <1>1, <1>2 DEF HonestHandshakeAccepted

\* The two ends go through the handshake in step: the client is at most one hello ahead of
\* what it has read, the server never ahead of the hellos it has read, every message is
\* the one its place calls for, and the keys and events an end has are those its place
\* allows (HandleCryptoStream of both crypto setups, run, and Dial).
THEOREM HandshakeInvariant == Spec => []HInv
BY HInvInit, HInvNext, PTL DEF Spec

\* Both ends derive each key from the same hello, nonce and config; Accept returns only
\* the client's session, forward secure and of its version; and a Dial that succeeds
\* speaks the best version both ends have (maybeUpgradeCrypto and handleSHLOMessage
\* against handleCHLO, ChooseSupportedVersion, handlePacket of client and server).
THEOREM KeysAgree == Spec => []EndsAgree
BY HandshakeInvariant, InStepAgrees, PTL

\* An end that completes its handshake, and from then on retransmits nothing that it sent
\* with lesser keys, leaves nothing of its crypto stream unread at the other
\* (getRetransmission; the "closed" of aeadChanged).
THEOREM NothingStranded == Spec => []NoHelloStranded
BY HandshakeInvariant, InStepStrandsNone, PTL

\* Honest ends fail each other's handshake only over a nonce from before a restart, or a
\* list with a version the client does not know (handleMessage, handleREJMessage,
\* handleSHLOMessage, and the limit on hellos in sendCHLO).
THEOREM HonestAccepted == Spec => []HonestHandshakeAccepted
BY HandshakeInvariant, InStepAccepts, PTL

-----------------------------------------------------------------------------
(* The goroutines of a session *)

Ended == rl \in {"exit", "wait", "done"}

\* Why a path is told to close once as long as the run loop turns: what tells it besides
\* session.closePath, which remembers the paths it has told, is the path manager at its
\* end, and that end comes before the run loop's only when createPaths has failed.
ClosesOnce ==
  /\ ~Ended => \A p \in created \ closedPaths :
                  /\ p \in closeChan => p \in listening
                  /\ p \in closeChan \/ p \notin listening => pm = "done"
  /\ runClosed => Ended
  /\ rl \in {"closeInner", "closePush"} => rlPath \notin closedPaths

PathsInv == TypeOK /\ ClosesOnce

\* At first there is the initial path, and nobody has told it anything.
LEMMA PathsInvInit == SessionInit => PathsInv
<1> SUFFICES ASSUME SessionInit PROVE PathsInv
  OBVIOUS
<1>1. created = {InitialPathID} /\ listening = {InitialPathID}
  BY PathsAssumption DEF SessionInit, created, listening
<1>2. TypeOK
  <2>1. pth \in [Paths -> {"none", "top", "wait", "timer", "closing", "done"}]
    BY DEF SessionInit
  <2>2. 0 \in 0..MaxBurst
    BY PathsAssumption
  <2> QED BY <1>1, <2>1, <2>2 DEF SessionInit, TypeOK
<1>3. ClosesOnce
  BY <1>1 DEF SessionInit, ClosesOnce, Ended
<1> QED BY <1>2, <1>3 DEF PathsInv

\* A path's goroutine takes tokens, and leaves its loop only when told to.
LEMMA PathStep ==
  ASSUME PathsInv, NEW p \in Paths, PathRun(p)
  PROVE  PathsInv'
<1> USE PathsAssumption DEF PathsInv, sessionVars
<1>0. UNCHANGED <<sessionVars, pm, launched, runClosed, late>>
  BY DEF PathRun
<1>1. CASE PathTop(p)
  <2>1. TypeOK'
    BY <1>0, <1>1 DEF TypeOK, created, listening, open, PathTop
  <2>2. ClosesOnce'
    BY <1>0, <1>1 DEF TypeOK, ClosesOnce, Ended, created, listening, open, PathTop
  <2> QED BY <2>1, <2>2
<1>2. CASE PathTakesClose(p)
  <2>1. TypeOK'
    BY <1>0, <1>2 DEF TypeOK, created, listening, open, PathTakesClose
  <2>2. ClosesOnce'
    BY <1>0, <1>2 DEF TypeOK, ClosesOnce, Ended, created, listening, open, PathTakesClose
  <2> QED BY <2>1, <2>2
<1>3. CASE PathTimerFires(p)
  <2>1. TypeOK'
    BY <1>0, <1>3 DEF TypeOK, created, listening, open, PathTimerFires
  <2>2. ClosesOnce'
    BY <1>0, <1>3 DEF TypeOK, ClosesOnce, Ended, created, listening, open, PathTimerFires
  <2> QED BY <2>1, <2>2
<1>4. CASE PathTakesSentPacket(p)
  <2>1. TypeOK'
    BY <1>0, <1>4 DEF TypeOK, created, listening, open, PathTakesSentPacket
  <2>2. ClosesOnce'
    BY <1>0, <1>4 DEF TypeOK, ClosesOnce, Ended, created, listening, open, PathTakesSentPacket
  <2> QED BY <2>1, <2>2
<1>5. CASE PathEnds(p)
  <2>1. TypeOK'
    BY <1>0, <1>5 DEF TypeOK, created, listening, open, PathEnds
  <2>2. ClosesOnce'
    BY <1>0, <1>5 DEF TypeOK, ClosesOnce, Ended, created, listening, open, PathEnds
  <2> QED BY <2>1, <2>2
<1> QED BY <1>1, <1>2, <1>3, <1>4, <1>5 DEF PathRun

\* The path manager creates paths, and tells all of them when it ends.
LEMMA PathManagerStep ==
  ASSUME PathsInv, PathManager
  PROVE  PathsInv'
<1> USE PathsAssumption DEF PathsInv, sessionVars
<1>0. UNCHANGED <<perspective, handshake, closeRequest, rl, rlPath, burst, closedPaths,
                launched, runClosed>>
  BY DEF PathManager
<1>1. CASE PmHandshake
  <2>1. TypeOK'
    BY <1>0, <1>1 DEF TypeOK, created, listening, open, PmHandshake
  <2>2. ClosesOnce'
    BY <1>0, <1>1 DEF TypeOK, ClosesOnce, Ended, created, listening, open, PmHandshake
  <2> QED BY <2>1, <2>2
<1>2. CASE PmChangePaths
  <2>1. TypeOK'
    BY <1>0, <1>2 DEF TypeOK, created, listening, open, PmChangePaths
  <2>2. ClosesOnce'
    BY <1>0, <1>2 DEF TypeOK, ClosesOnce, Ended, created, listening, open, PmChangePaths
  <2> QED BY <2>1, <2>2
<1>3. CASE PmLock
  <2>1. TypeOK'
    BY <1>0, <1>3 DEF TypeOK, created, listening, open, PmLock
  <2>2. ClosesOnce'
    BY <1>0, <1>3 DEF TypeOK, ClosesOnce, Ended, created, listening, open, PmLock
  <2> QED BY <2>1, <2>2
<1>4. CASE PmCreatePath
  <2>1. TypeOK'
    BY <1>0, <1>4 DEF TypeOK, created, listening, open, PmCreatePath, Launch
  <2>2. ClosesOnce'
    BY <1>0, <1>4 DEF TypeOK, ClosesOnce, Ended, created, listening, open, PmCreatePath, Launch
  <2> QED BY <2>1, <2>2
<1>5. CASE PmCreated
  <2>1. TypeOK'
    BY <1>0, <1>5 DEF TypeOK, created, listening, open, PmCreated
  <2>2. ClosesOnce'
    BY <1>0, <1>5 DEF TypeOK, ClosesOnce, Ended, created, listening, open, PmCreated
  <2> QED BY <2>1, <2>2
<1>6. CASE PmFailed
  <2>1. TypeOK'
    BY <1>0, <1>6 DEF TypeOK, created, listening, open, PmFailed, ClosePaths
  <2>2. ClosesOnce'
    BY <1>0, <1>6 DEF TypeOK, ClosesOnce, Ended, created, listening, open, PmFailed, ClosePaths
  <2> QED BY <2>1, <2>2
<1>7. CASE PmStop
  <2>1. TypeOK'
    BY <1>0, <1>7 DEF TypeOK, created, listening, open, PmStop, ClosePaths
  <2>2. ClosesOnce'
    BY <1>0, <1>7 DEF TypeOK, ClosesOnce, Ended, created, listening, open, PmStop, ClosePaths
  <2> QED BY <2>1, <2>2
<1> QED BY <1>1, <1>2, <1>3, <1>4, <1>5, <1>6, <1>7 DEF PathManager

\* The run loop: what it waits for is of a path that exists.
LEMMA RunLoopStep ==
  ASSUME PathsInv, RunLoop
  PROVE  PathsInv'
<1> USE PathsAssumption DEF PathsInv, sessionVars
<1>0. UNCHANGED <<pm, late>>
  BY DEF RunLoop
<1>1. CASE TakeCloseAtTop
  <2>1. TypeOK'
    BY <1>0, <1>1 DEF TypeOK, created, listening, open, TakeCloseAtTop
  <2>2. ClosesOnce'
    BY <1>0, <1>1 DEF TypeOK, ClosesOnce, Ended, created, listening, open, TakeCloseAtTop
  <2> QED BY <2>1, <2>2
<1>2. CASE ToSelect
  <2>1. TypeOK'
    BY <1>0, <1>2 DEF TypeOK, created, listening, open, ToSelect
  <2>2. ClosesOnce'
    BY <1>0, <1>2 DEF TypeOK, ClosesOnce, Ended, created, listening, open, ToSelect
  <2> QED BY <2>1, <2>2
<1>3. CASE TakeCloseInSelect
  <2>1. TypeOK'
    BY <1>0, <1>3 DEF TypeOK, created, listening, open, TakeCloseInSelect, ClosePaths
  <2>2. ClosesOnce'
    BY <1>0, <1>3 DEF TypeOK, ClosesOnce, Ended, created, listening, open, TakeCloseInSelect,
      ClosePaths
  <2> QED BY <2>1, <2>2
<1>4. CASE SelectTurn
  <2>1. TypeOK'
    BY <1>0, <1>4 DEF TypeOK, created, listening, open, SelectTurn
  <2>2. ClosesOnce'
    BY <1>0, <1>4 DEF TypeOK, ClosesOnce, Ended, created, listening, open, SelectTurn
  <2> QED BY <2>1, <2>2
<1>5. CASE BadPacket
  <2>1. TypeOK'
    BY <1>0, <1>5 DEF TypeOK, created, listening, open, BadPacket, CloseOnce
  <2>2. ClosesOnce'
    BY <1>0, <1>5 DEF TypeOK, ClosesOnce, Ended, created, listening, open, BadPacket, CloseOnce
  <2> QED BY <2>1, <2>2
<1>6. CASE ConnectionClose
  <2>1. TypeOK'
    BY <1>0, <1>6 DEF TypeOK, created, listening, open, ConnectionClose, CloseOnce
  <2>2. ClosesOnce'
    BY <1>0, <1>6 DEF TypeOK, ClosesOnce, Ended, created, listening, open, ConnectionClose,
      CloseOnce
  <2> QED BY <2>1, <2>2
<1>7. CASE AddAddress
  <2>1. TypeOK'
    BY <1>0, <1>7 DEF TypeOK, created, listening, open, AddAddress, CloseOnce
  <2>2. ClosesOnce'
    BY <1>0, <1>7 DEF TypeOK, ClosesOnce, Ended, created, listening, open, AddAddress, CloseOnce
  <2> QED BY <2>1, <2>2
<1>8. CASE CloseOuter
  <2>1. TypeOK'
    BY <1>0, <1>8 DEF TypeOK, created, listening, open, CloseOuter
  <2>2. ClosesOnce'
    BY <1>0, <1>8 DEF TypeOK, ClosesOnce, Ended, created, listening, open, CloseOuter
  <2> QED BY <2>1, <2>2
<1>9. CASE CloseInner
  <2>1. TypeOK'
    BY <1>0, <1>9 DEF TypeOK, created, listening, open, CloseInner
  <2>2. ClosesOnce'
    BY <1>0, <1>9 DEF TypeOK, ClosesOnce, Ended, created, listening, open, CloseInner
  <2> QED BY <2>1, <2>2
<1>10. CASE ClosePush
  <2>1. TypeOK'
    BY <1>0, <1>10 DEF TypeOK, created, listening, open, ClosePush
  <2>2. ClosesOnce'
    BY <1>0, <1>10 DEF TypeOK, ClosesOnce, Ended, created, listening, open, ClosePush
  <2> QED BY <2>1, <2>2
<1>11. CASE Turn
  <2>1. TypeOK'
    BY <1>0, <1>11 DEF TypeOK, created, listening, open, Turn
  <2>2. ClosesOnce'
    BY <1>0, <1>11 DEF TypeOK, ClosesOnce, Ended, created, listening, open, Turn
  <2> QED BY <2>1, <2>2
<1>12. CASE Push
  <2>1. TypeOK'
    BY <1>0, <1>12 DEF TypeOK, created, listening, open, Push
  <2>2. ClosesOnce'
    BY <1>0, <1>12 DEF TypeOK, ClosesOnce, Ended, created, listening, open, Push
  <2> QED BY <2>1, <2>2
<1>13. CASE AckRemainingPaths
  <2>1. TypeOK'
    BY <1>0, <1>13 DEF TypeOK, created, listening, open, AckRemainingPaths
  <2>2. ClosesOnce'
    BY <1>0, <1>13 DEF TypeOK, ClosesOnce, Ended, created, listening, open, AckRemainingPaths
  <2> QED BY <2>1, <2>2
<1>14. CASE EndTurn
  <2>1. TypeOK'
    BY <1>0, <1>14 DEF TypeOK, created, listening, open, EndTurn, CloseOnce
  <2>2. ClosesOnce'
    BY <1>0, <1>14 DEF TypeOK, ClosesOnce, Ended, created, listening, open, EndTurn, CloseOnce
  <2> QED BY <2>1, <2>2
<1>15. CASE CloseSession
  <2>1. TypeOK'
    BY <1>0, <1>15 DEF TypeOK, created, listening, open, CloseSession, ClosePaths
  <2>2. ClosesOnce'
    BY <1>0, <1>15 DEF TypeOK, ClosesOnce, Ended, created, listening, open, CloseSession,
      ClosePaths
  <2> QED BY <2>1, <2>2
<1>16. CASE SessionDone
  <2>1. TypeOK'
    BY <1>0, <1>16 DEF TypeOK, created, listening, open, SessionDone
  <2>2. ClosesOnce'
    BY <1>0, <1>16 DEF TypeOK, ClosesOnce, Ended, created, listening, open, SessionDone
  <2> QED BY <2>1, <2>2
<1>17. ASSUME NEW p \in Paths, PathTimer(p) PROVE PathsInv'
  <2>1. TypeOK'
    BY <1>0, <1>17 DEF TypeOK, created, listening, open, PathTimer
  <2>2. ClosesOnce'
    BY <1>0, <1>17 DEF TypeOK, ClosesOnce, Ended, created, listening, open, PathTimer
  <2> QED BY <2>1, <2>2
<1>18. ASSUME NEW p \in Paths, CreatePathFromRemote(p) PROVE PathsInv'
  <2>1. TypeOK'
    BY <1>0, <1>18 DEF TypeOK, created, listening, open, CreatePathFromRemote, Launch
  <2>2. ClosesOnce'
    BY <1>0, <1>18 DEF TypeOK, ClosesOnce, Ended, created, listening, open,
      CreatePathFromRemote, Launch
  <2> QED BY <2>1, <2>2
<1>19. ASSUME NEW p \in Paths, ClosePathFrame(p) PROVE PathsInv'
  <2>1. TypeOK'
    BY <1>0, <1>19 DEF TypeOK, created, listening, open, ClosePathFrame
  <2>2. ClosesOnce'
    BY <1>0, <1>19 DEF TypeOK, ClosesOnce, Ended, created, listening, open, ClosePathFrame
  <2> QED BY <2>1, <2>2
<1>20. ASSUME NEW p \in Paths, SelectPath(p) PROVE PathsInv'
  <2>1. TypeOK'
    BY <1>0, <1>20 DEF TypeOK, created, listening, open, SelectPath
  <2>2. ClosesOnce'
    BY <1>0, <1>20 DEF TypeOK, ClosesOnce, Ended, created, listening, open, SelectPath
  <2> QED BY <2>1, <2>2
<1>21. ASSUME NEW p \in Paths, AckPath(p) PROVE PathsInv'
  <2>1. TypeOK'
    BY <1>0, <1>21 DEF TypeOK, created, listening, open, AckPath
  <2>2. ClosesOnce'
    BY <1>0, <1>21 DEF TypeOK, ClosesOnce, Ended, created, listening, open, AckPath
  <2> QED BY <2>1, <2>2
<1>22. ASSUME NEW p \in Paths, WaitForPath(p) PROVE PathsInv'
  <2>1. TypeOK'
    BY <1>0, <1>22 DEF TypeOK, created, listening, open, WaitForPath
  <2>2. ClosesOnce'
    BY <1>0, <1>22 DEF TypeOK, ClosesOnce, Ended, created, listening, open, WaitForPath
  <2> QED BY <2>1, <2>2
<1> QED BY <1>1, <1>2, <1>3, <1>4, <1>5, <1>6, <1>7, <1>8, <1>9, <1>10, <1>11, <1>12, <1>13,
  <1>14, <1>15, <1>16, <1>17, <1>18, <1>19, <1>20, <1>21, <1>22 DEF RunLoop

\* Every step of a session's goroutines.
LEMMA PathsInvNext == PathsInv /\ [SessionNext]_allVars => PathsInv'
<1> SUFFICES ASSUME PathsInv, [SessionNext]_allVars PROVE PathsInv'
  OBVIOUS
<1>1. CASE Close \/ UNCHANGED allVars
  <2>1. /\ UNCHANGED <<perspective, handshake, rl, rlPath, burst, rest, closedPaths, pm, launched,
                       runClosed, pth, closeChan, sentPacket, late>>
        /\ closeRequest' \in {closeRequest, "error", "newVersion"}
    BY <1>1 DEF Close, allVars, sessionVars
  <2>2. TypeOK'
    BY <2>1 DEF PathsInv, TypeOK, created
  <2>3. ClosesOnce'
    BY <2>1 DEF PathsInv, ClosesOnce, Ended, created, listening
  <2> QED BY <2>2, <2>3 DEF PathsInv
<1> QED BY <1>1, RunLoopStep, PathManagerStep, PathStep DEF SessionNext

\* A full closeChan while the run loop turns is one the path manager has filled at its end,
\* and then its path has not taken the token yet.
LEMMA ClosesOnceUnblocks == PathsInv => ClosePathUnblocks
BY DEF PathsInv, TypeOK, ClosesOnce, Ended, ClosePathUnblocks

\* Tokens, closed paths and blocking calls of the run loop are of paths that exist, for any
\* number of paths and packets in a turn (session.go, path.go, path_manager.go).
THEOREM GoroutinesTyped == SessionSpec => []TypeOK
<1>1. PathsInv => TypeOK
  BY DEF PathsInv
<1> QED BY <1>1, PathsInvInit, PathsInvNext, PTL DEF SessionSpec

\* pathManager.closePath never blocks for good with pathsLock held: if the closeChan it
\* sends on is full, the goroutine that empties it still listens.
THEOREM ClosePathNeverStuck == SessionSpec => []ClosePathUnblocks
BY PathsInvInit, PathsInvNext, ClosesOnceUnblocks, PTL DEF SessionSpec
=============================================================================

----------------------------- MODULE CryptoSetup -----------------------------
(***************************************************************************)
(* The crypto setups of the two ends (internal/handshake/                  *)
(* crypto_setup_client.go and crypto_setup_server.go) as operators on the  *)
(* records they keep; Handshake.tla runs them.  Cryptography is abstract:  *)
(* a key is the record of what it is derived from, and a packet opens with *)
(* the key it was sealed with and no other.  A server config, and the      *)
(* client nonce made from its OBIT, is "new" (of the running server), "old"*)
(* (of the server before its last restart) or "none".                      *)
(***************************************************************************)
EXTENDS Integers

CONSTANTS
    MaxClientHellos,    \* protocol.MaxClientHellos
    SupportedVersions   \* protocol.SupportedVersions, what this program speaks

NoKey == [level |-> "none"]
NullKey == [level |-> "null"]
NoCHLO == [tag |-> "none"]

DerivedKey(level, conn, chlo, scfg, nonc) ==
    [level |-> level, conn |-> conn, chlo |-> chlo, scfg |-> scfg, nonc |-> nonc]

-----------------------------------------------------------------------------
(* The client: NewCryptoSetupClient, with what useHandshakeCache found. *)

NewCryptoSetupClient(conn, ver, negotiatedVersions, cache) ==
    LET scfg == CASE cache = "none" -> "none"
                  [] cache = "current" -> "new"
                  [] cache = "stale" -> "old"
    IN  [conn |-> conn, version |-> ver, negotiatedVersions |-> negotiatedVersions,
         hellos |-> 0,
         stk |-> IF cache = "none" THEN "none" ELSE "old",
         scfg |-> scfg, nonc |-> scfg,
         cert |-> cache # "none", serverVerified |-> cache # "none",
         proof |-> NoCHLO, chloForSignature |-> NoCHLO,
         divNonce |-> FALSE, lastSentCHLO |-> NoCHLO,
         receivedSecurePacket |-> FALSE,
         secureAEAD |-> NoKey, forwardSecureAEAD |-> NoKey, err |-> "none"]

(* The tags of a CHLO; the key share, the nonce and the hash of the        *)
(* certificate go along as soon as the client has config and certificate.  *)
getTags(h) ==
    [tag |-> "CHLO", ver |-> h.version, stk |-> h.stk, scid |-> h.scfg,
     pubs |-> h.scfg # "none" /\ h.cert,
     nonc |-> IF h.scfg # "none" /\ h.cert THEN h.nonc ELSE "none"]

maybeUpgradeCrypto(h) ==
    IF /\ h.serverVerified /\ h.secureAEAD = NoKey
       /\ h.scfg # "none" /\ h.nonc # "none" /\ h.cert
       /\ h.divNonce /\ h.lastSentCHLO # NoCHLO
    THEN [h EXCEPT !.secureAEAD =
              DerivedKey("secure", h.conn, h.lastSentCHLO, h.scfg, h.nonc)]
    ELSE h

Fault_TooManyRejects(h) ==
    [h EXCEPT !.hellos = h.hellos + 1,
              !.err = IF h.hellos + 1 >= MaxClientHellos THEN "TooManyRejects" ELSE "none"]

(* The counter of sendCHLO. *)
countCHLO(h) ==
    [h EXCEPT !.hellos = h.hellos + 1,
              !.err = IF h.hellos + 1 > MaxClientHellos THEN "TooManyRejects" ELSE "none"]

(* A REJ brings a token and a config, and a proof with the certificate     *)
(* once the server accepts the token.  The nonce is made once, from the    *)
(* first config this client has ever seen.                                 *)
handleREJMessage(h, m) ==
    LET known == [h EXCEPT !.stk = m.stk, !.scfg = m.scfg,
                           !.nonc = IF h.nonc = "none" THEN m.scfg ELSE h.nonc]
        told == IF m.proof = NoCHLO THEN known
                ELSE [known EXCEPT !.proof = m.proof, !.cert = TRUE,
                                   !.chloForSignature = h.lastSentCHLO]
    IN  IF told.proof = NoCHLO \/ ~told.cert THEN told
        ELSE IF told.proof = told.chloForSignature
             THEN [told EXCEPT !.serverVerified = TRUE]
             ELSE [told EXCEPT !.err = "ProofInvalid"]

(* Versions this program does not know are read as VersionUnsupported in   *)
(* the list of the SHLO, but kept as they are in a version negotiation     *)
(* packet.                                                                 *)
VersionUnsupported == -1
validateVersionList(h, versions) ==
    h.negotiatedVersions # {} =>
        {IF v \in SupportedVersions THEN v ELSE VersionUnsupported : v \in versions}
            = h.negotiatedVersions

handleSHLOMessage(h, m) ==
    IF ~h.receivedSecurePacket THEN [h EXCEPT !.err = "CryptoEncryptionLevelIncorrect"]
    ELSE IF ~validateVersionList(h, m.versions)
    THEN [h EXCEPT !.err = "VersionNegotiationMismatch"]
    ELSE [h EXCEPT !.forwardSecureAEAD =
              DerivedKey("forward", h.conn, h.lastSentCHLO, h.scfg, h.nonc)]

handleClientMessage(h, m) ==
    IF m.tag = "REJ" THEN handleREJMessage(h, m) ELSE handleSHLOMessage(h, m)

(* The level at which the client opens a packet sealed with key. *)
ClientOpen(h, key) ==
    IF h.forwardSecureAEAD # NoKey
    THEN IF key = h.forwardSecureAEAD THEN "forward" ELSE "none"
    ELSE IF h.secureAEAD # NoKey /\ key = h.secureAEAD THEN "secure"
    ELSE IF key = NullKey /\ ~h.receivedSecurePacket THEN "null" ELSE "none"

ClientSealer(h) ==
    IF h.forwardSecureAEAD # NoKey THEN h.forwardSecureAEAD
    ELSE IF h.secureAEAD # NoKey THEN h.secureAEAD ELSE NullKey

-----------------------------------------------------------------------------
(* The server. *)

NewCryptoSetup(conn, ver, supportedVersions) ==
    [conn |-> conn, version |-> ver, supportedVersions |-> supportedVersions,
     receivedSecurePacket |-> FALSE, receivedForwardSecurePacket |-> FALSE,
     sentSHLO |-> FALSE, reply |-> NoCHLO,
     secureAEAD |-> NoKey, forwardSecureAEAD |-> NoKey, err |-> "none"]

(* Every crypto setup makes tokens with a secret of its own, so the only   *)
(* token it accepts is the one it gave itself.                             *)
acceptSTK(stk) == stk = "given"

isInchoateCHLO(chlo) == ~chlo.pubs \/ chlo.scid # "new" \/ ~acceptSTK(chlo.stk)

handleInchoateCHLO(g, chlo) ==
    [g EXCEPT !.reply = [tag |-> "REJ", stk |-> "given", scfg |-> "new",
                         proof |-> IF acceptSTK(chlo.stk) THEN chlo ELSE NoCHLO]]

(* validateClientNonce asks for the OBIT of the running config. *)
handleCHLO(g, chlo) ==
    IF chlo.nonc # "new" THEN [g EXCEPT !.err = "InvalidCryptoMessageParameter"]
    ELSE [g EXCEPT !.secureAEAD = DerivedKey("secure", g.conn, chlo, "new", chlo.nonc),
                   !.forwardSecureAEAD = DerivedKey("forward", g.conn, chlo, "new", chlo.nonc),
                   !.reply = [tag |-> "SHLO", versions |-> g.supportedVersions]]

handleMessage(g, chlo) ==
    IF chlo.ver # g.version /\ chlo.ver \in g.supportedVersions
    THEN [g EXCEPT !.err = "VersionNegotiationMismatch"]
    ELSE IF isInchoateCHLO(chlo) THEN handleInchoateCHLO(g, chlo)
    ELSE handleCHLO(g, chlo)

ServerOpen(g, key) ==
    IF g.forwardSecureAEAD # NoKey /\ key = g.forwardSecureAEAD THEN "forward"
    ELSE IF g.receivedForwardSecurePacket THEN "none"
    ELSE IF g.secureAEAD # NoKey /\ key = g.secureAEAD THEN "secure"
    ELSE IF key = NullKey /\ ~g.receivedSecurePacket THEN "null" ELSE "none"

ServerSealer(g) == IF g.forwardSecureAEAD # NoKey THEN g.forwardSecureAEAD ELSE NullKey

ServerSealerForCryptoStream(g) == IF g.secureAEAD # NoKey THEN g.secureAEAD ELSE NullKey

=============================================================================

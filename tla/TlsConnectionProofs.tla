------------------------- MODULE TlsConnectionProofs -------------------------
(***************************************************************************)
(* A TLS connection is established only as it was configured: for every    *)
(* setting, peer and decision of a user, where the runs check a sample.    *)
(* The handshake runs inside the calls of the owner, among transfers,      *)
(* flushes and completions that must leave it alone: for each operation    *)
(* the lemmas say which members of the socket it may change, and what the  *)
(* handshake has established by then.                                      *)
(***************************************************************************)
EXTENDS TlsConnection, TLAPS, SequenceTheorems, FiniteSetTheorems, NaturalsInduction,
        WellFoundedInduction

-----------------------------------------------------------------------------
(* The decision on a peer.                                                 *)
\* A context that was made, and a library that agreed on a group with a peer whose
\* chain it did not refuse, leave a connection as strong as the minimum.
\* (fp_ConfigureAlgorithms, fg_CertificateMeetsStrength, fp_LoadPublicCertificate)
LEMMA StrengthKept ==
  ASSUME NEW settings \in Settings, NEW peer \in Peers, NEW group \in Strengths,
         ~ContextFails(settings),
         Agrees(settings, peer, group),
         ~VerificationFails(settings, peer)
  PROVE  Strong(settings, peer, group)
<1>1. group >= settings.minimum
  BY DEF Agrees, Negotiable, AllowedGroups
<1>2. \A c \in CommonCiphers(settings, peer) : c >= settings.minimum
  BY DEF CommonCiphers, AllowedCiphers
<1>3. ASSUME NEW v \in CommonVersions(settings, peer)
      PROVE  \/ v >= 12
             \/ /\ settings.protocol = "SSL"
                /\ settings.minimum = NoMinimum
                /\ "AllowInsecureSSLVersions" \in settings.flags
  BY <1>3 DEF CommonVersions, AllowedVersions, Versions
<1>4. peer.leaf # NoCertificate => MeetsStrength(settings, peer)
  BY DEF VerificationFails
<1>5. ASSUME settings.identity.certificate
      PROVE  /\ settings.identity.key /\ settings.identity.matches
             /\ settings.identity.strength >= settings.minimum
             /\ settings.identity.keyStrength >= settings.minimum
  <2>1. ~IdentityFails(settings) /\ ~CertificateFails(settings) /\ ~KeyFails(settings)
    BY DEF ContextFails
  <2>2. settings.identity.key /\ settings.identity.matches
    BY <1>5, <2>1 DEF IdentityFails
  <2>3. /\ settings.identity.strength \in Nat
        /\ settings.identity.keyStrength \in Nat
        /\ settings.minimum \in Nat
    BY DEF Settings, Identities, CertificateStrengths, Strengths, NoMinimum
  <2>. QED  BY <1>5, <2>1, <2>2, <2>3 DEF CertificateFails, KeyFails, NoMinimum
<1>. QED  BY <1>1, <1>2, <1>3, <1>4, <1>5 DEF Strong

\* A chain without a trusted root is reported as such, and no other error says so;
\* the same of its other faults.  (fs_VerifyCallback)
LEMMA ReportedAsItIs ==
  ASSUME NEW settings \in Settings, NEW peer \in Peers
  PROVE  /\ Reported(settings, peer) \cap RootErrors =
              IF Rooted(settings, peer) THEN {} ELSE {peer.unrooted}
         /\ "UNABLE_TO_GET_CRL" \in Reported(settings, peer) <=> ~RevocationListed(settings, peer)
         /\ "CERT_REVOKED" \in Reported(settings, peer) <=>
              settings.lists = "Loaded" /\ peer.listed /\ peer.revoked
         /\ "CERT_HAS_EXPIRED" \in Reported(settings, peer) <=> ~peer.valid
<1>1. peer.root \in TrustedRoots(settings) <=> Rooted(settings, peer)
  BY DEF TrustedRoots, Rooted
<1>2. peer.unrooted \in RootErrors
  BY DEF Peers
<1>3. \A error \in RootErrors :
        error \in Reported(settings, peer) <=> error = peer.unrooted /\ ~Rooted(settings, peer)
  BY <1>1 DEF Reported, ChainErrors, RootErrors
<1>4. Reported(settings, peer) \cap RootErrors =
        IF Rooted(settings, peer) THEN {} ELSE {peer.unrooted}
  BY <1>2, <1>3
<1>5. "UNABLE_TO_GET_CRL" \in Reported(settings, peer) <=> ~RevocationListed(settings, peer)
  BY <1>2 DEF Reported, ChainErrors, RootErrors, RevocationListed, RevocationChecked
<1>6. "CERT_REVOKED" \in Reported(settings, peer) <=>
        settings.lists = "Loaded" /\ peer.listed /\ peer.revoked
  BY <1>2 DEF Reported, ChainErrors, RootErrors, RevocationChecked
<1>7. "CERT_HAS_EXPIRED" \in Reported(settings, peer) <=> ~peer.valid
  BY <1>2 DEF Reported, ChainErrors, RootErrors
<1>. QED  BY <1>4, <1>5, <1>6, <1>7

\* A chain free of trust errors reaches a trusted root or brings one of its own, and
\* its issuers have lists; one free of verification errors is sound, and the root it
\* brings is trusted.  (fsp_IsTrustError, f_LogError, f_LogMiscError)
LEMMA FreeOfErrors ==
  ASSUME NEW settings \in Settings, NEW peer \in Peers
  PROVE  /\ ~Untrusted(settings, peer) =>
              /\ Rooted(settings, peer) \/ ShowsEnd(peer)
              /\ RevocationListed(settings, peer)
         /\ ~(Invalid(settings, peer) \/ HostnameMismatch(settings, peer)) =>
              /\ Sound(settings, peer)
              /\ ShowsEnd(peer) => Rooted(settings, peer)
<1>1. Rooted(settings, peer) \/ peer.unrooted \in Reported(settings, peer)
  BY ReportedAsItIs
<1>2. peer.unrooted \in RootErrors
  BY DEF Peers
<1>3. IsTrustError(peer.unrooted) <=> ~ShowsEnd(peer)
  BY <1>2 DEF IsTrustError, ShowsEnd, RootErrors
<1>4. /\ IsTrustError("UNABLE_TO_GET_CRL")
      /\ ~IsTrustError("CERT_REVOKED") /\ ~IsTrustError("CERT_HAS_EXPIRED")
  BY DEF IsTrustError
<1>5. ASSUME ~Untrusted(settings, peer)
      PROVE  (Rooted(settings, peer) \/ ShowsEnd(peer)) /\ RevocationListed(settings, peer)
  BY <1>1, <1>3, <1>4, <1>5, ReportedAsItIs DEF Untrusted
<1>6. ASSUME ~Invalid(settings, peer), ~HostnameMismatch(settings, peer)
      PROVE  Sound(settings, peer) /\ (ShowsEnd(peer) => Rooted(settings, peer))
  <2>1. ShowsEnd(peer) => Rooted(settings, peer)
    BY <1>1, <1>3, <1>6 DEF Invalid
  <2>2. peer.valid /\ (settings.lists = "Loaded" /\ peer.listed => ~peer.revoked)
    BY <1>4, <1>6, ReportedAsItIs DEF Invalid
  <2>. QED  BY <1>6, <2>1, <2>2 DEF Sound, HostnameMismatch
<1>. QED  BY <1>5, <1>6

\* What verification logs of a chain it does not refuse: its leaf, each error the
\* library reports of it, and whether there is one of either kind.
LEMMA LoggedAsItIs ==
  ASSUME NEW settings \in Settings, NEW peer \in Peers,
         ~VerificationFails(settings, peer), peer.leaf # NoCertificate
  PROVE  LET result == Verified(settings, peer)
         IN  /\ result.leaf = peer.leaf
             /\ result.errors = Reported(settings, peer)
             /\ result.trustErrors <=> Untrusted(settings, peer)
             /\ result.hostnameMismatch <=> HostnameMismatch(settings, peer)
             /\ result.verificationErrors <=>
                  Invalid(settings, peer) \/ HostnameMismatch(settings, peer)
             /\ ~result.sslErrors
<1>1. Verified(settings, peer) =
        [NoResult EXCEPT
           !.leaf = peer.leaf,
           !.errors = Reported(settings, peer),
           !.trustErrors = Untrusted(settings, peer),
           !.hostnameMismatch = HostnameMismatch(settings, peer),
           !.verificationErrors = Invalid(settings, peer) \/ HostnameMismatch(settings, peer)]
  BY DEF Verified
<1>. QED  BY <1>1 DEF NoResult

\* The result of a peer the library refused is that of no other peer.
LEMMA RefusedIsApart ==
  ASSUME NEW settings \in Settings, NEW peer \in Peers,
         VerificationFails(settings, peer)
  PROVE  Verified(settings, peer).sslErrors
BY DEF Verified, NoResult

\* A peer without certificate leaves nothing in the result.
LEMMA NothingLogged ==
  ASSUME NEW settings \in Settings, NEW peer \in Peers,
         ~VerificationFails(settings, peer), peer.leaf = NoCertificate
  PROVE  Verified(settings, peer) = NoResult
BY DEF Verified

\* A decision that accepts a peer, on what verification logged and what the user
\* decided on, keeps what the settings promise about it: no chain of faults, flags,
\* remembered certificates and decisions gets a peer in that they keep out.
\* (fp_ProcessConnection)
THEOREM AcceptedIsPromised ==
  ASSUME NEW settings \in Settings, NEW peer \in Peers, NEW group \in Strengths,
         NEW decided \in SUBSET Peers,
         ~ContextFails(settings),
         Agrees(settings, peer, group),
         ~VerificationFails(settings, peer),
         Accepted(settings, Verified(settings, peer), {Verified(settings, p) : p \in decided})
  PROVE  Promised(settings, peer, group, decided)
<1> DEFINE result == Verified(settings, peer)
           expected == {Verified(settings, p) : p \in decided}
<1>1. Strong(settings, peer, group)
  BY StrengthKept
<1>2. peer.leaf = NoCertificate =>
        ~(settings.server /\ settings.authority
          /\ "AllowMissingPeerCertificate" \notin settings.flags)
  BY DEF VerificationFails, PeerCertificateRequired
<1>3. CASE "UseSpecificPeerCertificate" \in settings.flags
  <2>1. ~result.verificationErrors /\ MatchesSpecific(settings, result)
    BY <1>3 DEF Accepted
  <2>2. settings.specific # NoCertificate /\ result.leaf = settings.specific
    BY <2>1 DEF MatchesSpecific
  <2>3. peer.leaf # NoCertificate
    BY <2>2, NothingLogged DEF NoResult
  <2>4. /\ peer.leaf = settings.specific
        /\ ~(Invalid(settings, peer) \/ HostnameMismatch(settings, peer))
    BY <2>1, <2>2, <2>3, LoggedAsItIs
  <2>5. Sound(settings, peer) /\ (ShowsEnd(peer) => Rooted(settings, peer))
    BY <2>4, FreeOfErrors
  <2>. QED  BY <1>1, <1>2, <1>3, <2>4, <2>5 DEF Promised
<1>4. CASE "UseSpecificPeerCertificate" \notin settings.flags /\ decided # {}
  <2>1. PICK p \in decided : Verified(settings, p) = result
    BY <1>4 DEF Accepted, SameResult
  <2>2. ~VerificationFails(settings, p)
    <3>1. ~result.sslErrors
      BY LoggedAsItIs, NothingLogged DEF NoResult
    <3>. QED  BY <2>1, <3>1, RefusedIsApart
  <2>3. CASE peer.leaf = NoCertificate
    <3>1. p.leaf = NoCertificate
      <4>1. SUFFICES ASSUME p.leaf # NoCertificate PROVE FALSE
        OBVIOUS
      <4>2. result.leaf = p.leaf
        BY <2>1, <2>2, <4>1, LoggedAsItIs
      <4>. QED  BY <2>3, <4>1, <4>2, NothingLogged DEF NoResult
    <3>. QED  BY <1>1, <1>2, <1>4, <2>3, <3>1 DEF Promised
  <2>4. CASE peer.leaf # NoCertificate
    <3>1. result.leaf = peer.leaf
      BY <2>4, LoggedAsItIs
    <3>2. p.leaf # NoCertificate
      BY <2>1, <2>2, <2>4, <3>1, NothingLogged DEF NoResult
    <3>3. p.leaf = peer.leaf
      BY <2>1, <2>2, <3>1, <3>2, LoggedAsItIs
    <3>4. /\ Reported(settings, peer) = Reported(settings, p)
          /\ HostnameMismatch(settings, peer) <=> HostnameMismatch(settings, p)
      <4>1. /\ result.errors = Reported(settings, peer)
            /\ result.hostnameMismatch <=> HostnameMismatch(settings, peer)
        BY <2>4, LoggedAsItIs
      <4>2. /\ result.errors = Reported(settings, p)
            /\ result.hostnameMismatch <=> HostnameMismatch(settings, p)
        BY <2>1, <2>2, <3>2, LoggedAsItIs
      <4>. QED  BY <4>1, <4>2
    <3>5. /\ Rooted(settings, peer) <=> Rooted(settings, p)
          /\ Rooted(settings, peer) \/ peer.unrooted = p.unrooted
      BY <3>4, ReportedAsItIs
    <3>6. RevocationListed(settings, peer) <=> RevocationListed(settings, p)
      BY <3>4, ReportedAsItIs
    <3>7. Sound(settings, peer) <=> Sound(settings, p)
      BY <3>4, ReportedAsItIs DEF Sound, HostnameMismatch
    <3>. QED  BY <1>1, <1>2, <1>4, <3>3, <3>5, <3>6, <3>7 DEF Promised
  <2>. QED  BY <2>3, <2>4
<1>5. CASE "UseSpecificPeerCertificate" \notin settings.flags /\ decided = {}
  <2>1. /\ ~VerificationErrors(settings, result)
        /\ ~TrustErrors(settings, result) \/ MatchesRemembered(settings, result)
    BY <1>5 DEF Accepted
  <2>2. ASSUME peer.leaf # NoCertificate
        PROVE  /\ \/ Rooted(settings, peer)
                  \/ ShowsEnd(peer) /\ "IgnoreVerificationFailures" \in settings.flags
                  \/ ~ShowsEnd(peer) /\ "IgnoreTrustFailures" \in settings.flags
                  \/ ~ShowsEnd(peer) /\ peer.leaf \in settings.store
               /\ \/ RevocationListed(settings, peer)
                  \/ "IgnoreTrustFailures" \in settings.flags
                  \/ peer.leaf \in settings.store
               /\ \/ Sound(settings, peer)
                  \/ "IgnoreVerificationFailures" \in settings.flags
    <3>1. \/ ~Untrusted(settings, peer)
          \/ "IgnoreTrustFailures" \in settings.flags
          \/ peer.leaf \in settings.store
      BY <2>1, <2>2, LoggedAsItIs DEF TrustErrors, MatchesRemembered
    <3>2. \/ ~(Invalid(settings, peer) \/ HostnameMismatch(settings, peer))
          \/ "IgnoreVerificationFailures" \in settings.flags
      BY <2>1, <2>2, LoggedAsItIs DEF VerificationErrors
    <3>. QED  BY <3>1, <3>2, FreeOfErrors
  <2>. QED  BY <1>1, <1>2, <1>5, <2>2 DEF Promised
<1>. QED  BY <1>3, <1>4, <1>5

-----------------------------------------------------------------------------
(* The members of a socket.                                                *)

\* The members of a socket, and what of them the output, the input and the events are.
Fields ==
  {"state", "ssl", "connected", "error", "reported", "shut", "script", "flushing", "result",
   "tx", "rx", "read", "part", "given", "sealed", "active", "failed", "window",
   "windowPending", "wasFull", "ops", "held", "inFlight", "events", "mail", "kernel",
   "ended", "wire", "room", "armed", "taken"}
Output == {"tx", "wire", "room", "armed", "error", "sealed"}
Input == {"rx", "read", "part", "given", "taken"}
Events == {"events", "reported"}

IsSocket(c) == DOMAIN c = Fields

\* d is c but for the members in F.
Same(c, d, F) == DOMAIN d = DOMAIN c /\ \A f \in DOMAIN c \ F : d[f] = c[f]

LEMMA SameOnward ==
  ASSUME NEW c, NEW d, NEW e, NEW F, NEW G, NEW H,
         Same(c, d, F), Same(d, e, G), F \cup G \subseteq H
  PROVE  Same(c, e, H)
BY DEF Same

LEMMA SameIs ==
  ASSUME NEW c, NEW F
  PROVE  Same(c, c, F)
BY DEF Same

LEMMA FlushSame ==
  ASSUME NEW c, IsSocket(c)
  PROVE  Same(c, Flush(c), {"tx", "wire", "room", "armed", "error"})
BY DEF Same, Flush, Leaving, IsSocket, Fields

LEMMA SealedSame ==
  ASSUME NEW c, IsSocket(c), NEW kind, NEW n
  PROVE  Same(c, Sealed(c, kind, n), {"tx", "sealed"})
BY DEF Same, Sealed, IsSocket, Fields

LEMMA SocketStays ==
  ASSUME NEW c, NEW d, NEW F, IsSocket(c), Same(c, d, F)
  PROVE  IsSocket(d)
BY DEF Same, IsSocket

LEMMA WriteSame ==
  ASSUME NEW c, IsSocket(c), NEW kind, NEW n
  PROVE  Same(c, Write(c, kind, n), Output)
<1> DEFINE d == Sealed(c, kind, n)
<1>1. Same(c, d, {"tx", "sealed"})
  BY SealedSame
<1>2. IsSocket(d) /\ Same(c, d, Output)
  BY <1>1, SocketStays DEF Same, Output
<1>3. Same(d, Flush(d), {"tx", "wire", "room", "armed", "error"})
  BY <1>2, FlushSame
<1>4. Same(c, Flush(d), Output)
  BY <1>1, <1>3, SameOnward DEF Output
<1> HIDE DEF d
<1>5. Write(c, kind, n) \in {c, d, Flush(d)}
  BY DEF Write, d
<1> QED  BY <1>2, <1>4, <1>5, SameIs

LEMMA BlameSame ==
  ASSUME NEW c, IsSocket(c), NEW verdict
  PROVE  Same(c, Blame(c, verdict), {"ssl"})
BY DEF Same, Blame, IsSocket, Fields

LEMMA FlushPendingSame ==
  ASSUME NEW c, IsSocket(c)
  PROVE  Same(c, FlushPending(c), Output \cup {"ssl"})
<1> DEFINE d == Flush(c)
<1>1. Same(c, d, {"tx", "wire", "room", "armed", "error"}) /\ IsSocket(d)
  BY FlushSame, SocketStays
<1>2. Same(d, Blame(d, "WriteFailed"), {"ssl"})
  BY <1>1, BlameSame
<1>3. Same(c, Blame(d, "WriteFailed"), Output \cup {"ssl"})
  BY <1>1, <1>2, SameOnward DEF Output
<1>4. Same(c, c, Output \cup {"ssl"})
  BY SameIs
<1> QED  BY <1>3, <1>4 DEF FlushPending

LEMMA AddTCPStateSame ==
  ASSUME NEW c, IsSocket(c), NEW flags
  PROVE  Same(c, AddTCPState(c, flags), {"events"})
BY DEF Same, AddTCPState, IsSocket, Fields

LEMMA CheckBrokenSame ==
  ASSUME NEW c, IsSocket(c)
  PROVE  Same(c, CheckBrokenState(c), Events)
BY DEF Same, CheckBrokenState, AddTCPState, IsSocket, Fields, Events

LEMMA ReceiveCipherSame ==
  ASSUME NEW c, IsSocket(c)
  PROVE  Same(c, ReceiveCipher(c).c, {"rx", "error", "taken"})
<1>1. CASE lost
  BY <1>1 DEF Same, ReceiveCipher, IsSocket, Fields
<1>2. CASE ~lost /\ arrived > c.taken
  BY <1>2 DEF Same, ReceiveCipher, IsSocket, Fields
<1>3. CASE ~lost /\ ~(arrived > c.taken)
  BY <1>3 DEF Same, ReceiveCipher, IsSocket, Fields
<1> QED  BY <1>1, <1>2, <1>3

LEMMA FillSame ==
  ASSUME NEW c, IsSocket(c)
  PROVE  Same(c, Fill(c).c, {"rx", "error", "taken"})
<1>1. Fill(c).c \in {c, ReceiveCipher(c).c}
  BY DEF Fill
<1> QED  BY <1>1, ReceiveCipherSame, SameIs

LEMMA ReadUnitSame ==
  ASSUME NEW c, IsSocket(c)
  PROVE  Same(c, ReadUnit(c).c, {"rx", "error", "taken"})
<1> DEFINE Read(filled) ==
      IF filled.is = "Data" THEN [filled EXCEPT !.c.rx = ConsumeCipher(@, 1)] ELSE filled
<1>1. ASSUME NEW filled, IsSocket(filled.c), DOMAIN filled = {"c", "is"},
             Same(c, filled.c, {"rx", "error", "taken"})
      PROVE  Same(c, Read(filled).c, {"rx", "error", "taken"})
  BY <1>1 DEF Same, IsSocket, Fields
<1>2. DOMAIN Fill(c) = {"c", "is"}
  BY DEF Fill, ReceiveCipher
<1>3. IsSocket(Fill(c).c) /\ Same(c, Fill(c).c, {"rx", "error", "taken"})
  BY FillSame, SocketStays
<1>4. Same(c, Read(Fill(c)).c, {"rx", "error", "taken"})
  BY <1>1, <1>2, <1>3
<1> DEFINE here == [c |-> c, is |-> "Data"]
<1>5. Same(c, Read(here).c, {"rx", "error", "taken"})
  <2>1. IsSocket(here.c) /\ DOMAIN here = {"c", "is"} /\ here.c = c
    OBVIOUS
  <2>2. Same(c, here.c, {"rx", "error", "taken"})
    BY <2>1, SameIs
  <2> QED  BY <1>1, <2>1, <2>2
<1>6. Same(c, [c |-> c, is |-> "Failed"].c, {"rx", "error", "taken"})
  BY SameIs
<1>7. ReadUnit(c) \in {[c |-> c, is |-> "Failed"], Read(Fill(c)), Read(here)}
  BY DEF ReadUnit
<1> QED  BY <1>4, <1>5, <1>6, <1>7

LEMMA OpenSame ==
  ASSUME NEW c, IsSocket(c), NEW room
  PROVE  Same(c, Open(c, room).c, Output \cup {"rx", "read"})
<1> DEFINE o == Opened(c, room)
           d == [c EXCEPT !.rx = ConsumeCipher(@, o.units), !.read = @ + o.records]
<1>1. Same(c, d, {"rx", "read"})
  BY DEF Same, IsSocket, Fields
<1>2. IsSocket(d)
  BY <1>1, SocketStays
<1>3. Same(d, Write(d, "ctl", o.replies), Output)
  BY <1>2, WriteSame
<1>4. Same(c, Write(d, "ctl", o.replies), Output \cup {"rx", "read"})
  BY <1>1, <1>3, SameOnward
<1>5. Same(c, d, Output \cup {"rx", "read"})
  BY <1>1 DEF Same
<1>6. Open(c, room).c = IF o.replies = 0 THEN d ELSE Write(d, "ctl", o.replies)
  BY DEF Open
<1> QED  BY <1>4, <1>5, <1>6

LEMMA EndsBehindSame ==
  ASSUME NEW c, IsSocket(c), NEW verdict
  PROVE  Same(c, EndsBehindHeld(c, verdict), {"rx", "ssl"})
BY DEF Same, IsSocket, Fields, EndsBehindHeld, Terminal

LEMMA TerminalSame ==
  ASSUME NEW c, IsSocket(c), NEW verdict
  PROVE  Same(c, Terminal(c, verdict), {"rx", "ssl"})
BY DEF Same, IsSocket, Fields, Terminal

LEMMA TakeHeldSame ==
  ASSUME NEW c, IsSocket(c), NEW room
  PROVE  Same(c, TakeHeld(c, room), {"given", "rx", "ssl"})
<1> DEFINE took == [c EXCEPT !.given = @ \o HeldFor(c.rx, room), !.rx = HeldTaken(@, room)]
           ended == [took EXCEPT !.ssl = took.rx.afterHeld, !.rx.afterHeld = "Nothing"]
<1>1. Same(c, took, {"given", "rx", "ssl"})
  BY DEF Same, IsSocket, Fields
<1>2. IsSocket(took)
  BY <1>1, SocketStays
<1>3. Same(took, ended, {"given", "rx", "ssl"})
  <2> HIDE DEF took
  <2> QED  BY <1>2 DEF Same, IsSocket, Fields
<1>4. Same(c, ended, {"given", "rx", "ssl"})
  BY <1>1, <1>3, SameOnward
<1>5. TakeHeld(c, room) \in {took, ended}
  BY DEF TakeHeld
<1> QED  BY <1>1, <1>4, <1>5

LEMMA ConcludedSame ==
  ASSUME NEW c, IsSocket(c), NEW opened, NEW produced
  PROVE  Same(c, Concluded(opened, c, produced).c, {"rx", "ssl"})
<1>1. Concluded(opened, c, produced).c
        \in {c, Terminal(c, "ReadFailed"), EndsBehindHeld(c, "ReadFailed"), EndsBehindHeld(c, "Shutdown")}
  BY DEF Concluded
<1>2. Same(c, c, {"rx", "ssl"})
  BY SameIs
<1> QED  BY <1>1, <1>2, TerminalSame, EndsBehindSame

\* What an open may change.
Opening == Output \cup {"rx", "read", "given", "ssl"}

LEMMA OpenHoldSame ==
  ASSUME NEW c, IsSocket(c), NEW room
  PROVE  Same(c, OpenHold(c, room).c, Opening)
<1> DEFINE p == Open(c, HoldSize)
           held == [p.c EXCEPT !.rx = HoldPlain(@, p.o.plain)]
<1>1. Same(c, p.c, Output \cup {"rx", "read"})
  BY OpenSame
<1>2. IsSocket(p.c)
  BY <1>1, SocketStays
<1>3. Same(p.c, held, {"rx"}) /\ IsSocket(held)
  <2> HIDE DEF p
  <2> QED  BY <1>2 DEF Same, IsSocket, Fields
<1>4. Same(held, TakeHeld(held, room), {"given", "rx", "ssl"})
  BY <1>3, TakeHeldSame
<1> HIDE DEF p, held
<1>5. Same(p.c, TakeHeld(held, room), {"given", "rx", "ssl"})
  BY <1>3, <1>4, SameOnward
<1>6. Same(c, TakeHeld(held, room), Opening)
  BY <1>1, <1>5, SameOnward DEF Opening
<1>7. Same(c, p.c, Opening)
  BY <1>1 DEF Same, Opening
<1>8. OpenHold(c, room).c \in {p.c, TakeHeld(held, room)}
  BY DEF OpenHold, p, held
<1> QED  BY <1>6, <1>7, <1>8

\* What a transfer may change.
Transfer == Output \cup Input \cup {"ssl"}

LEMMA OpenTurnSame ==
  ASSUME NEW t, IsSocket(t.c), NEW room
  PROVE  Same(t.c, OpenTurn(t, room).c, Transfer)
<1> DEFINE direct == Open(t.c, room)
           hold == OpenHold(t.c, room)
           fill == Fill(t.c)
           gave == [direct.c EXCEPT !.given = @ \o direct.o.plain]
<1>1. Same(t.c, direct.c, Output \cup {"rx", "read"}) /\ IsSocket(direct.c)
  BY OpenSame, SocketStays
<1>2. Same(t.c, hold.c, Opening) /\ IsSocket(hold.c)
  BY OpenHoldSame, SocketStays
<1>3. Same(t.c, fill.c, {"rx", "error", "taken"}) /\ IsSocket(fill.c)
  BY FillSame, SocketStays
<1>4. Same(t.c, fill.c, Transfer)
  BY <1>3 DEF Same, Transfer, Output, Input
<1>5. Same(t.c, Blame(fill.c, "ReadFailed"), Transfer)
  BY <1>3, <1>4, BlameSame, SameOnward DEF Transfer
<1>6. Same(direct.c, gave, {"given"}) /\ IsSocket(gave)
  <2> HIDE DEF direct
  <2> QED  BY <1>1 DEF Same, IsSocket, Fields
<1>7. ASSUME NEW o, NEW p PROVE Same(t.c, Concluded(o, gave, p).c, Transfer)
  <2>1. Same(gave, Concluded(o, gave, p).c, {"rx", "ssl"})
    BY <1>6, ConcludedSame
  <2>2. Same(direct.c, Concluded(o, gave, p).c, {"rx", "ssl", "given"})
    BY <1>6, <2>1, SameOnward
  <2> QED  BY <1>1, <2>2, SameOnward DEF Transfer, Input
<1>8. ASSUME NEW o, NEW p PROVE Same(t.c, Concluded(o, hold.c, p).c, Transfer)
  <2>1. Same(hold.c, Concluded(o, hold.c, p).c, {"rx", "ssl"})
    BY <1>2, ConcludedSame
  <2> QED  BY <1>2, <2>1, SameOnward DEF Transfer, Input, Opening
<1>9. OpenTurn(t, room).c \in
        {Concluded(direct.o, gave, direct.o.plain # <<>>).c,
         Concluded(hold.o, hold.c, hold.o.plain # <<>>).c,
         fill.c, Blame(fill.c, "ReadFailed")}
  BY DEF OpenTurn
<1> HIDE DEF direct, hold, fill, gave
<1> QED  BY <1>4, <1>5, <1>7, <1>8, <1>9

LEMMA SendRecordSame ==
  ASSUME NEW c, IsSocket(c)
  PROVE  Same(c, SendRecord(c).c, Output \cup {"ssl"})
<1> DEFINE d == Sealed(c, "data", 1)
<1>1. Same(c, d, {"tx", "sealed"}) /\ IsSocket(d)
  BY SealedSame, SocketStays
<1>2. Same(d, Flush(d), {"tx", "wire", "room", "armed", "error"})
  BY <1>1, FlushSame
<1>3. Same(c, Flush(d), Output \cup {"ssl"})
  BY <1>1, <1>2, SameOnward DEF Output
<1>4. Same(c, d, Output \cup {"ssl"})
  BY <1>1 DEF Same, Output
<1>5. Same(c, Blame(c, "WriteFailed"), Output \cup {"ssl"})
  BY BlameSame DEF Same
<1>6. SendRecord(c).c \in {Blame(c, "WriteFailed"), d, Flush(d)}
  BY DEF SendRecord
<1> QED  BY <1>3, <1>4, <1>5, <1>6

LEMMA OpenReadSame ==
  ASSUME NEW t, IsSocket(t.c), DOMAIN t = {"c", "is", "network"}, NEW kind
  PROVE  Same(t.c, OpenRead(t, kind).c, Transfer)
<1> DEFINE next == [t.c EXCEPT !.part = 0, !.read = @ + 1]
           plain == Interval(PlainBefore(t.c.read), RecordPlain)
           held == [next EXCEPT !.rx = HoldPlain(@, plain)]
<1>1. Same(t.c, next, {"part", "read"}) /\ IsSocket(next)
  BY DEF Same, IsSocket, Fields
<1>2. Same(next, held, {"rx"})
  <2> HIDE DEF next, plain
  <2> QED  BY <1>1 DEF Same, IsSocket, Fields
<1> HIDE DEF next, held, plain
<1>3. Same(t.c, held, Transfer)
  BY <1>1, <1>2, SameOnward DEF Transfer, Input
<1>4. Same(t.c, Write(next, "ctl", 1), Transfer)
  BY <1>1, WriteSame, SameOnward DEF Transfer, Input
<1>5. Same(t.c, Terminal(next, "Shutdown"), Transfer)
  BY <1>1, TerminalSame, SameOnward DEF Transfer, Input
<1>6. Same(t.c, Terminal(t.c, "ReadFailed"), Transfer)
  BY TerminalSame DEF Same, Transfer, Input
<1>7. OpenRead(t, kind).c \in
        {held, Write(next, "ctl", 1), Terminal(next, "Shutdown"), Terminal(t.c, "ReadFailed")}
  BY DEF OpenRead, next, held, plain
<1> QED  BY <1>3, <1>4, <1>5, <1>6, <1>7

\* A turn of a read.
IsTurn(t) == IsSocket(t.c) /\ DOMAIN t = {"c", "is", "network"}

LEMMA ReadTurnSame ==
  ASSUME NEW t, IsTurn(t), NEW room
  PROVE  Same(t.c, ReadTurn(t, room).c, Transfer) /\ IsTurn(ReadTurn(t, room))
<1> DEFINE unit == ReadUnit(t.c)
           more == [unit.c EXCEPT !.part = @ + 1]
           kind == stream[t.c.read + 1]
<1>1. Same(t.c, unit.c, {"rx", "error", "taken"}) /\ IsSocket(unit.c)
  BY ReadUnitSame, SocketStays DEF IsTurn
<1>2. Same(unit.c, more, {"part"})
  <2> HIDE DEF unit
  <2> QED  BY <1>1 DEF Same, IsSocket, Fields
<1>3. Same(t.c, more, Transfer)
  BY <1>1, <1>2, SameOnward DEF Transfer, Input, Output
<1>4. Same(t.c, unit.c, Transfer)
  BY <1>1 DEF Same, Transfer, Input, Output
<1>5. Same(t.c, Blame(unit.c, "ReadFailed"), Transfer)
  BY <1>1, <1>4, BlameSame, SameOnward DEF Transfer
<1>6. Same(t.c, TakeHeld(t.c, room), Transfer)
  BY TakeHeldSame DEF Same, IsTurn, Transfer, Input
<1>7. Same(t.c, OpenRead(t, kind).c, Transfer)
  BY OpenReadSame DEF IsTurn
<1>8. ReadTurn(t, room).c \in
        {TakeHeld(t.c, room), OpenRead(t, kind).c, more, unit.c, Blame(unit.c, "ReadFailed")}
  BY DEF ReadTurn, IsTurn
<1>9. DOMAIN ReadTurn(t, room) = {"c", "is", "network"}
  BY DEF ReadTurn, OpenRead, IsTurn
<1> HIDE DEF unit, more, kind
<1>10. Same(t.c, ReadTurn(t, room).c, Transfer)
  BY <1>3, <1>4, <1>5, <1>6, <1>7, <1>8
<1> QED  BY <1>9, <1>10, SocketStays DEF IsTurn

\* A set of naturals that holds 0 and each successor holds every natural.
LEMMA Induct ==
  ASSUME NEW S \in SUBSET Nat, 0 \in S, \A n \in S : n + 1 \in S
  PROVE  S = Nat
<1> SUFFICES ASSUME Nat \ S # {} PROVE FALSE
  OBVIOUS
<1> DEFINE T == Nat \ S
<1>1. IsWellFoundedOn(OpToRel(<, Nat), Nat)
  BY NatLessThanWellFounded
<1>2. PICK x \in T : \A y \in T : ~(<<y, x>> \in OpToRel(<, Nat))
  <2> HIDE DEF OpToRel
  <2> QED  BY <1>1, WFMin
<1>3. x # 0 /\ x - 1 \in Nat /\ x - 1 < x
  OBVIOUS
<1>4. x - 1 \in S
  BY <1>2, <1>3 DEF OpToRel
<1> QED  BY <1>4

-----------------------------------------------------------------------------
(* The peer's stream.                                                      *)

IsEnds(n, e) ==
  /\ e \in [0 .. n -> Nat]
  /\ e[0] = 0
  /\ \A i \in 1 .. n : e[i] = e[i - 1] + Size(stream[i])

LEMMA SizeIs ==
  ASSUME NEW kind
  PROVE  Size(kind) \in Nat /\ Size(kind) >= 1
BY DEF Size, RecordUnits

LEMMA EndsExist ==
  ASSUME NEW n \in Nat
  PROVE  \E e : IsEnds(n, e)
<1> DEFINE S == {m \in Nat : \E e : IsEnds(m, e)}
<1>1. 0 \in S
  <2>1. IsEnds(0, [i \in 0 .. 0 |-> 0])
    BY DEF IsEnds
  <2> QED  BY <2>1
<1>2. ASSUME NEW m \in S PROVE m + 1 \in S
  <2>1. PICK t : IsEnds(m, t)
    OBVIOUS
  <2>2. Size(stream[m + 1]) \in Nat
    BY SizeIs
  <2> DEFINE u == [i \in 0 .. m + 1 |-> IF i <= m THEN t[i] ELSE t[m] + Size(stream[m + 1])]
  <2>3. t[m] \in Nat /\ \A i \in 0 .. m : t[i] \in Nat
    BY <2>1 DEF IsEnds
  <2>4. u \in [0 .. m + 1 -> Nat]
    BY <2>2, <2>3
  <2>5. u[0] = 0
    BY <2>1 DEF IsEnds
  <2>6. ASSUME NEW i \in 1 .. m + 1 PROVE u[i] = u[i - 1] + Size(stream[i])
    <3>1. CASE i = m + 1
      BY <3>1
    <3>2. CASE i \in 1 .. m
      BY <2>1, <3>2 DEF IsEnds
    <3> QED  BY <3>1, <3>2
  <2> HIDE DEF u
  <2>7. IsEnds(m + 1, u)
    BY <2>4, <2>5, <2>6 DEF IsEnds
  <2> QED  BY <2>7
<1> HIDE DEF S
<1>3. S = Nat
  BY <1>1, <1>2, Induct DEF S
<1> QED  BY <1>3 DEF S

\* The ends of the records, one after the other.
LEMMA EndsAre ==
  ASSUME stream \in Seq(RecordKinds)
  PROVE  /\ \A k \in 0 .. Len(stream) : Ends(k) \in Nat
         /\ Ends(0) = 0
         /\ \A k \in 1 .. Len(stream) : Ends(k) = Ends(k - 1) + Size(stream[k])
<1> DEFINE n == Len(stream)
           F(s1) == [i \in 0 .. n |-> IF i = 0 THEN 0 ELSE s1[i - 1] + Size(stream[i])]
           u    == CHOOSE s1 : s1 = F(s1)
<1>0. n \in Nat
  OBVIOUS
<1> HIDE DEF n
<1>1. PICK t : IsEnds(n, t)
  BY <1>0, EndsExist
<1>2. t = F(t)
  <2>1. t \in [0 .. n -> Nat] /\ DOMAIN t = 0 .. n
    BY <1>1 DEF IsEnds
  <2>2. \A i \in 0 .. n : t[i] = IF i = 0 THEN 0 ELSE t[i - 1] + Size(stream[i])
    BY <1>0, <1>1 DEF IsEnds
  <2> QED  BY <2>1, <2>2
<1>3. u = F(u)
  <2> HIDE DEF F
  <2> QED  BY <1>2
<1>4. \A k : Ends(k) = u[k]
  BY DEF Ends, n
<1> HIDE DEF u
<1> DEFINE S == {m \in Nat : m <= n => u[m] \in Nat}
<1>5. 0 \in S
  BY <1>0, <1>3
<1>6. ASSUME NEW m \in S PROVE m + 1 \in S
  <2> SUFFICES ASSUME m + 1 <= n PROVE u[m + 1] \in Nat
    OBVIOUS
  <2>1. m + 1 \in 0 .. n /\ m + 1 # 0 /\ m + 1 - 1 = m
    BY <1>0
  <2>2. u[m + 1] = u[m] + Size(stream[m + 1])
    BY <1>0, <1>3, <2>1
  <2>3. u[m] \in Nat
    BY <1>0, <1>6
  <2> QED  BY <2>2, <2>3, SizeIs
<1> HIDE DEF S
<1>7. S = Nat
  BY <1>5, <1>6, Induct DEF S
<1>8. \A k \in 0 .. n : u[k] \in Nat
  BY <1>0, <1>7 DEF S
<1>9. u[0] = 0 /\ \A k \in 1 .. n : u[k] = u[k - 1] + Size(stream[k])
  BY <1>0, <1>3
<1> QED  BY <1>4, <1>8, <1>9 DEF n

LEMMA TotalIs ==
  ASSUME stream \in Seq(RecordKinds)
  PROVE  Total \in Nat /\ 2 * Total + 2 \in Nat
BY EndsAre DEF Total

-----------------------------------------------------------------------------
(* The loops of the transfers.                                             *)

OpenOnward(room, t) == IF t.is = "Going" THEN OpenTurn(t, room) ELSE t
IsOpenRun(c, room, n, r) ==
  /\ r[0] = Going(c)
  /\ \A k \in 1 .. n : r[k] = OpenOnward(room, r[k - 1])

IsOpenLoop(c, room, n, r) ==
  r = [k \in 0 .. n |-> IF k = 0 THEN Going(c) ELSE OpenOnward(room, r[k - 1])]

LEMMA OpenLoopExists ==
  ASSUME NEW c, NEW room, NEW n \in Nat
  PROVE  \E r : IsOpenLoop(c, room, n, r)
<1> DEFINE S == {m \in Nat : \E r : IsOpenLoop(c, room, m, r)}
<1>1. 0 \in S
  <2>1. IsOpenLoop(c, room, 0, [k \in 0 .. 0 |-> Going(c)])
    BY DEF IsOpenLoop
  <2> QED  BY <2>1
<1>2. ASSUME NEW m \in S PROVE m + 1 \in S
  <2>1. PICK t : IsOpenLoop(c, room, m, t)
    OBVIOUS
  <2> DEFINE u == [k \in 0 .. m + 1 |-> IF k <= m THEN t[k] ELSE OpenOnward(room, t[m])]
  <2>2. \A k \in 0 .. m : u[k] = t[k]
    OBVIOUS
  <2>3. u[m + 1] = OpenOnward(room, u[m])
    OBVIOUS
  <2>4. \A k \in 0 .. m : u[k] = IF k = 0 THEN Going(c) ELSE OpenOnward(room, u[k - 1])
    BY <2>1, <2>2 DEF IsOpenLoop
  <2>5. DOMAIN u = 0 .. m + 1 /\ u = [k \in DOMAIN u |-> u[k]]
    OBVIOUS
  <2> HIDE DEF u
  <2>6. \A k \in 0 .. m + 1 : u[k] = IF k = 0 THEN Going(c) ELSE OpenOnward(room, u[k - 1])
    BY <2>3, <2>4
  <2>7. IsOpenLoop(c, room, m + 1, u)
    BY <2>5, <2>6 DEF IsOpenLoop
  <2> QED  BY <2>7
<1> HIDE DEF S
<1>3. S = Nat
  BY <1>1, <1>2, Induct DEF S
<1> QED  BY <1>3 DEF S

LEMMA OpenRuns ==
  ASSUME stream \in Seq(RecordKinds), NEW c, NEW room, c.rx.held = <<>>
  PROVE  \E r : IsOpenRun(c, room, 2 * Total + 2, r) /\ TryOpenInto(c, room) = r[2 * Total + 2]
<1>0. PICK n \in Nat : n = 2 * Total + 2
  BY TotalIs
<1> DEFINE u == CHOOSE r : IsOpenLoop(c, room, n, r)
<1>1. IsOpenLoop(c, room, n, u)
  BY OpenLoopExists
<1>2. TryOpenInto(c, room) = u[n]
  BY <1>0 DEF TryOpenInto, OpenOnward, IsOpenLoop
<1> HIDE DEF u
<1>3. IsOpenRun(c, room, n, u)
  BY <1>1 DEF IsOpenRun, IsOpenLoop
<1> QED  BY <1>0, <1>2, <1>3

LEMMA TryOpenSame ==
  ASSUME stream \in Seq(RecordKinds), NEW c, IsSocket(c), NEW room
  PROVE  Same(c, TryOpenInto(c, room).c, Transfer) /\ IsTurn(TryOpenInto(c, room))
<1>1. CASE c.rx.held # <<>>
  <2>1. TryOpenInto(c, room).c = TakeHeld(c, room)
    BY <1>1 DEF TryOpenInto, Going
  <2>2. Same(c, TryOpenInto(c, room).c, Transfer)
    BY <2>1, TakeHeldSame DEF Same, Transfer, Input
  <2>3. DOMAIN TryOpenInto(c, room) = {"c", "is", "network"}
    BY <1>1 DEF TryOpenInto, Going
  <2> QED  BY <2>2, <2>3, SocketStays DEF IsTurn
<1>2. CASE c.rx.held = <<>>
  <2>1. PICK r : IsOpenRun(c, room, 2 * Total + 2, r) /\ TryOpenInto(c, room) = r[2 * Total + 2]
    BY <1>2, OpenRuns
  <2>2. PICK n \in Nat : n = 2 * Total + 2
    BY TotalIs
  <2> DEFINE S == {k \in Nat : k <= n => Same(c, r[k].c, Transfer) /\ IsTurn(r[k])}
  <2>3. 0 \in S
    <3>1. r[0].c = c
      BY <2>1 DEF IsOpenRun, Going
    <3>2. IsTurn(r[0])
      BY <2>1 DEF IsOpenRun, Going, IsTurn
    <3> QED  BY <3>1, <3>2, SameIs
  <2>4. ASSUME NEW m \in S PROVE m + 1 \in S
    <3> SUFFICES ASSUME m + 1 <= n PROVE Same(c, r[m + 1].c, Transfer) /\ IsTurn(r[m + 1])
      OBVIOUS
    <3>1. m + 1 \in 1 .. n /\ m + 1 - 1 = m
      OBVIOUS
    <3>2. r[m + 1] = OpenOnward(room, r[m])
      BY <2>1, <2>2, <3>1 DEF IsOpenRun
    <3>3. Same(c, r[m].c, Transfer) /\ IsTurn(r[m])
      OBVIOUS
    <3>4. Same(r[m].c, OpenTurn(r[m], room).c, Transfer) /\ IsTurn(OpenTurn(r[m], room))
      <4>1. Same(r[m].c, OpenTurn(r[m], room).c, Transfer)
        BY <3>3, OpenTurnSame DEF IsTurn
      <4>2. DOMAIN OpenTurn(r[m], room) = {"c", "is", "network"}
        BY DEF OpenTurn
      <4> QED  BY <3>3, <4>1, <4>2, SocketStays DEF IsTurn
    <3>5. Same(c, OpenTurn(r[m], room).c, Transfer)
      BY <3>3, <3>4, SameOnward
    <3> QED  BY <3>2, <3>3, <3>4, <3>5 DEF OpenOnward
  <2> HIDE DEF S
  <2>5. S = Nat
    BY <2>3, <2>4, Induct DEF S
  <2> QED  BY <2>1, <2>2, <2>5 DEF S
<1> QED  BY <1>1, <1>2

ReadOnward(room, t) == IF t.is = "Going" THEN ReadTurn(t, room) ELSE t
IsReadRun(c, room, n, r) ==
  /\ r[0] = Going(Flush(c))
  /\ \A k \in 1 .. n : r[k] = ReadOnward(room, r[k - 1])
IsReadLoop(c, room, n, r) ==
  r = [k \in 0 .. n |-> IF k = 0 THEN Going(Flush(c)) ELSE ReadOnward(room, r[k - 1])]

LEMMA ReadLoopExists ==
  ASSUME NEW c, NEW room, NEW n \in Nat
  PROVE  \E r : IsReadLoop(c, room, n, r)
<1> DEFINE S == {m \in Nat : \E r : IsReadLoop(c, room, m, r)}
<1>1. 0 \in S
  <2>1. IsReadLoop(c, room, 0, [k \in 0 .. 0 |-> Going(Flush(c))])
    BY DEF IsReadLoop
  <2> QED  BY <2>1
<1>2. ASSUME NEW m \in S PROVE m + 1 \in S
  <2>1. PICK t : IsReadLoop(c, room, m, t)
    OBVIOUS
  <2> DEFINE u == [k \in 0 .. m + 1 |-> IF k <= m THEN t[k] ELSE ReadOnward(room, t[m])]
  <2>2. \A k \in 0 .. m : u[k] = t[k]
    OBVIOUS
  <2>3. u[m + 1] = ReadOnward(room, u[m])
    OBVIOUS
  <2>4. \A k \in 0 .. m : u[k] = IF k = 0 THEN Going(Flush(c)) ELSE ReadOnward(room, u[k - 1])
    BY <2>1, <2>2 DEF IsReadLoop
  <2>5. DOMAIN u = 0 .. m + 1 /\ u = [k \in DOMAIN u |-> u[k]]
    OBVIOUS
  <2> HIDE DEF u
  <2>6. \A k \in 0 .. m + 1 :
          u[k] = IF k = 0 THEN Going(Flush(c)) ELSE ReadOnward(room, u[k - 1])
    BY <2>3, <2>4
  <2>7. IsReadLoop(c, room, m + 1, u)
    BY <2>5, <2>6 DEF IsReadLoop
  <2> QED  BY <2>7
<1> HIDE DEF S
<1>3. S = Nat
  BY <1>1, <1>2, Induct DEF S
<1> QED  BY <1>3 DEF S

LEMMA ReadRuns ==
  ASSUME stream \in Seq(RecordKinds), NEW c, NEW room
  PROVE  \E r : /\ IsReadRun(c, room, 2 * Total + 2, r)
                /\ ReceiveThrough(c, room) =
                     [r[2 * Total + 2] EXCEPT
                        !.network = r[2 * Total + 2].c.taken # c.taken
                                      \/ r[2 * Total + 2].c.wire # c.wire]
<1>0. PICK n \in Nat : n = 2 * Total + 2
  BY TotalIs
<1> DEFINE u == CHOOSE r : IsReadLoop(c, room, n, r)
<1>1. IsReadLoop(c, room, n, u)
  BY ReadLoopExists
<1>2. ReceiveThrough(c, room) =
        [u[n] EXCEPT !.network = u[n].c.taken # c.taken \/ u[n].c.wire # c.wire]
  BY <1>0 DEF ReceiveThrough, ReadOnward, IsReadLoop
<1> HIDE DEF u
<1>3. IsReadRun(c, room, n, u)
  BY <1>1 DEF IsReadRun, IsReadLoop
<1> QED  BY <1>0, <1>2, <1>3

LEMMA ReceiveThroughSame ==
  ASSUME stream \in Seq(RecordKinds), NEW c, IsSocket(c), NEW room
  PROVE  Same(c, ReceiveThrough(c, room).c, Transfer) /\ IsTurn(ReceiveThrough(c, room))
<1>1. PICK r : /\ IsReadRun(c, room, 2 * Total + 2, r)
               /\ ReceiveThrough(c, room) =
                    [r[2 * Total + 2] EXCEPT
                       !.network = r[2 * Total + 2].c.taken # c.taken
                                     \/ r[2 * Total + 2].c.wire # c.wire]
  BY ReadRuns
<1>2. PICK n \in Nat : n = 2 * Total + 2
  BY TotalIs
<1> DEFINE S == {k \in Nat : k <= n => Same(c, r[k].c, Transfer) /\ IsTurn(r[k])}
<1>3. 0 \in S
  <2>1. r[0] = Going(Flush(c))
    BY <1>1 DEF IsReadRun
  <2>2. Same(c, Flush(c), Transfer) /\ IsSocket(Flush(c))
    BY FlushSame, SocketStays DEF Same, Transfer, Output
  <2> QED  BY <2>1, <2>2 DEF IsTurn, Going
<1>4. ASSUME NEW m \in S PROVE m + 1 \in S
  <2> SUFFICES ASSUME m + 1 <= n PROVE Same(c, r[m + 1].c, Transfer) /\ IsTurn(r[m + 1])
    OBVIOUS
  <2>1. m + 1 \in 1 .. n /\ m + 1 - 1 = m
    OBVIOUS
  <2>2. r[m + 1] = ReadOnward(room, r[m])
    BY <1>1, <1>2, <2>1 DEF IsReadRun
  <2>3. Same(c, r[m].c, Transfer) /\ IsTurn(r[m])
    OBVIOUS
  <2>4. Same(c, ReadTurn(r[m], room).c, Transfer) /\ IsTurn(ReadTurn(r[m], room))
    BY <2>3, ReadTurnSame, SameOnward
  <2> QED  BY <2>2, <2>3, <2>4 DEF ReadOnward
<1> HIDE DEF S
<1>5. S = Nat
  BY <1>3, <1>4, Induct DEF S
<1>6. Same(c, r[n].c, Transfer) /\ IsTurn(r[n])
  BY <1>5 DEF S
<1>7. ReceiveThrough(c, room).c = r[n].c
  BY <1>1, <1>2, <1>6 DEF IsTurn
<1>8. DOMAIN ReceiveThrough(c, room) = {"c", "is", "network"}
  BY <1>1, <1>2, <1>6 DEF IsTurn
<1> QED  BY <1>6, <1>7, <1>8 DEF IsTurn

-----------------------------------------------------------------------------
(* The handshake.                                                          *)

\* What may be left of the handshake: with its last flight to read, with the
\* certificate to verify, and with that behind it.
Unread ==
  {<<"Read", "Write", "Read", "Verify">>, <<"Write", "Read", "Verify">>, <<"Read", "Verify">>,
   <<"Write", "Read", "Write", "Read", "Verify", "Write">>,
   <<"Read", "Write", "Read", "Verify", "Write">>, <<"Write", "Read", "Verify", "Write">>,
   <<"Read", "Verify", "Write">>}
Unverified == {<<"Verify">>, <<"Verify", "Write">>}
Verifieds == {<<>>, <<"Write">>}

LEMMA ScriptIs ==
  Script \in Unread
BY DEF Script, Unread

LEMMA TailsOfOne ==
  ASSUME NEW a
  PROVE  <<a>> # <<>> /\ Head(<<a>>) = a /\ Tail(<<a>>) = <<>>
OBVIOUS

LEMMA TailsOfTwo ==
  ASSUME NEW a, NEW b
  PROVE  <<a, b>> # <<>> /\ Head(<<a, b>>) = a /\ Tail(<<a, b>>) = <<b>>
OBVIOUS

LEMMA TailsOfThree ==
  ASSUME NEW a, NEW b, NEW d
  PROVE  <<a, b, d>> # <<>> /\ Head(<<a, b, d>>) = a /\ Tail(<<a, b, d>>) = <<b, d>>
OBVIOUS

LEMMA TailsOfFour ==
  ASSUME NEW a, NEW b, NEW d, NEW e
  PROVE  <<a, b, d, e>> # <<>> /\ Head(<<a, b, d, e>>) = a /\ Tail(<<a, b, d, e>>) = <<b, d, e>>
OBVIOUS

LEMMA TailsOfMore ==
  ASSUME NEW a, NEW b, NEW d, NEW e, NEW f, NEW g
  PROVE  /\ <<a, b, d, e, f>> # <<>> /\ Head(<<a, b, d, e, f>>) = a
         /\ Tail(<<a, b, d, e, f>>) = <<b, d, e, f>>
         /\ <<a, b, d, e, f, g>> # <<>> /\ Head(<<a, b, d, e, f, g>>) = a
         /\ Tail(<<a, b, d, e, f, g>>) = <<b, d, e, f, g>>
OBVIOUS

LEMMA ScriptGoes ==
  ASSUME NEW q, q # <<>>
  PROVE  /\ q \in Unread => /\ Head(q) \in {"Read", "Write"}
                            /\ Head(q) = "Write" => Tail(q) \in Unread
                            /\ Head(q) = "Read" => Tail(q) \in Unread \cup Unverified
         /\ q \in Unverified => Head(q) = "Verify" /\ Tail(q) \in Verifieds
         /\ q \in Verifieds => Head(q) = "Write" /\ Tail(q) \in Verifieds
<1>1. ASSUME q \in Unread
      PROVE  /\ Head(q) \in {"Read", "Write"}
             /\ Head(q) = "Write" => Tail(q) \in Unread
             /\ Head(q) = "Read" => Tail(q) \in Unread \cup Unverified
  <2>1. CASE q = <<"Read", "Write", "Read", "Verify">>
    BY <2>1, TailsOfFour DEF Unread, Unverified
  <2>2. CASE q = <<"Write", "Read", "Verify">>
    BY <2>2, TailsOfThree DEF Unread, Unverified
  <2>3. CASE q = <<"Read", "Verify">>
    BY <2>3, TailsOfTwo DEF Unread, Unverified
  <2>4. CASE q = <<"Write", "Read", "Write", "Read", "Verify", "Write">>
    BY <2>4, TailsOfMore DEF Unread, Unverified
  <2>5. CASE q = <<"Read", "Write", "Read", "Verify", "Write">>
    BY <2>5, TailsOfMore DEF Unread, Unverified
  <2>6. CASE q = <<"Write", "Read", "Verify", "Write">>
    BY <2>6, TailsOfFour DEF Unread, Unverified
  <2>7. CASE q = <<"Read", "Verify", "Write">>
    BY <2>7, TailsOfThree DEF Unread, Unverified
  <2> QED  BY <1>1, <2>1, <2>2, <2>3, <2>4, <2>5, <2>6, <2>7 DEF Unread
<1>2. ASSUME q \in Unverified
      PROVE  Head(q) = "Verify" /\ Tail(q) \in Verifieds
  <2>1. CASE q = <<"Verify">>
    BY <2>1, TailsOfOne DEF Verifieds
  <2>2. CASE q = <<"Verify", "Write">>
    BY <2>2, TailsOfTwo DEF Verifieds
  <2> QED  BY <1>2, <2>1, <2>2 DEF Unverified
<1>3. ASSUME q \in Verifieds
      PROVE  Head(q) = "Write" /\ Tail(q) \in Verifieds
  <2>1. q = <<"Write">>
    BY <1>3 DEF Verifieds
  <2> QED  BY <2>1, TailsOfOne DEF Verifieds
<1> QED  BY <1>1, <1>2, <1>3

LEMMA ScriptRuns ==
  ASSUME NEW q \in Unread \cup Unverified
  PROVE  q # <<>>
BY TailsOfOne, TailsOfTwo, TailsOfThree, TailsOfFour, TailsOfMore DEF Unread, Unverified

Settled == Agrees(scenario.settings, scenario.peer, scenario.group)
Checked == ~VerificationFails(scenario.settings, scenario.peer)
Report == Verified(scenario.settings, scenario.peer)

\* What the part of the handshake that is done has established.
Shaken(c) ==
  \/ c.script \in Unread
  \/ c.script \in Unverified /\ Settled
  \/ c.script \in Verifieds /\ Settled /\ Checked /\ c.result = Report

\* What a step of the library may change.
Shaking == Output \cup {"rx", "read", "taken", "script", "flushing", "result"}

LEMMA BioReadSame ==
  ASSUME NEW c, IsSocket(c)
  PROVE  Same(c, BioRead(c).c, {"rx", "error", "taken", "read"})
<1> DEFINE u == ReadUnit(c)
           d == [u.c EXCEPT !.read = @ + 1]
<1>1. Same(c, u.c, {"rx", "error", "taken"}) /\ IsSocket(u.c)
  BY ReadUnitSame, SocketStays
<1>2. Same(u.c, d, {"read"})
  <2> HIDE DEF u
  <2> QED  BY <1>1 DEF Same, IsSocket, Fields
<1>3. Same(c, d, {"rx", "error", "taken", "read"})
  BY <1>1, <1>2, SameOnward
<1>4. Same(c, u.c, {"rx", "error", "taken", "read"})
  BY <1>1 DEF Same
<1>5. BioRead(c).c \in {d, u.c}
  BY DEF BioRead, Going
<1> QED  BY <1>3, <1>4, <1>5

LEMMA BioFlushSame ==
  ASSUME NEW c, IsSocket(c)
  PROVE  Same(c, BioFlush(c).c, Output) /\ IsSocket(BioFlush(c).c)
<1>1. BioFlush(c).c = Flush(c)
  BY DEF BioFlush, Going
<1> QED  BY <1>1, FlushSame, SocketStays DEF Same, Output

LEMMA BioWriteSame ==
  ASSUME NEW c, IsSocket(c)
  PROVE  Same(c, BioWrite(c).c, Output) /\ IsSocket(BioWrite(c).c)
<1>1. BioWrite(c).c = Write(c, "hs", 1)
  BY DEF BioWrite, Going
<1> QED  BY <1>1, WriteSame, SocketStays

LEMMA ContinuedIs ==
  ASSUME NEW c, IsSocket(c)
  PROVE  /\ Same(c, Continued(c).c, {"script", "flushing"})
         /\ Continued(c).c.script = Tail(c.script) /\ Continued(c).c.result = c.result
         /\ Continued(c).is = "Going"
BY DEF Continued, Same, IsSocket, Fields

\* The library behind a flight it has written.
LEMMA FlownIs ==
  ASSUME NEW c, NEW b, IsSocket(c), Same(c, b.c, Output)
  PROVE  /\ Same(c, Flown(b).c, Shaking)
         /\ \/ Flown(b).is = "Failed"
            \/ Flown(b).is = "Going" /\ Flown(b).c.script = Tail(c.script)
            \/ Flown(b).is = "Wanting" /\ Flown(b).c.script = c.script
         /\ Flown(b).c.result = c.result
<1>0. IsSocket(b.c)
  BY SocketStays
<1>1. b.c.script = c.script /\ b.c.result = c.result
  BY DEF Same, IsSocket, Fields, Output
<1>2. CASE b.is = "Failed"
  <2>1. Flown(b) = [c |-> b.c, is |-> "Failed"]
    BY <1>2 DEF Flown, Failed
  <2> QED  BY <1>1, <2>1 DEF Same, Shaking
<1>3. CASE b.is = "Going"
  <2>1. Flown(b) = Continued(b.c)
    BY <1>3 DEF Flown
  <2>2. Same(c, Continued(b.c).c, Shaking)
    BY <1>0, ContinuedIs, SameOnward DEF Shaking
  <2>3. Continued(b.c).c.result = b.c.result
    BY <1>0, ContinuedIs
  <2>4. Continued(b.c).c.script = Tail(b.c.script) /\ Continued(b.c).is = "Going"
    BY <1>0, ContinuedIs
  <2> QED  BY <1>1, <2>1, <2>2, <2>3, <2>4
<1>4. CASE b.is \notin {"Failed", "Going"}
  <2> DEFINE d == [b.c EXCEPT !.flushing = TRUE]
  <2>1. Flown(b) = [c |-> d, is |-> "Wanting"]
    BY <1>4 DEF Flown
  <2>2. Same(b.c, d, {"flushing"}) /\ d.script = b.c.script /\ d.result = b.c.result
    BY <1>0 DEF Same, IsSocket, Fields
  <2>3. Same(c, d, Shaking)
    BY <2>2, SameOnward DEF Shaking
  <2> HIDE DEF d
  <2>4. Flown(b).c = d /\ Flown(b).is = "Wanting"
    BY <2>1
  <2> QED  BY <1>1, <2>2, <2>3, <2>4
<1> QED  BY <1>2, <1>3, <1>4

LEMMA ShakenOn ==
  ASSUME NEW c, NEW d, Shaken(c), c.script # <<>>, Head(c.script) = "Write",
         d.script \in {c.script, Tail(c.script)}, d.result = c.result
  PROVE  Shaken(d)
<1>1. CASE c.script \in Unread
  BY <1>1, ScriptGoes DEF Shaken
<1>2. CASE c.script \in Unverified
  BY <1>2, ScriptGoes
<1>3. CASE c.script \in Verifieds /\ Settled /\ Checked /\ c.result = Report
  BY <1>3, ScriptGoes DEF Shaken
<1> QED  BY <1>1, <1>2, <1>3 DEF Shaken

LEMMA WriteStep ==
  ASSUME NEW c, IsSocket(c), Shaken(c), c.script # <<>>, Head(c.script) = "Write"
  PROVE  LET h == HandshakeStep(c) IN
         /\ Same(c, h.c, Shaking)
         /\ h.is \in {"Failed", "Going", "Wanting"}
         /\ h.is # "Failed" => Shaken(h.c)
<1> DEFINE w == BioWrite(c)
<1>1. Same(c, w.c, Output) /\ IsSocket(w.c)
  BY BioWriteSame
<1>2. Same(c, BioFlush(w.c).c, Output)
  BY <1>1, BioFlushSame, SameOnward
<1>3. Same(c, BioFlush(c).c, Output)
  BY BioFlushSame
<1> HIDE DEF w
<1>4. ASSUME NEW b, Same(c, b.c, Output)
      PROVE  /\ Same(c, Flown(b).c, Shaking)
             /\ Flown(b).is \in {"Failed", "Going", "Wanting"}
             /\ Flown(b).is # "Failed" => Shaken(Flown(b).c)
  BY <1>4, FlownIs, ShakenOn
<1>5. Same(c, Failed(w.c).c, Shaking) /\ Failed(w.c).is = "Failed"
  BY <1>1 DEF Same, Failed, Shaking
<1>6. HandshakeStep(c) \in {Flown(BioFlush(c)), Flown(BioFlush(w.c)), Failed(w.c)}
  BY DEF HandshakeStep, w
<1> QED  BY <1>2, <1>3, <1>4, <1>5, <1>6

LEMMA ReadStep ==
  ASSUME NEW c, IsSocket(c), Shaken(c), c.script # <<>>, Head(c.script) = "Read"
  PROVE  LET h == HandshakeStep(c) IN
         /\ Same(c, h.c, Shaking)
         /\ h.is \in {"Failed", "Going", "Wanting"}
         /\ h.is # "Failed" => Shaken(h.c)
<1> DEFINE r == BioRead(c)
           w == Write(r.c, "hs", 1)
<1>1. Same(c, r.c, {"rx", "error", "taken", "read"}) /\ IsSocket(r.c)
  BY BioReadSame, SocketStays
<1>2. r.c.script = c.script /\ r.c.result = c.result
  BY <1>1 DEF Same, IsSocket, Fields
<1>3. Same(c, r.c, Shaking)
  BY <1>1 DEF Same, Shaking, Output
<1>4. Same(c, w, Shaking)
  BY <1>1, <1>3, WriteSame, SameOnward DEF Shaking
<1>5. Same(c, Continued(r.c).c, Shaking)
  BY <1>1, <1>3, ContinuedIs, SameOnward DEF Shaking
<1> HIDE DEF r, w
<1>6. c.script \in Unread
  BY ScriptGoes DEF Shaken
<1>7. Settled => Shaken(Continued(r.c).c)
  <2>1. Tail(c.script) \in Unread \cup Unverified
    BY <1>6, ScriptGoes
  <2>2. Continued(r.c).c.script = Tail(c.script)
    BY <1>1, <1>2, ContinuedIs
  <2> QED  BY <2>1, <2>2 DEF Shaken
<1>8. Shaken(r.c)
  BY <1>2, <1>6 DEF Shaken
<1>9. \/ HandshakeStep(c) = Continued(r.c) /\ Settled
      \/ HandshakeStep(c) \in {Failed(w), Failed(r.c), [c |-> r.c, is |-> "Wanting"]}
  BY DEF HandshakeStep, r, w, Settled
<1>10. Continued(r.c).is = "Going"
  BY <1>1, ContinuedIs
<1> QED  BY <1>3, <1>4, <1>5, <1>7, <1>8, <1>9, <1>10 DEF Failed

LEMMA VerifyStep ==
  ASSUME NEW c, IsSocket(c), Shaken(c), c.script # <<>>, Head(c.script) \notin {"Read", "Write"}
  PROVE  LET h == HandshakeStep(c) IN
         /\ Same(c, h.c, Shaking)
         /\ h.is \in {"Failed", "Going", "Wanting"}
         /\ h.is # "Failed" => Shaken(h.c)
<1> DEFINE t == [c EXCEPT !.result = Report]
           w == Write(t, "hs", 1)
<1>1. Same(c, t, {"result"}) /\ IsSocket(t) /\ t.result = Report /\ t.script = c.script
  BY DEF Same, IsSocket, Fields
<1> HIDE DEF t
<1>2. Same(c, w, Shaking)
  BY <1>1, WriteSame, SameOnward DEF Shaking
<1>3. Same(c, Continued(t).c, Shaking)
  BY <1>1, ContinuedIs, SameOnward DEF Shaking
<1> HIDE DEF w
<1>4. c.script \in Unverified /\ Settled
  BY ScriptGoes DEF Shaken
<1>5. Tail(c.script) \in Verifieds
  BY <1>4, ScriptGoes
<1>6. Checked => Shaken(Continued(t).c) /\ Continued(t).is = "Going"
  <2>1. Continued(t).c.script = Tail(c.script) /\ Continued(t).is = "Going"
    BY <1>1, ContinuedIs
  <2>2. Continued(t).c.result = Report
    BY <1>1, ContinuedIs DEF Same, IsSocket, Fields
  <2> QED  BY <1>4, <1>5, <2>1, <2>2 DEF Shaken
<1>7. HandshakeStep(c) = IF Checked THEN Continued(t) ELSE Failed(w)
  BY DEF HandshakeStep, t, w, Checked, Report
<1> QED  BY <1>2, <1>3, <1>6, <1>7 DEF Failed

LEMMA HandshakeStepIs ==
  ASSUME NEW c, IsSocket(c), Shaken(c)
  PROVE  LET h == HandshakeStep(c) IN
         /\ Same(c, h.c, Shaking)
         /\ h.is = "Established" => h.c = c /\ c.script = <<>>
         /\ h.is \in {"Going", "Wanting"} => Shaken(h.c)
<1>1. CASE c.script = <<>>
  <2>1. HandshakeStep(c) = [c |-> c, is |-> "Established"]
    BY <1>1 DEF HandshakeStep
  <2> QED  BY <1>1, <2>1, SameIs
<1>2. CASE c.script # <<>> /\ Head(c.script) = "Write"
  BY <1>2, WriteStep
<1>3. CASE c.script # <<>> /\ Head(c.script) = "Read"
  BY <1>3, ReadStep
<1>4. CASE c.script # <<>> /\ Head(c.script) \notin {"Read", "Write"}
  BY <1>4, VerifyStep
<1> QED  BY <1>1, <1>2, <1>3, <1>4

\* The scenario is one of those assumed, and its context could be made.
Configured == scenario \in Scenarios /\ ~ContextFails(scenario.settings)

Kept == Promised(scenario.settings, scenario.peer, scenario.group, scenario.decided)

LEMMA ScenarioIs ==
  ASSUME scenario \in Scenarios
  PROVE  /\ scenario.settings \in Settings /\ scenario.peer \in Peers
         /\ scenario.group \in Strengths /\ scenario.decided \in SUBSET Peers
         /\ stream \in Seq(RecordKinds)
         /\ scenario.way \in {"Connect", "AsyncConnect", "Accept", "Adopt"}
         /\ scenario.direct \in BOOLEAN /\ scenario.completion \in BOOLEAN
         /\ scenario.room \in Nat /\ scenario.sends \in Nat
         /\ scenario.depth \in Nat /\ scenario.window \in Nat
<1>1. scenario \in
       [way : {"Connect", "AsyncConnect", "Accept", "Adopt"}, settings : Settings, peer : Peers,
        group : Strengths, decided : SUBSET Peers, stream : Seq(RecordKinds), room : Nat,
        sends : Nat, direct : BOOLEAN, completion : BOOLEAN, depth : Nat, window : Nat,
        may : SUBSET Choices]
  BY TlsAssumption
<1> QED  BY <1>1 DEF stream

-----------------------------------------------------------------------------
ProcessOnward(t) == IF t.is = "Going" THEN HandshakeStep(t.c) ELSE t
IsProcessLoop(c, n, r) ==
  r = [k \in 0 .. n |-> IF k = 0 THEN [c |-> c, is |-> "Going"] ELSE ProcessOnward(r[k - 1])]

LEMMA ProcessLoopExists ==
  ASSUME NEW c, NEW n \in Nat
  PROVE  \E r : IsProcessLoop(c, n, r)
<1> DEFINE base == [c |-> c, is |-> "Going"]
           S == {m \in Nat : \E r : IsProcessLoop(c, m, r)}
<1>1. 0 \in S
  <2>1. IsProcessLoop(c, 0, [k \in 0 .. 0 |-> base])
    BY DEF IsProcessLoop
  <2> QED  BY <2>1
<1>2. ASSUME NEW m \in S PROVE m + 1 \in S
  <2>1. PICK t : IsProcessLoop(c, m, t)
    OBVIOUS
  <2> DEFINE u == [k \in 0 .. m + 1 |-> IF k <= m THEN t[k] ELSE ProcessOnward(t[m])]
  <2>2. \A k \in 0 .. m : u[k] = t[k]
    OBVIOUS
  <2>3. u[m + 1] = ProcessOnward(u[m])
    OBVIOUS
  <2>4. \A k \in 0 .. m : u[k] = IF k = 0 THEN base ELSE ProcessOnward(u[k - 1])
    BY <2>1, <2>2 DEF IsProcessLoop
  <2>5. DOMAIN u = 0 .. m + 1 /\ u = [k \in DOMAIN u |-> u[k]]
    OBVIOUS
  <2> HIDE DEF u
  <2>6. \A k \in 0 .. m + 1 : u[k] = IF k = 0 THEN base ELSE ProcessOnward(u[k - 1])
    BY <2>3, <2>4
  <2>7. IsProcessLoop(c, m + 1, u)
    BY <2>5, <2>6 DEF IsProcessLoop
  <2> QED  BY <2>7
<1> HIDE DEF S
<1>3. S = Nat
  BY <1>1, <1>2, Induct DEF S
<1> QED  BY <1>3 DEF S

\* What fp_ProcessConnection makes of where the library stands.
Ran(run, settings, expected) ==
  CASE run.is = "Established" ->
         IF Accepted(settings, run.c.result, expected)
         THEN [run EXCEPT !.c.connected = TRUE]
         ELSE Failed([run.c EXCEPT
                        !.result = Decided(settings, @),
                        !.ssl = IF AskUser(settings, run.c.result, expected)
                                THEN "UserDecision" ELSE "ConnectionFailed"])
    [] OTHER -> GenerateSystemErrors(run)
ExpectedResults == {Verified(scenario.settings, p) : p \in scenario.decided}

LEMMA ProcessRuns ==
  ASSUME NEW c, Len(c.script) \in Nat
  PROVE  \E n \in Nat : \E r :
           /\ IsProcessLoop(c, n, r)
           /\ Process(c) = Ran(r[n], scenario.settings, ExpectedResults)
<1>0. PICK n \in Nat : n = Len(c.script) + 1
  OBVIOUS
<1> DEFINE u == CHOOSE r : IsProcessLoop(c, n, r)
<1>1. IsProcessLoop(c, n, u)
  BY ProcessLoopExists
<1>2. Process(c) = Ran(u[n], scenario.settings, ExpectedResults)
  BY <1>0 DEF Process, ProcessOnward, IsProcessLoop, Ran, ExpectedResults
<1> QED  BY <1>1, <1>2

LEMMA ScriptLength ==
  ASSUME NEW c, Shaken(c)
  PROVE  Len(c.script) \in Nat
<1>1. \A q \in Unread \cup Unverified \cup Verifieds : Len(q) \in Nat
  BY DEF Unread, Unverified, Verifieds
<1> QED  BY <1>1 DEF Shaken

\* A run of the library.
IsRun(c, t) ==
  /\ Same(c, t.c, Shaking)
  /\ t.is \in {"Going", "Wanting", "Established"} => Shaken(t.c)
  /\ t.is = "Established" => t.c.script = <<>>
  /\ DOMAIN t = {"c", "is"}

LEMMA HandshakeStepShape ==
  ASSUME NEW c
  PROVE  DOMAIN HandshakeStep(c) = {"c", "is"}
<1>1. \A d : DOMAIN Flown(d) = {"c", "is"}
  BY DEF Flown, Failed, Continued
<1>2. \A d : DOMAIN Failed(d) = {"c", "is"} /\ DOMAIN Continued(d) = {"c", "is"}
  BY DEF Failed, Continued
<1>3. CASE c.script = <<>>
  BY <1>3 DEF HandshakeStep
<1>4. CASE c.script # <<>> /\ Head(c.script) = "Write"
  BY <1>1, <1>2, <1>4 DEF HandshakeStep
<1>5. CASE c.script # <<>> /\ Head(c.script) = "Read"
  <2> DEFINE r == BioRead(c)
             w == Write(r.c, "hs", 1)
  <2>1. HandshakeStep(c) \in {Continued(r.c), Failed(w), Failed(r.c), [c |-> r.c, is |-> "Wanting"]}
    BY <1>5 DEF HandshakeStep
  <2> QED  BY <1>2, <2>1
<1>6. CASE c.script # <<>> /\ Head(c.script) \notin {"Read", "Write"}
  <2> DEFINE t == [c EXCEPT !.result = Report]
  <2>1. HandshakeStep(c) \in {Continued(t), Failed(Write(t, "hs", 1))}
    BY <1>6 DEF HandshakeStep, Report
  <2> QED  BY <1>2, <2>1
<1> QED  BY <1>3, <1>4, <1>5, <1>6

LEMMA LibraryRuns ==
  ASSUME NEW c, IsSocket(c), Shaken(c), NEW n \in Nat, NEW r, IsProcessLoop(c, n, r)
  PROVE  IsRun(c, r[n])
<1> DEFINE S == {k \in Nat : k <= n => IsRun(c, r[k])}
<1>1. 0 \in S
  <2>1. r[0] = [c |-> c, is |-> "Going"]
    BY DEF IsProcessLoop
  <2> QED  BY <2>1, SameIs DEF IsRun
<1>2. ASSUME NEW m \in S PROVE m + 1 \in S
  <2> SUFFICES ASSUME m + 1 <= n PROVE IsRun(c, r[m + 1])
    OBVIOUS
  <2>1. m + 1 \in 0 .. n /\ m + 1 - 1 = m /\ m + 1 # 0
    OBVIOUS
  <2>2. r[m + 1] = ProcessOnward(r[m])
    BY <2>1 DEF IsProcessLoop
  <2>3. IsRun(c, r[m])
    OBVIOUS
  <2>4. CASE r[m].is = "Going"
    <3>1. PICK d : d = r[m].c
      OBVIOUS
    <3>2. IsSocket(d) /\ Shaken(d) /\ Same(c, d, Shaking)
      BY <2>3, <2>4, <3>1, SocketStays DEF IsRun
    <3>3. PICK h : h = HandshakeStep(d)
      OBVIOUS
    <3>4. /\ Same(d, h.c, Shaking)
          /\ h.is = "Established" => h.c = d /\ d.script = <<>>
          /\ h.is \in {"Going", "Wanting"} => Shaken(h.c)
          /\ DOMAIN h = {"c", "is"}
      BY <3>2, <3>3, HandshakeStepIs, HandshakeStepShape
    <3>5. Same(c, h.c, Shaking)
      BY <3>2, <3>4, SameOnward
    <3>6. IsRun(c, h)
      BY <3>2, <3>4, <3>5 DEF IsRun
    <3> QED  BY <2>2, <2>4, <3>1, <3>3, <3>6 DEF ProcessOnward
  <2>5. CASE r[m].is # "Going"
    BY <2>2, <2>3, <2>5 DEF ProcessOnward
  <2> QED  BY <2>4, <2>5
<1> HIDE DEF S
<1>3. S = Nat
  BY <1>1, <1>2, Induct DEF S
<1> QED  BY <1>3 DEF S

LEMMA ProcessIs ==
  ASSUME NEW c, IsSocket(c), Shaken(c), Configured
  PROVE  LET p == Process(c) IN
         /\ Same(c, p.c, Shaking \cup {"connected", "ssl"})
         /\ p.is = "Wanting" => Shaken(p.c)
         /\ p.c.connected => c.connected \/ Kept
<1>1. PICK n \in Nat : \E r :
        /\ IsProcessLoop(c, n, r)
        /\ Process(c) = Ran(r[n], scenario.settings, ExpectedResults)
  BY ProcessRuns, ScriptLength
<1>2. PICK r : /\ IsProcessLoop(c, n, r)
               /\ Process(c) = Ran(r[n], scenario.settings, ExpectedResults)
  BY <1>1
<1>3. PICK t : t = r[n]
  OBVIOUS
<1>4. IsRun(c, t) /\ IsSocket(t.c)
  BY <1>2, <1>3, LibraryRuns, SocketStays DEF IsRun
<1>5. CASE t.is = "Established" /\ Accepted(scenario.settings, t.c.result, ExpectedResults)
  <2>1. t.c.script = <<>> /\ Shaken(t.c)
    BY <1>4, <1>5 DEF IsRun
  <2>2. Settled /\ Checked /\ t.c.result = Report
    BY <2>1, ScriptRuns DEF Shaken
  <2>3. Accepted(scenario.settings, Report, ExpectedResults)
    BY <1>5, <2>2
  <2>4. Kept
    BY <2>2, <2>3, ScenarioIs, AcceptedIsPromised
       DEF Kept, Settled, Checked, Report, ExpectedResults, Configured
  <2>5. Process(c) = [t EXCEPT !.c.connected = TRUE]
    BY <1>2, <1>3, <1>5 DEF Ran
  <2> DEFINE d == [t.c EXCEPT !.connected = TRUE]
  <2>6. Process(c).c = d /\ Process(c).is = "Established"
    BY <1>4, <1>5, <2>5 DEF IsRun
  <2>7. Same(t.c, d, {"connected"})
    BY <1>4 DEF Same, IsSocket, Fields
  <2>8. Same(c, d, Shaking \cup {"connected", "ssl"})
    BY <1>4, <2>7, SameOnward DEF IsRun
  <2> QED  BY <2>4, <2>6, <2>8
<1>6. CASE t.is = "Established" /\ ~Accepted(scenario.settings, t.c.result, ExpectedResults)
  <2> DEFINE d == [t.c EXCEPT
                     !.result = Decided(scenario.settings, @),
                     !.ssl = IF AskUser(scenario.settings, t.c.result, ExpectedResults)
                             THEN "UserDecision" ELSE "ConnectionFailed"]
  <2>1. Process(c) = Failed(d)
    BY <1>2, <1>3, <1>6 DEF Ran
  <2>2. Process(c).c = d /\ Process(c).is = "Failed"
    BY <2>1 DEF Failed
  <2>3. Same(t.c, d, {"result", "ssl"}) /\ d.connected = t.c.connected
    BY <1>4 DEF Same, IsSocket, Fields
  <2>4. Same(c, d, Shaking \cup {"connected", "ssl"})
    BY <1>4, <2>3, SameOnward DEF IsRun, Shaking
  <2>5. t.c.connected = c.connected
    BY <1>4 DEF IsRun, Same, IsSocket, Fields, Shaking, Output
  <2> QED  BY <2>2, <2>3, <2>4, <2>5
<1>7. CASE t.is # "Established"
  <2>1. Process(c) = GenerateSystemErrors(t)
    BY <1>2, <1>3, <1>7 DEF Ran
  <2>2. t.c.connected = c.connected
    BY <1>4 DEF IsRun, Same, IsSocket, Fields, Shaking, Output
  <2>3. CASE t.is = "Wanting"
    <3>1. Process(c) = t
      BY <2>1, <2>3 DEF GenerateSystemErrors
    <3> QED  BY <1>4, <2>2, <2>3, <3>1 DEF IsRun, Same
  <2>4. CASE t.is # "Wanting"
    <3> DEFINE d == [t.c EXCEPT !.ssl = "ConnectionFailed"]
    <3>1. Process(c).c = d /\ Process(c).is = "Failed"
      BY <2>1, <2>4 DEF GenerateSystemErrors, Failed
    <3>2. Same(t.c, d, {"ssl"}) /\ d.connected = t.c.connected
      BY <1>4 DEF Same, IsSocket, Fields
    <3>3. Same(c, d, Shaking \cup {"connected", "ssl"})
      BY <1>4, <3>2, SameOnward DEF IsRun
    <3> QED  BY <2>2, <3>1, <3>2, <3>3
  <2> QED  BY <2>3, <2>4
<1> QED  BY <1>5, <1>6, <1>7

\* All but what the handshake decides.
Others == Fields \ {"state", "script", "result", "connected"}

LEMMA OthersOnward ==
  ASSUME NEW c, NEW d, NEW e, IsSocket(c), Same(c, d, Others), Same(d, e, Others)
  PROVE  Same(c, e, Others) /\ IsSocket(d) /\ IsSocket(e)
BY DEF Same, IsSocket

LEMMA OthersHold ==
  ASSUME NEW c, NEW d, NEW F, Same(c, d, F), F \subseteq Others
  PROVE  Same(c, d, Others)
BY DEF Same

LEMMA OthersAre ==
  /\ Output \subseteq Others /\ Transfer \subseteq Others /\ Events \subseteq Others
  /\ Output \cup {"ssl"} \subseteq Others /\ {"ssl"} \subseteq Others
BY DEF Output, Transfer, Input, Events, Others, Fields

States == {"Connect", "Accept", "Connected", "Done", "Shutdown", "ShutdownSocket", "Disconnected"}
Handshaking == {"Connect", "Accept", "Connected"}

\* The handshake of a socket.
Hand(c) ==
  /\ IsSocket(c)
  /\ c.state \in States
  /\ c.state \in Handshaking => Shaken(c)
  /\ c.connected => Kept

LEMMA HandHolds ==
  ASSUME NEW c, NEW d, Hand(c), Same(c, d, Others)
  PROVE  Hand(d)
<1>1. DOMAIN c = Fields /\ DOMAIN d = Fields
  BY DEF Hand, Same, IsSocket
<1>2. d.state = c.state /\ d.script = c.script /\ d.result = c.result /\ d.connected = c.connected
  BY <1>1 DEF Same, Others, Fields
<1> QED  BY <1>1, <1>2 DEF Hand, IsSocket, Shaken

LEMMA LibraryShutdownSame ==
  ASSUME NEW c, IsSocket(c)
  PROVE  Same(c, LibraryShutdown(c), Output \cup {"shut"}) /\ IsSocket(LibraryShutdown(c))
<1> DEFINE d == [c EXCEPT !.shut = TRUE]
<1>1. Same(c, d, {"shut"}) /\ IsSocket(d)
  BY DEF Same, IsSocket, Fields
<1> HIDE DEF d
<1>2. Same(d, Flush(d), {"tx", "wire", "room", "armed", "error"}) /\ IsSocket(Flush(d))
  BY <1>1, FlushSame, SocketStays
<1>3. Same(c, Flush(d), Output \cup {"shut"})
  BY <1>1, <1>2, SameOnward DEF Output
<1>4. Same(c, d, Output \cup {"shut"})
  BY <1>1 DEF Same
<1>5. LibraryShutdown(c) \in {d, Flush(d)}
  BY DEF LibraryShutdown, d
<1> QED  BY <1>1, <1>2, <1>3, <1>4, <1>5

LEMMA ContinueShutdownIs ==
  ASSUME NEW c, IsSocket(c)
  PROVE  /\ Same(c, ContinueShutdown(c), Output \cup {"shut", "state"})
         /\ ContinueShutdown(c).state \in {c.state, "ShutdownSocket"}
         /\ IsSocket(ContinueShutdown(c))
<1> DEFINE d == LibraryShutdown(c)
           e == [d EXCEPT !.state = "ShutdownSocket"]
<1>1. Same(c, d, Output \cup {"shut"}) /\ IsSocket(d)
  BY LibraryShutdownSame
<1>2. ContinueShutdown(c) \in {d, e}
  BY DEF ContinueShutdown
<1> HIDE DEF d
<1>3. Same(d, e, {"state"}) /\ e.state = "ShutdownSocket" /\ IsSocket(e)
  BY <1>1 DEF Same, IsSocket, Fields
<1> HIDE DEF e
<1>4. Same(c, e, Output \cup {"shut", "state"})
  BY <1>1, <1>3, SameOnward
<1>5. Same(c, d, Output \cup {"shut", "state"}) /\ d.state = c.state
  BY <1>1 DEF Same, IsSocket, Fields, Output
<1> QED  BY <1>1, <1>2, <1>3, <1>4, <1>5

LEMMA ShutdownIs ==
  ASSUME NEW c, IsSocket(c)
  PROVE  /\ Same(c, Shutdown(c), Output \cup {"shut", "state"})
         /\ Shutdown(c).state \in {"Shutdown", "ShutdownSocket"}
         /\ IsSocket(Shutdown(c))
<1> DEFINE d == [c EXCEPT !.state = "Shutdown"]
<1>1. Same(c, d, {"state"}) /\ IsSocket(d) /\ d.state = "Shutdown"
  BY DEF Same, IsSocket, Fields
<1>2. Shutdown(c) = ContinueShutdown(d)
  BY DEF Shutdown
<1> HIDE DEF d
<1>3. Same(c, ContinueShutdown(d), Output \cup {"shut", "state"})
  BY <1>1, ContinueShutdownIs, SameOnward
<1> QED  BY <1>1, <1>2, <1>3, ContinueShutdownIs

\* A socket that shuts down has its handshake behind it.
LEMMA HandShuts ==
  ASSUME NEW c, NEW d, Hand(c), Same(c, d, Output \cup {"shut", "state"}),
         d.state \in {c.state, "Shutdown", "ShutdownSocket"}
  PROVE  Hand(d)
<1>1. DOMAIN c = Fields /\ DOMAIN d = Fields
  BY DEF Hand, Same, IsSocket
<1>2. d.script = c.script /\ d.result = c.result /\ d.connected = c.connected
  BY <1>1 DEF Same, Output, Fields
<1> QED  BY <1>1, <1>2 DEF Hand, IsSocket, Shaken, States, Handshaking

LEMMA HandShutdown ==
  ASSUME NEW c, Hand(c)
  PROVE  Hand(ContinueShutdown(c)) /\ Hand(Shutdown(c))
<1>1. Hand(ContinueShutdown(c))
  BY ContinueShutdownIs, HandShuts DEF Hand
<1>2. Hand(Shutdown(c))
  BY ShutdownIs, HandShuts DEF Hand
<1> QED  BY <1>1, <1>2

\* What a call that goes through the handshake may change beside the transfer.
Calling == Shaking \cup {"connected", "ssl", "state", "shut", "events"}

LEMMA HandleHandshakeIs ==
  ASSUME NEW c, Hand(c), Configured
  PROVE  LET h == HandleHandshake(c) IN
         /\ Hand(h.c)
         /\ Same(c, h.c, Calling)
         /\ h.may \in BOOLEAN
         /\ h.may => h.c.state = "Done"
<1>0. IsSocket(c) /\ c.state \in States
  BY DEF Hand
<1>1. CASE c.state = "Done"
  <2>1. HandleHandshake(c) = [c |-> c, may |-> TRUE]
    BY <1>1 DEF HandleHandshake
  <2> QED  BY <1>1, <2>1, SameIs
<1>2. CASE c.state = "Shutdown"
  <2>1. HandleHandshake(c) = [c |-> ContinueShutdown(c), may |-> FALSE]
    BY <1>2 DEF HandleHandshake
  <2>2. Same(c, ContinueShutdown(c), Calling)
    BY <1>0, ContinueShutdownIs DEF Same, Calling, Shaking
  <2> QED  BY <2>1, <2>2, HandShutdown
<1>3. CASE c.state \in {"ShutdownSocket", "Disconnected"}
  <2>1. HandleHandshake(c) = [c |-> c, may |-> FALSE]
    BY <1>3 DEF HandleHandshake
  <2> QED  BY <2>1, SameIs
<1>4. CASE c.state \in Handshaking
  <2> DEFINE b == IF c.state = "Connect" THEN [c EXCEPT !.state = "Connected"] ELSE c
             p == Process(b)
             done == AddTCPState([p.c EXCEPT !.state = "Done"], {"Read", "Write"})
             gone == AddTCPState([p.c EXCEPT !.state = "Disconnected"], {"Closed"})
  <2>1. /\ Same(c, b, {"state"}) /\ IsSocket(b) /\ b.state \in Handshaking
        /\ b.script = c.script /\ b.result = c.result /\ b.connected = c.connected
    BY <1>0, <1>4 DEF Same, IsSocket, Fields, Handshaking
  <2>2. Shaken(b)
    BY <1>4, <2>1 DEF Shaken, Hand
  <2> HIDE DEF b
  <2>3. /\ Same(b, p.c, Shaking \cup {"connected", "ssl"})
        /\ p.is = "Wanting" => Shaken(p.c)
        /\ p.c.connected => b.connected \/ Kept
    BY <2>1, <2>2, ProcessIs
  <2>4. HandleHandshake(c) =
          CASE p.is = "Established" -> [c |-> done, may |-> TRUE]
            [] p.is = "Wanting" -> [c |-> p.c, may |-> FALSE]
            [] OTHER -> [c |-> gone, may |-> FALSE]
    BY <1>4 DEF HandleHandshake, Handshaking, b
  <2> HIDE DEF p
  <2>5. IsSocket(p.c) /\ p.c.state = b.state
    BY <2>1, <2>3, SocketStays DEF Same, IsSocket, Fields, Shaking, Output
  <2>6. p.c.connected => Kept
    BY <2>1, <2>3 DEF Hand
  <2>7. /\ Same(p.c, done, {"state", "events"}) /\ IsSocket(done)
        /\ done.state = "Done" /\ done.connected = p.c.connected
    BY <2>5 DEF Same, IsSocket, Fields, AddTCPState
  <2>8. /\ Same(p.c, gone, {"state", "events"}) /\ IsSocket(gone)
        /\ gone.state = "Disconnected" /\ gone.connected = p.c.connected
    BY <2>5 DEF Same, IsSocket, Fields, AddTCPState
  <2> HIDE DEF done, gone
  <2>9. Hand(done) /\ Hand(gone)
    BY <2>6, <2>7, <2>8 DEF Hand, States, Handshaking
  <2>10. Same(c, p.c, Calling)
    BY <2>1, <2>3, SameOnward DEF Calling
  <2>11. Same(c, done, Calling) /\ Same(c, gone, Calling)
    BY <2>7, <2>8, <2>10, SameOnward DEF Calling
  <2>12. p.is = "Wanting" => Hand(p.c)
    BY <2>1, <2>3, <2>5, <2>6 DEF Hand, States, Handshaking
  <2>13. CASE p.is = "Established"
    <3>1. HandleHandshake(c) = [c |-> done, may |-> TRUE]
      BY <2>4, <2>13
    <3>2. \E h : h = HandleHandshake(c) /\ h.c = done /\ h.may = TRUE
      BY <3>1
    <3> QED  BY <2>7, <2>9, <2>11, <3>2
  <2>14. CASE p.is = "Wanting"
    <3>1. HandleHandshake(c) = [c |-> p.c, may |-> FALSE]
      BY <2>4, <2>14
    <3>2. \E h : h = HandleHandshake(c) /\ h.c = p.c /\ h.may = FALSE
      BY <3>1
    <3> QED  BY <2>10, <2>12, <2>14, <3>2
  <2>15. CASE p.is \notin {"Established", "Wanting"}
    <3>1. HandleHandshake(c) = [c |-> gone, may |-> FALSE]
      BY <2>4, <2>15
    <3>2. \E h : h = HandleHandshake(c) /\ h.c = gone /\ h.may = FALSE
      BY <3>1
    <3> QED  BY <2>9, <2>11, <3>2
  <2> QED  BY <2>13, <2>14, <2>15
<1> QED  BY <1>0, <1>1, <1>2, <1>3, <1>4 DEF States, Handshaking

\* What a call of the owner may change.
Calls == Calling \cup Transfer \cup Events

LEMMA CallsAre ==
  /\ Calling \subseteq Calls /\ Transfer \subseteq Calls /\ Events \subseteq Calls
  /\ Output \cup {"ssl"} \subseteq Calls /\ Output \subseteq Calls /\ {"tx", "sealed"} \subseteq Calls
BY DEF Calls, Transfer, Output

LEMMA CallGoes ==
  ASSUME NEW c, NEW d, NEW e, NEW F, IsSocket(c), Same(c, d, Calls), Hand(d), Same(d, e, F),
         F \subseteq Others \cap Calls
  PROVE  Same(c, e, Calls) /\ Hand(e)
<1>1. Same(d, e, Others)
  BY DEF Same
<1> QED  BY <1>1, HandHolds, SameOnward

LEMMA CallFields ==
  /\ Events \subseteq Others \cap Calls /\ Transfer \subseteq Others \cap Calls
  /\ Output \cup {"ssl"} \subseteq Others \cap Calls
BY DEF Events, Transfer, Output, Input, Others, Calls, Fields

\* A call begins with the handshake.
LEMMA CallBegins ==
  ASSUME NEW c, Hand(c), Configured
  PROVE  LET h == HandleHandshake(c) IN
         /\ IsSocket(c) /\ Hand(h.c) /\ IsSocket(h.c)
         /\ Same(c, h.c, Calls) /\ Same(c, h.c, Calling)
         /\ h.may \in BOOLEAN
         /\ h.may => h.c.state = "Done"
<1>1. LET h == HandleHandshake(c) IN Hand(h.c) /\ Same(c, h.c, Calling) /\ h.may \in BOOLEAN
                                     /\ (h.may => h.c.state = "Done")
  BY HandleHandshakeIs
<1>2. Same(c, HandleHandshake(c).c, Calls)
  BY <1>1 DEF Same, Calls
<1> QED  BY <1>1, <1>2 DEF Hand

LEMMA ReceiveIs ==
  ASSUME NEW c, Hand(c), NEW room, Configured
  PROVE  Same(c, Receive(c, room).c, Calls) /\ Hand(Receive(c, room).c)
<1> DEFINE h == HandleHandshake(c)
           t == TryOpenInto(h.c, room)
           r == ReceiveThrough(h.c, room)
<1>1. IsSocket(c) /\ Hand(h.c) /\ IsSocket(h.c) /\ Same(c, h.c, Calls)
  BY CallBegins
<1>2. stream \in Seq(RecordKinds)
  BY ScenarioIs DEF Configured
<1>3. /\ Same(h.c, t.c, Transfer) /\ IsTurn(t)
      /\ Same(h.c, r.c, Transfer) /\ IsTurn(r)
  BY <1>1, <1>2, TryOpenSame, ReceiveThroughSame
<1>4. /\ Same(c, t.c, Calls) /\ Hand(t.c) /\ Same(c, r.c, Calls) /\ Hand(r.c)
  BY <1>1, <1>3, CallGoes, CallFields
<1>5. \A d : Same(c, d, Calls) /\ Hand(d) => Same(c, CheckBrokenState(d), Calls) /\ Hand(CheckBrokenState(d))
  <2> TAKE d
  <2> HAVE Same(c, d, Calls) /\ Hand(d)
  <2>1. Same(d, CheckBrokenState(d), Events)
    BY CheckBrokenSame DEF Hand
  <2> QED  BY <1>1, <2>1, CallGoes, CallFields
<1> HIDE DEF h, t, r
<1>6. Receive(c, room).c \in
        {h.c, CheckBrokenState(h.c), t.c, CheckBrokenState(t.c), r.c, CheckBrokenState(r.c)}
  BY <1>3 DEF Receive, Going, IsTurn, h, t, r
<1> QED  BY <1>1, <1>4, <1>5, <1>6

LEMMA SendNothingIs ==
  ASSUME NEW c, Hand(c), Configured
  PROVE  Same(c, SendNothing(c), Calls) /\ Hand(SendNothing(c))
<1> DEFINE h == HandleHandshake(c)
<1>1. IsSocket(c) /\ Hand(h.c) /\ IsSocket(h.c) /\ Same(c, h.c, Calls)
  BY CallBegins
<1>2. Same(c, c, Calls)
  BY SameIs
<1>3. Same(h.c, CheckBrokenState(h.c), Events) /\ Same(h.c, FlushPending(h.c), Output \cup {"ssl"})
  BY <1>1, CheckBrokenSame, FlushPendingSame
<1>4. SendNothing(c) \in {c, h.c, CheckBrokenState(h.c), FlushPending(h.c)}
  BY DEF SendNothing
<1> HIDE DEF h
<1> QED  BY <1>1, <1>2, <1>3, <1>4, CallGoes, CallFields

-----------------------------------------------------------------------------
BatchPut(before, record) ==
  [c |-> record.c,
   sent |-> before.sent + (IF record.sent THEN 1 ELSE 0),
   is |-> IF record.sent THEN "Going" ELSE "Thrown"]
BatchMore(before, ready) ==
  IF IsFull(ready.tx) THEN [before EXCEPT !.c = ready, !.is = "Done"]
  ELSE BatchPut(before, SendRecord(ready))
BatchOnward(before) ==
  IF before.is # "Going" THEN before
  ELSE BatchMore(before, IF IsFull(before.c.tx) THEN FlushPending(before.c) ELSE before.c)
BatchBegun(c) == [c |-> c, sent |-> 0, is |-> "Going"]
IsBatchLoop(c, n, r) ==
  r = [k \in 0 .. n |-> IF k = 0 THEN BatchBegun(c) ELSE BatchOnward(r[k - 1])]

LEMMA BatchLoopExists ==
  ASSUME NEW c, NEW n \in Nat
  PROVE  \E r : IsBatchLoop(c, n, r)
<1> DEFINE S == {m \in Nat : \E r : IsBatchLoop(c, m, r)}
<1>1. 0 \in S
  <2>1. IsBatchLoop(c, 0, [k \in 0 .. 0 |-> BatchBegun(c)])
    BY DEF IsBatchLoop
  <2> QED  BY <2>1
<1>2. ASSUME NEW m \in S PROVE m + 1 \in S
  <2>1. PICK t : IsBatchLoop(c, m, t)
    OBVIOUS
  <2> DEFINE u == [k \in 0 .. m + 1 |-> IF k <= m THEN t[k] ELSE BatchOnward(t[m])]
  <2>2. \A k \in 0 .. m : u[k] = t[k]
    OBVIOUS
  <2>3. u[m + 1] = BatchOnward(u[m])
    OBVIOUS
  <2>4. \A k \in 0 .. m : u[k] = IF k = 0 THEN BatchBegun(c) ELSE BatchOnward(u[k - 1])
    BY <2>1, <2>2 DEF IsBatchLoop
  <2>5. DOMAIN u = 0 .. m + 1 /\ u = [k \in DOMAIN u |-> u[k]]
    OBVIOUS
  <2> HIDE DEF u
  <2>6. \A k \in 0 .. m + 1 : u[k] = IF k = 0 THEN BatchBegun(c) ELSE BatchOnward(u[k - 1])
    BY <2>3, <2>4
  <2>7. IsBatchLoop(c, m + 1, u)
    BY <2>5, <2>6 DEF IsBatchLoop
  <2> QED  BY <2>7
<1> HIDE DEF S
<1>3. S = Nat
  BY <1>1, <1>2, Induct DEF S
<1> QED  BY <1>3 DEF S

LEMMA BatchRuns ==
  ASSUME NEW c, NEW n \in Nat
  PROVE  \E r : IsBatchLoop(c, n, r) /\ Batched(c, n) = r[n]
<1> DEFINE u == CHOOSE r : IsBatchLoop(c, n, r)
<1>1. IsBatchLoop(c, n, u)
  BY BatchLoopExists
<1>2. Batched(c, n) = u[n]
  BY DEF Batched, BatchOnward, BatchMore, BatchPut, BatchBegun, IsBatchLoop
<1> HIDE DEF u
<1> QED  BY <1>1, <1>2

\* A batch of records.
IsBatch(t) == IsSocket(t.c) /\ DOMAIN t = {"c", "sent", "is"}

LEMMA BatchOnwardSame ==
  ASSUME NEW t, IsBatch(t)
  PROVE  Same(t.c, BatchOnward(t).c, Output \cup {"ssl"}) /\ IsBatch(BatchOnward(t))
<1> DEFINE f == FlushPending(t.c)
<1>1. Same(t.c, t.c, Output \cup {"ssl"})
  BY SameIs
<1>2. Same(t.c, f, Output \cup {"ssl"}) /\ IsSocket(f)
  BY FlushPendingSame, SocketStays DEF IsBatch
<1>3. Same(t.c, SendRecord(t.c).c, Output \cup {"ssl"})
  BY SendRecordSame DEF IsBatch
<1>4. Same(t.c, SendRecord(f).c, Output \cup {"ssl"})
  BY <1>2, SendRecordSame, SameOnward
<1> HIDE DEF f
<1>5. BatchOnward(t).c \in {t.c, f, SendRecord(t.c).c, SendRecord(f).c}
  BY DEF BatchOnward, BatchMore, BatchPut, IsBatch, f
<1>6. DOMAIN BatchOnward(t) = {"c", "sent", "is"}
  BY DEF BatchOnward, BatchMore, BatchPut, IsBatch
<1>7. Same(t.c, BatchOnward(t).c, Output \cup {"ssl"})
  BY <1>1, <1>2, <1>3, <1>4, <1>5
<1> QED  BY <1>6, <1>7, SocketStays DEF IsBatch

LEMMA BatchedSame ==
  ASSUME NEW c, IsSocket(c), NEW n \in Nat
  PROVE  Same(c, Batched(c, n).c, Output \cup {"ssl"}) /\ IsBatch(Batched(c, n))
<1>1. PICK r : IsBatchLoop(c, n, r) /\ Batched(c, n) = r[n]
  BY BatchRuns
<1> DEFINE S == {k \in Nat : k <= n => Same(c, r[k].c, Output \cup {"ssl"}) /\ IsBatch(r[k])}
<1>2. 0 \in S
  <2>1. r[0] = BatchBegun(c)
    BY <1>1 DEF IsBatchLoop
  <2>2. r[0].c = c /\ IsBatch(r[0])
    BY <2>1 DEF BatchBegun, IsBatch
  <2> QED  BY <2>2, SameIs
<1>3. ASSUME NEW m \in S PROVE m + 1 \in S
  <2> SUFFICES ASSUME m + 1 <= n
               PROVE  Same(c, r[m + 1].c, Output \cup {"ssl"}) /\ IsBatch(r[m + 1])
    OBVIOUS
  <2>1. m + 1 \in 1 .. n /\ m + 1 - 1 = m
    OBVIOUS
  <2>2. r[m + 1] = BatchOnward(r[m])
    BY <1>1, <2>1 DEF IsBatchLoop
  <2>3. Same(c, r[m].c, Output \cup {"ssl"}) /\ IsBatch(r[m])
    OBVIOUS
  <2>4. Same(c, BatchOnward(r[m]).c, Output \cup {"ssl"}) /\ IsBatch(BatchOnward(r[m]))
    BY <2>3, BatchOnwardSame, SameOnward
  <2> QED  BY <2>2, <2>4
<1> HIDE DEF S
<1>4. S = Nat
  BY <1>2, <1>3, Induct DEF S
<1> QED  BY SMTT(60), <1>1, <1>4 DEF S

LEMMA SendVectoredIs ==
  ASSUME NEW c, Hand(c), NEW n \in Nat, Configured
  PROVE  Same(c, SendVectored(c, n).c, Calls) /\ Hand(SendVectored(c, n).c)
<1> DEFINE h == HandleHandshake(c)
           b == Batched(h.c, n)
           d == Sealed(h.c, "data", n)
           f == FlushPending(b.c)
           g == FlushPending(d)
<1>1. IsSocket(c) /\ Hand(h.c) /\ IsSocket(h.c) /\ Same(c, h.c, Calls)
  BY CallBegins
<1>2. Same(c, c, Calls)
  BY SameIs
<1>3. Same(h.c, b.c, Output \cup {"ssl"}) /\ IsBatch(b)
  BY <1>1, BatchedSame
<1>4. Same(h.c, d, {"tx", "sealed"}) /\ IsSocket(d)
  BY <1>1, SealedSame, SocketStays
<1>5. Same(h.c, g, Output \cup {"ssl"})
  BY <1>4, FlushPendingSame, SameOnward DEF Output
<1>6. Same(h.c, f, Output \cup {"ssl"})
  BY <1>3, FlushPendingSame, SameOnward DEF IsBatch
<1>7. /\ Same(c, b.c, Calls) /\ Hand(b.c)
      /\ Same(c, f, Calls) /\ Hand(f)
      /\ Same(c, g, Calls) /\ Hand(g)
  BY <1>1, <1>3, <1>5, <1>6, CallGoes, CallFields
<1>8. \A e : Same(c, e, Calls) /\ Hand(e) => Same(c, CheckBrokenState(e), Calls) /\ Hand(CheckBrokenState(e))
  <2> TAKE e
  <2> HAVE Same(c, e, Calls) /\ Hand(e)
  <2>1. Same(e, CheckBrokenState(e), Events)
    BY CheckBrokenSame DEF Hand
  <2> QED  BY <1>1, <2>1, CallGoes, CallFields
<1> HIDE DEF h, b, d, f, g
<1>9. SendVectored(c, n).c \in
        {c, h.c, CheckBrokenState(h.c), g, b.c, f, CheckBrokenState(b.c), CheckBrokenState(f)}
  <2> DEFINE e == IF b.is = "Thrown" THEN b ELSE [b EXCEPT !.c = FlushPending(@)]
  <2>1. e.c \in {b.c, f} /\ DOMAIN e = {"c", "sent", "is"}
    BY <1>3 DEF IsBatch, f
  <2> HIDE DEF e
  <2>2. SendVectored(c, n).c \in {c, h.c, CheckBrokenState(h.c), g, e.c, CheckBrokenState(e.c)}
    BY <2>1 DEF SendVectored, e, h, b, d, g
  <2> QED  BY <2>1, <2>2
<1> QED  BY <1>1, <1>2, <1>7, <1>8, <1>9

\* What the operations of the completion side may change.
Submitting ==
  {"tx", "sealed", "ssl", "events", "reported", "failed", "window", "windowPending", "wasFull",
   "ops", "held", "inFlight", "mail", "kernel"}

LEMMA SubmittingAre == Submitting \subseteq Others
BY DEF Submitting, Others, Fields

LEMMA PostSame ==
  ASSUME NEW c, IsSocket(c), NEW jobs
  PROVE  Same(c, Post(c, jobs), {"mail"}) /\ IsSocket(Post(c, jobs))
BY DEF Same, Post, IsSocket, Fields

LEMMA FailAllSame ==
  ASSUME NEW c, IsSocket(c)
  PROVE  Same(c, FailAllSendOperations(c), {"ops", "mail"}) /\ IsSocket(FailAllSendOperations(c))
<1> DEFINE d == [c EXCEPT !.ops = <<>>]
<1>1. Same(c, d, {"ops"}) /\ IsSocket(d)
  BY DEF Same, IsSocket, Fields
<1>2. PICK jobs : FailAllSendOperations(c) = Post(d, jobs)
  BY DEF FailAllSendOperations
<1> HIDE DEF d
<1>3. Same(d, Post(d, jobs), {"mail"}) /\ IsSocket(Post(d, jobs))
  BY <1>1, PostSame
<1> QED  BY <1>1, <1>2, <1>3, SameOnward

LEMMA CloseSame ==
  ASSUME NEW c, IsSocket(c)
  PROVE  Same(c, Close(c), Submitting) /\ IsSocket(Close(c))
<1> DEFINE d == [c EXCEPT !.failed = TRUE, !.events = {}]
<1>1. Same(c, d, {"failed", "events"}) /\ IsSocket(d)
  BY DEF Same, IsSocket, Fields
<1>2. Close(c) = FailAllSendOperations(d)
  BY DEF Close
<1> HIDE DEF d
<1> QED  BY <1>1, <1>2, FailAllSame, SameOnward DEF Submitting

LEMMA FailSendSame ==
  ASSUME NEW c, IsSocket(c)
  PROVE  Same(c, FailSend(c), {"ssl", "events", "reported"}) /\ IsSocket(FailSend(c))
<1> DEFINE d == [c EXCEPT !.ssl = "WriteFailed"]
<1>1. Same(c, d, {"ssl"}) /\ IsSocket(d)
  BY DEF Same, IsSocket, Fields
<1>2. FailSend(c) = CheckBrokenState(d)
  BY DEF FailSend
<1> HIDE DEF d
<1>3. Same(d, CheckBrokenState(d), Events)
  BY <1>1, CheckBrokenSame
<1> QED  BY <1>1, <1>2, <1>3, SameOnward, SocketStays DEF Events

LEMMA SubmitPinnedSame ==
  ASSUME NEW c, IsSocket(c), NEW buffer, NEW records, NEW takes
  PROVE  LET r == SubmitPinnedSend(c, buffer, records, takes) IN
         Same(c, r.c, Submitting) /\ IsSocket(r.c)
<1> DEFINE n == IF takes = "Partly" THEN Len(records) - 1 ELSE Len(records)
           submitted == [c EXCEPT
                      !.inFlight = @ + 1,
                      !.kernel = Append(@, [buffer |-> buffer, records |-> First(records, n),
                                            stage |-> "Queued"])]
           back == [c EXCEPT !.tx = ReleasePin(@, buffer)]
<1>1. Same(c, submitted, {"inFlight", "kernel"}) /\ IsSocket(submitted)
  BY DEF Same, IsSocket, Fields
<1>2. Same(c, back, {"tx"}) /\ IsSocket(back)
  BY DEF Same, IsSocket, Fields
<1>3. SubmitPinnedSend(c, buffer, records, takes).c \in
        {submitted, FailAllSendOperations(FailSend(submitted)), FailAllSendOperations(FailSend(back))}
  BY DEF SubmitPinnedSend
<1> HIDE DEF submitted, back, n
<1>4. \A d : IsSocket(d) /\ Same(c, d, Submitting) =>
        /\ Same(c, FailAllSendOperations(FailSend(d)), Submitting)
        /\ IsSocket(FailAllSendOperations(FailSend(d)))
  <2> TAKE d
  <2> HAVE IsSocket(d) /\ Same(c, d, Submitting)
  <2>1. Same(d, FailSend(d), {"ssl", "events", "reported"}) /\ IsSocket(FailSend(d))
    BY FailSendSame
  <2>2. Same(c, FailSend(d), Submitting)
    BY <2>1, SameOnward DEF Submitting
  <2>3. /\ Same(FailSend(d), FailAllSendOperations(FailSend(d)), {"ops", "mail"})
        /\ IsSocket(FailAllSendOperations(FailSend(d)))
    BY <2>1, FailAllSame
  <2> QED  BY <2>2, <2>3, SameOnward DEF Submitting
<1>5. Same(c, submitted, Submitting) /\ Same(c, back, Submitting)
  BY <1>1, <1>2 DEF Same, Submitting
<1> QED  BY <1>1, <1>2, <1>3, <1>4, <1>5

LEMMA CarrySame ==
  ASSUME NEW c, IsSocket(c), NEW submission, NEW takes, NEW r \in CarrySend(c, submission, takes)
  PROVE  Same(c, r.c, Submitting) /\ IsSocket(r.c)
<1> DEFINE Waits(w) ==
        IF submission THEN ParkSendOperation(w)
        ELSE Post([w EXCEPT !.held = 0], <<Completed(None, c.held, TRUE), Released(None)>>)
      Carried(w, next) ==
        IF next = None THEN [c |-> Waits(w), taken |-> TRUE]
        ELSE SubmitPinnedSend([w EXCEPT !.tx = BeginSend(@)], next, w.tx.out[next].records, takes)
<1>1. PICK tx : r = Carried([c EXCEPT !.tx = tx], NextBeginSend([c EXCEPT !.tx = tx]))
  BY DEF CarrySend
<1> DEFINE w == [c EXCEPT !.tx = tx]
           next == NextBeginSend(w)
<1>2. r = Carried(w, next)
  BY <1>1
<1>3. Same(c, w, {"tx"}) /\ IsSocket(w)
  BY DEF Same, IsSocket, Fields
<1> HIDE DEF w, next
<1>4. Same(w, Waits(w), Submitting) /\ IsSocket(Waits(w))
  <2>1. Same(w, ParkSendOperation(w), Submitting) /\ IsSocket(ParkSendOperation(w))
    BY <1>3 DEF ParkSendOperation, Same, IsSocket, Fields, Submitting
  <2> DEFINE e == [w EXCEPT !.held = 0]
  <2>2. Same(w, e, {"held"}) /\ IsSocket(e)
    BY <1>3 DEF Same, IsSocket, Fields
  <2> HIDE DEF e
  <2>3. \A jobs : Same(w, Post(e, jobs), Submitting) /\ IsSocket(Post(e, jobs))
    <3> TAKE jobs
    <3>1. Same(e, Post(e, jobs), {"mail"}) /\ IsSocket(Post(e, jobs))
      BY <2>2, PostSame
    <3> QED  BY <2>2, <3>1, SameOnward DEF Submitting
  <2>4. Waits(w) = ParkSendOperation(w)
          \/ Waits(w) = Post(e, <<Completed(None, c.held, TRUE), Released(None)>>)
    BY DEF e
  <2> HIDE DEF Waits
  <2> QED  BY <2>1, <2>3, <2>4
<1>5. CASE next = None
  <2>1. r.c = Waits(w)
    BY <1>2, <1>5
  <2> HIDE DEF Waits
  <2> QED  BY <2>1, <1>3, <1>4, SameOnward DEF Submitting
<1>6. CASE next # None
  <2> DEFINE b == [w EXCEPT !.tx = BeginSend(@)]
  <2>1. Same(w, b, {"tx"}) /\ IsSocket(b)
    BY <1>3 DEF Same, IsSocket, Fields
  <2>2. Same(c, b, {"tx"})
    BY <1>3, <2>1, SameOnward
  <2>3. r = SubmitPinnedSend(b, next, w.tx.out[next].records, takes)
    BY <1>2, <1>6
  <2> HIDE DEF b
  <2>4. Same(b, r.c, Submitting) /\ IsSocket(r.c)
    BY <2>1, <2>3, SubmitPinnedSame
  <2> QED  BY <2>2, <2>4, SameOnward DEF Submitting
<1> QED  BY <1>5, <1>6

LEMMA RefusedSame ==
  ASSUME NEW c, IsSocket(c)
  PROVE  Same(c, Refused(c).c, Submitting) /\ IsSocket(Refused(c).c)
<1>1. Refused(c).c = CheckBrokenState(c)
  BY DEF Refused
<1> QED  BY <1>1, CheckBrokenSame, SocketStays DEF Same, Events, Submitting

LEMMA ContinueSendSame ==
  ASSUME NEW c, IsSocket(c), NEW takes, NEW r \in ContinueSend(c, takes)
  PROVE  Same(c, r.c, Submitting) /\ IsSocket(r.c)
<1>1. r = Refused(c) \/ r \in CarrySend(c, FALSE, takes)
  BY DEF ContinueSend
<1> QED  BY <1>1, RefusedSame, CarrySame

LEMMA SubmitSendSame ==
  ASSUME NEW c, IsSocket(c), NEW n, NEW k, NEW takes, NEW r \in SubmitSend(c, n, k, takes)
  PROVE  Same(c, r.c, Submitting) /\ IsSocket(r.c)
<1> DEFINE b == IF k < n THEN [c EXCEPT !.ssl = "WriteFailed"] ELSE c
           d == Sealed(b, "data", k)
           e == AllocateSendOperation(d, NewOperation(c.tx.fill, k))
<1>1. Same(c, b, {"ssl"}) /\ IsSocket(b)
  BY DEF Same, IsSocket, Fields
<1>2. Same(b, d, {"tx", "sealed"}) /\ IsSocket(d)
  <2> HIDE DEF b
  <2> QED  BY <1>1, SealedSame, SocketStays
<1>3. Same(d, e, {"ops"}) /\ IsSocket(e)
  <2> HIDE DEF b, d
  <2> QED  BY <1>2 DEF Same, IsSocket, Fields, AllocateSendOperation
<1>4. \/ r = Refused(c)
      \/ r = [c |-> FailSend(c), taken |-> FALSE]
      \/ r = [c |-> ParkSendOperation(e), taken |-> TRUE]
      \/ r \in CarrySend(e, TRUE, takes)
  <2>1. CASE Refuses(c)
    BY <2>1 DEF SubmitSend
  <2>2. CASE ~Refuses(c) /\ k = 0
    BY <2>2 DEF SubmitSend
  <2>3. CASE ~Refuses(c) /\ k # 0
    BY <2>3 DEF SubmitSend
  <2> QED  BY <2>1, <2>2, <2>3
<1> HIDE DEF b, d, e
<1>5. Same(c, e, {"ssl", "tx", "sealed", "ops"})
  <2>1. Same(c, d, {"ssl", "tx", "sealed"})
    BY <1>1, <1>2, SameOnward
  <2> QED  BY <1>3, <2>1, SameOnward
<1>6. CASE r = Refused(c)
  BY <1>6, RefusedSame
<1>7. CASE r = [c |-> FailSend(c), taken |-> FALSE]
  <2>1. r.c = FailSend(c)
    BY <1>7
  <2> QED  BY <2>1, FailSendSame DEF Same, Submitting
<1>8. CASE r = [c |-> ParkSendOperation(e), taken |-> TRUE]
  <2>1. r.c = ParkSendOperation(e)
    BY <1>8
  <2>2. Same(e, ParkSendOperation(e), {"ops"}) /\ IsSocket(ParkSendOperation(e))
    BY <1>3 DEF ParkSendOperation, Same, IsSocket, Fields
  <2> QED  BY <1>5, <2>1, <2>2, SameOnward DEF Submitting
<1>9. CASE r \in CarrySend(e, TRUE, takes)
  <2>1. Same(e, r.c, Submitting) /\ IsSocket(r.c)
    BY <1>3, <1>9, CarrySame, Zenon
  <2> QED  BY <1>5, <2>1, SameOnward DEF Submitting
<1> QED  BY <1>4, <1>6, <1>7, <1>8, <1>9

\* What a completion may change: the last one shuts the socket down.
Completing == Submitting \cup Output \cup {"shut", "state"}

\* What the end of a transfer does of a shutdown that waited for it.
MaybeShut(c, p) == IF c.state = "Shutdown" /\ p.inFlight = 0 /\ p.tx.pending = 0
                   THEN ContinueShutdown(p) ELSE p

LEMMA ResolveOpsSame ==
  ASSUME NEW c, IsSocket(c), NEW buffer
  PROVE  Same(c, ResolveOpsForBuffer(c, buffer), {"ops", "held", "mail"})
         /\ IsSocket(ResolveOpsForBuffer(c, buffer))
<1>1. PICK ops, held, jobs :
        ResolveOpsForBuffer(c, buffer) = Post([c EXCEPT !.ops = ops, !.held = @ + held], jobs)
  BY DEF ResolveOpsForBuffer
<1> DEFINE d == [c EXCEPT !.ops = ops, !.held = @ + held]
<1>2. Same(c, d, {"ops", "held"}) /\ IsSocket(d)
  BY DEF Same, IsSocket, Fields
<1>3. ResolveOpsForBuffer(c, buffer) = Post(d, jobs)
  BY <1>1
<1> HIDE DEF d
<1>4. Same(d, Post(d, jobs), {"mail"}) /\ IsSocket(Post(d, jobs))
  BY <1>2, PostSame
<1> QED  BY ONLY <1>2, <1>3, <1>4, SameOnward

LEMMA ResolveSendReleaseSame ==
  ASSUME NEW c, IsSocket(c), NEW buffer
  PROVE  Same(c, ResolveSendRelease(c, buffer), Submitting)
         /\ IsSocket(ResolveSendRelease(c, buffer))
<1> DEFINE b == [c EXCEPT !.tx = ReleasePin(@, buffer)]
           d == ReleaseOpsForBuffer(b, buffer)
           e == [d EXCEPT !.windowPending = FALSE, !.tx = WithWindow(@, c.window)]
<1>1. Same(c, b, {"tx"}) /\ IsSocket(b)
  BY DEF Same, IsSocket, Fields
<1> HIDE DEF b
<1>2. PICK ops, jobs : d = Post([b EXCEPT !.ops = ops], jobs)
  BY DEF ReleaseOpsForBuffer
<1> DEFINE o == [b EXCEPT !.ops = ops]
<1>3. Same(b, o, {"ops"}) /\ IsSocket(o)
  BY <1>1 DEF Same, IsSocket, Fields
<1>4. d = Post(o, jobs)
  BY <1>2
<1> HIDE DEF o, d
<1>5. Same(o, d, {"mail"}) /\ IsSocket(d)
  BY <1>3, <1>4, PostSame
<1>6. Same(b, d, {"ops", "mail"})
  BY <1>3, <1>5, SameOnward
<1>7. Same(c, d, Submitting)
  BY <1>1, <1>6, SameOnward DEF Submitting
<1>8. Same(d, e, {"windowPending", "tx"}) /\ IsSocket(e)
  BY <1>5 DEF Same, IsSocket, Fields
<1>9. ResolveSendRelease(c, buffer) \in {d, e}
  BY DEF ResolveSendRelease, b, d
<1> HIDE DEF e
<1>10. Same(c, e, Submitting)
  BY <1>7, <1>8, SameOnward DEF Submitting
<1> QED  BY <1>5, <1>7, <1>8, <1>9, <1>10

LEMMA MaybeShutHolds ==
  ASSUME NEW c, NEW d, Hand(c), IsSocket(d), Same(c, d, Submitting)
  PROVE  /\ Hand(MaybeShut(c, d))
         /\ Same(c, MaybeShut(c, d), Completing)
<1>1. Same(c, d, Others) /\ Hand(d)
  BY SubmittingAre, OthersHold, HandHolds
<1>2. Same(c, ContinueShutdown(d), Completing)
  BY ContinueShutdownIs, SameOnward DEF Completing
<1>3. Same(c, d, Completing)
  BY DEF Same, Completing
<1>4. MaybeShut(c, d) \in {d, ContinueShutdown(d)}
  BY DEF MaybeShut
<1> QED  BY <1>1, <1>2, <1>3, <1>4, HandShutdown

LEMMA ResolveSendIs ==
  ASSUME NEW c, Hand(c), NEW transfer, NEW ok
  PROVE  LET r == ResolveSend(c, transfer, ok) IN
         Hand(r.c) /\ Same(c, r.c, Completing)
<1> DEFINE counted == [c EXCEPT !.inFlight = @ - 1]
           Told(p) == [p EXCEPT !.held = 0]
           drained == [counted EXCEPT !.tx = SendDrained(@, transfer)]
           p == ResolveOpsForBuffer(drained, transfer)
           marked == IF CanBeginSend(p) THEN p ELSE [p EXCEPT !.wasFull = TRUE]
           broke == [counted EXCEPT !.failed = TRUE]
<1>0. IsSocket(c)
  BY DEF Hand
<1>1. Same(c, counted, {"inFlight"}) /\ IsSocket(counted)
  BY <1>0 DEF Same, IsSocket, Fields
<1>2. Same(counted, drained, {"tx"}) /\ IsSocket(drained)
  <2> HIDE DEF counted
  <2> QED  BY <1>1 DEF Same, IsSocket, Fields
<1>3. Same(drained, p, {"ops", "held", "mail"}) /\ IsSocket(p)
  <2> HIDE DEF drained
  <2> QED  BY <1>2, ResolveOpsSame
<1>4. Same(counted, broke, {"failed"}) /\ IsSocket(broke)
  <2> HIDE DEF counted
  <2> QED  BY <1>1 DEF Same, IsSocket, Fields
<1>5. Same(p, marked, {"wasFull"}) /\ IsSocket(marked)
  <2> HIDE DEF p
  <2> QED  BY <1>3 DEF Same, IsSocket, Fields
<1>6. ASSUME NEW d, IsSocket(d)
      PROVE  Same(d, Told(d), {"held"}) /\ IsSocket(Told(d))
  BY <1>6 DEF Same, IsSocket, Fields
<1> DEFINE x == FailAllSendOperations(Told(broke))
           y == CheckBrokenState(Told(p))
           z == MaybeShut(c, Told(marked))
<1>7. ResolveSend(c, transfer, ok).c \in {x, counted, y, marked, z}
  <2>1. CASE ~ok
    BY <2>1 DEF ResolveSend
  <2>2. CASE ok /\ c.failed
    BY <2>2 DEF ResolveSend
  <2>3. CASE ok /\ ~c.failed
    <3>1. CASE Broken(p)
      <4>1. ResolveSend(c, transfer, ok).c = y
        BY <2>3, <3>1 DEF ResolveSend
      <4> QED  BY <4>1
    <3>2. CASE ~Broken(p)
      <4>1. ResolveSend(c, transfer, ok) =
              IF HasPendingOutput(marked) THEN [c |-> marked, over |-> FALSE, n |-> 0]
              ELSE [c |-> z, over |-> TRUE, n |-> marked.held]
        BY <2>3, <3>2 DEF ResolveSend, MaybeShut
      <4> HIDE DEF marked, z
      <4>2. ResolveSend(c, transfer, ok).c \in {marked, z}
        BY <4>1
      <4> QED  BY <4>2
    <3> QED  BY <3>1, <3>2
  <2> QED  BY <2>1, <2>2, <2>3
<1> HIDE DEF counted, drained, p, marked, broke
<1>8. Same(c, counted, Submitting)
  BY <1>1 DEF Same, Submitting
<1>9. Same(c, p, Submitting)
  <2>1. Same(c, drained, {"inFlight", "tx"})
    BY <1>1, <1>2, SameOnward
  <2> QED  BY <1>3, <2>1, SameOnward DEF Submitting
<1>10. Same(c, marked, Submitting)
  BY <1>5, <1>9, SameOnward DEF Submitting
<1>11. Same(c, x, Submitting) /\ IsSocket(x)
  <2>1. Same(c, broke, Submitting)
    BY <1>4, <1>8, SameOnward DEF Submitting
  <2>2. Same(broke, Told(broke), {"held"}) /\ IsSocket(Told(broke))
    BY <1>4, <1>6
  <2> HIDE DEF Told
  <2>3. Same(c, Told(broke), Submitting)
    BY <2>1, <2>2, SameOnward DEF Submitting
  <2>4. Same(Told(broke), x, {"ops", "mail"}) /\ IsSocket(x)
    BY <2>2, FailAllSame
  <2> QED  BY <2>3, <2>4, SameOnward DEF Submitting
<1>12. Same(c, y, Submitting) /\ IsSocket(y)
  <2>1. Same(p, Told(p), {"held"}) /\ IsSocket(Told(p))
    BY <1>3, <1>6
  <2> HIDE DEF Told
  <2>2. Same(c, Told(p), Submitting)
    BY <1>9, <2>1, SameOnward DEF Submitting
  <2>3. Same(Told(p), y, Events)
    BY <2>1, CheckBrokenSame
  <2> QED  BY <2>1, <2>2, <2>3, SameOnward, SocketStays DEF Submitting, Events
<1>13. Hand(z) /\ Same(c, z, Completing)
  <2>1. Same(marked, Told(marked), {"held"}) /\ IsSocket(Told(marked))
    BY <1>5, <1>6
  <2> HIDE DEF Told
  <2>2. Same(c, Told(marked), Submitting)
    BY <1>10, <2>1, SameOnward DEF Submitting
  <2> QED  BY <2>1, <2>2, MaybeShutHolds
<1> HIDE DEF x, y, z
<1>14. \A d : Same(c, d, Submitting) => Hand(d) /\ Same(c, d, Completing)
  <2> TAKE d
  <2> HAVE Same(c, d, Submitting)
  <2>1. Same(c, d, Others)
    BY SubmittingAre, OthersHold
  <2> QED  BY <2>1, HandHolds DEF Same, Completing
<1> QED  BY <1>7, <1>8, <1>10, <1>11, <1>12, <1>13, <1>14

-----------------------------------------------------------------------------
LEMMA ResolveHeldSame ==
  ASSUME NEW c, IsSocket(c), NEW room, stream \in Seq(RecordKinds)
  PROVE  Same(c, ResolveHeld(c, room).c, Transfer \cup Events) /\ IsSocket(ResolveHeld(c, room).c)
<1> DEFINE t == TryOpenInto(c, room)
           d == CheckBrokenState(t.c)
<1>1. Same(c, t.c, Transfer) /\ IsTurn(t)
  BY TryOpenSame
<1>2. Same(t.c, d, Events) /\ IsSocket(d)
  BY <1>1, CheckBrokenSame, SocketStays DEF IsTurn
<1>3. Same(c, d, Transfer \cup Events)
  BY <1>1, <1>2, SameOnward
<1>4. ResolveHeld(c, room).c \in {c, d}
  BY DEF ResolveHeld
<1> HIDE DEF t, d
<1> QED  BY <1>2, <1>3, <1>4, SameIs

LEMMA ResolveReceiveSame ==
  ASSUME NEW c, IsSocket(c), NEW segment, NEW room, stream \in Seq(RecordKinds)
  PROVE  LET r == ResolveReceiveSegment(c, segment, room) IN
         Same(c, r.c, Transfer \cup Events) /\ IsSocket(r.c)
<1> DEFINE b == IF segment.kind = "Data" THEN [c EXCEPT !.rx = AppendSegment(@, segment.data)] ELSE c
           t == TryOpenInto(b, room)
           f == FlushPending(t.c)
           d == CheckBrokenState(f)
           e == [d EXCEPT !.rx = CompactIfStalled(@)]
           q == [c EXCEPT !.rx = ClearCipherQueue(@)]
<1>1. Same(c, b, {"rx"}) /\ IsSocket(b) /\ Same(c, q, {"rx"}) /\ IsSocket(q)
  BY DEF Same, IsSocket, Fields
<1> HIDE DEF b, q
<1>2. Same(b, t.c, Transfer) /\ IsTurn(t)
  BY <1>1, TryOpenSame
<1> HIDE DEF t
<1>3. Same(t.c, f, Output \cup {"ssl"}) /\ IsSocket(f)
  BY <1>2, FlushPendingSame, SocketStays DEF IsTurn
<1>4. Same(f, d, Events) /\ IsSocket(d)
  BY <1>3, CheckBrokenSame, SocketStays
<1> HIDE DEF f, d
<1>5. Same(d, e, {"rx"}) /\ IsSocket(e)
  BY <1>4 DEF Same, IsSocket, Fields
<1> HIDE DEF e
<1>6. Same(c, t.c, Transfer)
  BY <1>1, <1>2, SameOnward DEF Transfer, Input
<1>7. Same(c, f, Transfer)
  BY <1>3, <1>6, SameOnward DEF Transfer
<1>8. Same(c, d, Transfer \cup Events)
  BY <1>4, <1>7, SameOnward
<1>9. Same(c, e, Transfer \cup Events)
  BY <1>5, <1>8, SameOnward DEF Transfer, Input
<1>10. Same(q, CheckBrokenState(q), Events) /\ IsSocket(CheckBrokenState(q))
  BY <1>1, CheckBrokenSame, SocketStays
<1>11. Same(c, CheckBrokenState(q), Transfer \cup Events)
  BY <1>1, <1>10, SameOnward DEF Transfer, Input
<1>12. ResolveReceiveSegment(c, segment, room).c \in {CheckBrokenState(q), d, e}
  BY DEF ResolveReceiveSegment, q, b, t, f, d, e
<1> QED  BY <1>4, <1>5, <1>8, <1>9, <1>10, <1>11, <1>12

\* A step that leaves the socket as c leaves the scenario alone.
ComesTo(c) == s' = c /\ scenario' = scenario

LEMMA StepLeaves ==
  ASSUME NEW c, NEW a, Step(c, a)
  PROVE  ComesTo(c)
BY DEF Step, ComesTo

LEMMA OutsideLeaves ==
  ASSUME NEW c, Outside(c)
  PROVE  ComesTo(c)
BY DEF Outside, ComesTo

\* What the socket may become: its handshake goes on, or it is as it was.
Goes == \E c : ComesTo(c) /\ Hand(c)

LEMMA HandGoes ==
  ASSUME NEW c, NEW a, Hand(c), Step(c, a)
  PROVE  Goes
BY StepLeaves DEF Goes

LEMMA FatalGoes ==
  ASSUME NEW c, NEW a, Hand(c), Fatal(c, a)
  PROVE  Goes
<1>1. Hand(Close(c))
  BY CloseSame, SubmittingAre, OthersHold, HandHolds DEF Hand
<1>2. \E b : Step(Close(c), b)
  BY DEF Fatal
<1> QED  BY <1>1, <1>2, HandGoes

LEMMA SubmittedGoes ==
  ASSUME NEW r, NEW a, NEW n, Hand(r.c), Submitted(r, a, n)
  PROVE  Goes
<1>1. (\E b : Step(r.c, b)) \/ Fatal(r.c, a)
  BY DEF Submitted
<1> QED  BY <1>1, FatalGoes, HandGoes

LEMMA ContinueGoes ==
  ASSUME NEW c, NEW a, Hand(c), NEW takes, NEW r \in ContinueSend(c, takes), Submitted(r, a, 0)
  PROVE  Goes
<1>1. Same(c, r.c, Submitting)
  BY ContinueSendSame DEF Hand
<1>2. Hand(r.c)
  BY <1>1, SubmittingAre, OthersHold, HandHolds
<1> QED  BY <1>2, SubmittedGoes

LEMMA DrainGoes ==
  ASSUME NEW c, NEW a, Hand(c), DrainSocketOutput(c, a)
  PROVE  Goes
<1>1. (\E takes \in Takes : \E r \in ContinueSend(c, takes) : Submitted(r, a, 0)) \/ Step(c, a)
  BY DEF DrainSocketOutput
<1> QED  BY <1>1, HandGoes, ContinueGoes

LEMMA CheckBrokenHand ==
  ASSUME NEW c, Hand(c)
  PROVE  Hand(CheckBrokenState(c))
BY CheckBrokenSame, OthersAre, OthersHold, HandHolds DEF Hand

LEMMA ActivateHand ==
  ASSUME NEW c, NEW a, Hand(c)
  PROVE  Hand(TryActivate(c, a).c)
<1> DEFINE d == Activated(c)
<1>1. Same(c, d, {"active", "tx", "rx"})
  <2>0. IsSocket(c)
    BY DEF Hand
  <2> QED  BY <2>0 DEF Activated, Same, IsSocket, Fields
<1>2. Hand(d)
  BY <1>1, OthersHold, HandHolds DEF Others, Fields
<1> HIDE DEF d
<1>3. TryActivate(c, a).c \in {c, d, CheckBrokenState(d)}
  BY DEF TryActivate, StartReceiveStream, d
<1> QED  BY <1>2, <1>3, CheckBrokenHand

LEMMA CheckHandshakeHand ==
  ASSUME NEW c, NEW a, Hand(c), Configured
  PROVE  Hand(CheckHandshake(c, a).c)
<1> DEFINE p == SendNothing(c)
<1>1. Hand(p)
  BY SendNothingIs
<1>2. CheckHandshake(c, a).c = c \/ CheckHandshake(c, a).c = p
        \/ \E b : CheckHandshake(c, a).c = TryActivate(p, b).c
  BY DEF CheckHandshake
<1> HIDE DEF p
<1> QED  BY <1>1, <1>2, ActivateHand

LEMMA AddHand ==
  ASSUME NEW c, Hand(c), NEW flags
  PROVE  Hand(AddTCPState(c, flags))
<1>1. Same(c, AddTCPState(c, flags), {"events"})
  BY AddTCPStateSame DEF Hand
<1> QED  BY <1>1, OthersHold, HandHolds DEF Others, Fields

\* A member that the handshake does not read may become anything.
LEMMA MemberHand ==
  ASSUME NEW c, NEW d, Hand(c), NEW F, F \subseteq Others, DOMAIN d = DOMAIN c,
         \A f \in DOMAIN c \ F : d[f] = c[f]
  PROVE  Hand(d)
<1>1. Same(c, d, F)
  BY DEF Same
<1> QED  BY <1>1, OthersHold, HandHolds

-----------------------------------------------------------------------------
LEMMA StartGoes ==
  ASSUME Hand(s), Configured, Start
  PROVE  Goes
<1>1. \E a : Step(AddTCPState(s, {"Read"}), a) \/ Step(HandleHandshake(s).c, a)
  BY DEF Start
<1>2. Hand(HandleHandshake(s).c)
  BY HandleHandshakeIs
<1> QED  BY <1>1, <1>2, AddHand, HandGoes

LEMMA ProcessStateGoes ==
  ASSUME Hand(s), ProcessState
  PROVE  Goes
<1> DEFINE d == [s EXCEPT !.events = {}]
<1>1. \E a : Step(d, a)
  BY DEF ProcessState
<1>2. Same(s, d, {"events"})
  BY DEF Hand, IsSocket, Same, Fields
<1>3. Hand(d)
  BY <1>2, OthersHold, HandHolds DEF Others, Fields
<1> QED  BY <1>1, <1>3, HandGoes

LEMMA ReceiveOnceGoes ==
  ASSUME Hand(s), Configured, ReceiveOnce
  PROVE  Goes
<1>1. \/ \E a : Step(TryActivate(s, actor).c, a)
      \/ \E room : Fatal(Receive(s, room).c, actor)
      \/ \E room, a : Step(CheckHandshake(Receive(s, room).c, actor).c, a)
  BY DEF ReceiveOnce
<1>2. \A room : Hand(Receive(s, room).c)
  BY ReceiveIs
<1>3. \A room : Hand(CheckHandshake(Receive(s, room).c, actor).c)
  BY <1>2, CheckHandshakeHand
<1>4. Hand(TryActivate(s, actor).c)
  BY ActivateHand
<1> QED  BY <1>1, <1>2, <1>3, <1>4, HandGoes, FatalGoes

LEMMA ProcessRestGoes ==
  ASSUME Hand(s), ProcessRest
  PROVE  Goes
<1>1. Fatal(s, actor) \/ \E a : Step(s, a)
  BY DEF ProcessRest
<1> QED  BY <1>1, HandGoes, FatalGoes

LEMMA SendHandshakeGoes ==
  ASSUME Hand(s), Configured, SendHandshake
  PROVE  Goes
<1> DEFINE d == CheckHandshake(s, actor).c
<1>1. \E a : Step(SendNothing(d), a) \/ Step(d, a)
  BY DEF SendHandshake
<1>2. Hand(d)
  BY CheckHandshakeHand
<1> HIDE DEF d
<1>3. Hand(SendNothing(d))
  BY <1>2, SendNothingIs
<1> QED  BY <1>1, <1>2, <1>3, HandGoes

LEMMA SendReadyGoes ==
  ASSUME Hand(s), Configured, SendReady
  PROVE  Goes
<1>1. \/ \E n \in Nat : \/ Fatal(SendVectored(s, n).c, actor)
                        \/ \E a : Step(SendVectored(s, n).c, a)
      \/ \E a : Step(s, a) \/ Step(SendNothing(s), a)
  <2>1. CASE Queued(actor) > 0
    <3> DEFINE v(n) == SendVectored(s, n)
               a(n) == [At(actor, IF v(n).sent = n THEN "Sending" ELSE "Sent") EXCEPT
                          !.credited = @ + v(n).sent, !.did = TRUE]
    <3>0. \E n \in 1 .. SendMost :
            IF v(n).is = "Thrown" THEN Fatal(v(n).c, actor) ELSE Step(v(n).c, a(n))
      <4>1. ~(Queued(actor) = 0)
        BY <2>1
      <4> QED  BY <2>1, <4>1, Zenon DEF SendReady
    <3> HIDE DEF v, a
    <3>1. PICK n \in 1 .. SendMost : Fatal(v(n).c, actor) \/ \E b : Step(v(n).c, b)
      BY <3>0
    <3>2. n \in Nat
      BY TlsAssumption
    <3> QED  BY <3>1, <3>2 DEF v
  <2>2. CASE ~(Queued(actor) > 0)
    <3>1. Step(IF actor.did THEN s ELSE SendNothing(s), At(actor, "Sent"))
      BY <2>2 DEF SendReady
    <3>2. Step(s, At(actor, "Sent")) \/ Step(SendNothing(s), At(actor, "Sent"))
      BY <3>1
    <3> QED  BY <3>2
  <2> QED  BY <2>1, <2>2
<1>2. \A n \in Nat : Hand(SendVectored(s, n).c)
  BY SendVectoredIs
<1>3. Hand(SendNothing(s))
  BY SendNothingIs
<1> QED  BY <1>1, <1>2, <1>3, HandGoes, FatalGoes

LEMMA AskedHand ==
  ASSUME Hand(s), NEW c \in Asked
  PROVE  Hand(c)
<1>1. c = s \/ c \in AskedWindow(s)
  BY DEF Asked
<1>2. c = s \/ \E tx : c = [s EXCEPT !.wasFull = FALSE, !.tx = tx]
  BY <1>1 DEF AskedWindow
<1>3. ASSUME NEW tx, c = [s EXCEPT !.wasFull = FALSE, !.tx = tx] PROVE Hand(c)
  <2>1. Same(s, c, {"wasFull", "tx"})
    BY <1>3 DEF Hand, IsSocket, Same, Fields
  <2> QED  BY <2>1, OthersHold, HandHolds DEF Others, Fields
<1> QED  BY <1>2, <1>3

LEMMA SubmitOnceGoes ==
  ASSUME Hand(s), SubmitOnce
  PROVE  Goes
<1>1. PICK c \in Asked :
        \E n, k, takes : \E r \in SubmitSend(c, n, k, takes) : Submitted(r, actor, k)
  BY DEF SubmitOnce
<1>2. PICK n, k, takes : \E r \in SubmitSend(c, n, k, takes) : Submitted(r, actor, k)
  BY <1>1
<1>6. PICK r \in SubmitSend(c, n, k, takes) : Submitted(r, actor, k)
  BY <1>2
<1>3. Hand(c)
  BY AskedHand
<1>4. Same(c, r.c, Submitting)
  BY <1>3, SubmitSendSame DEF Hand
<1>5. Hand(r.c)
  BY <1>3, <1>4, SubmittingAre, OthersHold, HandHolds
<1> QED  BY <1>5, <1>6, SubmittedGoes

LEMMA StopSubmittingGoes ==
  ASSUME Hand(s), StopSubmitting
  PROVE  Goes
<1>1. PICK c \in Asked : Step(c, At(actor, "Sent"))
  BY DEF StopSubmitting
<1> QED  BY <1>1, AskedHand, HandGoes

LEMMA ShutDownGoes ==
  ASSUME Hand(s), NEW a, ShutDown(s, a)
  PROVE  Goes
<1>1. \E b : DrainSocketOutput(Shutdown(s), b)
  BY DEF ShutDown
<1> QED  BY <1>1, HandShutdown, DrainGoes

LEMMA FinishSendGoes ==
  ASSUME Hand(s), FinishSend
  PROVE  Goes
<1>1. ShutDown(s, At(actor, "Draining")) \/ DrainSocketOutput(s, At(actor, "Draining"))
  BY DEF FinishSend
<1> QED  BY <1>1, ShutDownGoes, DrainGoes

LEMMA FinishDrainGoes ==
  ASSUME Hand(s), FinishDrain
  PROVE  Goes
BY DrainGoes DEF FinishDrain

LEMMA AppClosesGoes ==
  ASSUME Hand(s), AppCloses
  PROVE  Goes
<1>1. \E a : ShutDown(s, a) \/ Step(s, a)
  BY DEF AppCloses
<1> QED  BY <1>1, ShutDownGoes, HandGoes

LEMMA AppSetsWindowGoes ==
  ASSUME Hand(s), AppSetsWindow
  PROVE  Goes
<1>1. PICK n : Step(SetSendWindow(s, n), actor)
  BY DEF AppSetsWindow
<1>2. Same(s, SetSendWindow(s, n), {"window", "windowPending", "tx"})
  BY DEF SetSendWindow, Hand, IsSocket, Same, Fields
<1>3. Hand(SetSendWindow(s, n))
  BY <1>2, OthersHold, HandHolds DEF Others, Fields
<1> QED  BY <1>1, <1>3, HandGoes

LEMMA SendCompletedGoes ==
  ASSUME Hand(s), SendCompleted
  PROVE  Goes
<1> DEFINE job == Head(s.mail)
           c == [s EXCEPT !.mail = Tail(@)]
           r == IF job.transfer = None THEN [c |-> c, over |-> TRUE, n |-> job.n]
                ELSE ResolveSend(c, job.transfer, job.ok)
<1>1. \/ \E a : Step(c, a) \/ Fatal(r.c, a) \/ Step(r.c, a)
      \/ \E a, takes : \E result \in ContinueSend(r.c, takes) : Submitted(result, a, 0)
  <2> HIDE DEF r
  <2>1. CASE ~actor.valid
    BY <2>1 DEF SendCompleted
  <2>2. CASE actor.valid
    <3>1. CASE ~r.over
      BY <2>2, <3>1 DEF SendCompleted, r
    <3>2. CASE r.over /\ ~job.ok
      BY <2>2, <3>2 DEF SendCompleted, r
    <3>3. CASE r.over /\ job.ok
      BY <2>2, <3>3 DEF SendCompleted, r
    <3> QED  BY <3>1, <3>2, <3>3
  <2> QED  BY <2>1, <2>2
<1>2. Same(s, c, {"mail"})
  BY DEF Hand, IsSocket, Same, Fields
<1>3. Hand(c)
  BY <1>2, OthersHold, HandHolds DEF Others, Fields
<1>4. r.c = c \/ r.c = ResolveSend(c, job.transfer, job.ok).c
  BY DEF r
<1> HIDE DEF r, c, job
<1>5. Hand(ResolveSend(c, job.transfer, job.ok).c)
  BY <1>3, ResolveSendIs, Zenon
<1>6. Hand(r.c)
  BY <1>3, <1>4, <1>5
<1> QED  BY <1>1, <1>3, <1>6, HandGoes, FatalGoes, ContinueGoes

LEMMA SendBufferReleasedGoes ==
  ASSUME Hand(s), SendBufferReleased
  PROVE  Goes
<1> DEFINE job == Head(s.mail)
           c == [s EXCEPT !.mail = Tail(@)]
<1>1. \E a : Step(c, a) \/ Step(ResolveSendRelease(c, job.transfer), a)
  BY DEF SendBufferReleased
<1>2. Same(s, c, {"mail"})
  BY DEF Hand, IsSocket, Same, Fields
<1>3. Hand(c)
  BY <1>2, OthersHold, HandHolds DEF Others, Fields
<1> HIDE DEF c, job
<1>4. Same(c, ResolveSendRelease(c, job.transfer), Submitting)
  BY <1>3, ResolveSendReleaseSame DEF Hand
<1>5. Hand(ResolveSendRelease(c, job.transfer))
  BY <1>3, <1>4, SubmittingAre, OthersHold, HandHolds
<1> QED  BY <1>1, <1>3, <1>5, HandGoes

LEMMA InputOthers == Transfer \cup Events \subseteq Others
BY OthersAre

LEMMA ReceiveSegmentGoes ==
  ASSUME Hand(s), Configured, ReceiveSegment
  PROVE  Goes
<1>1. PICK room, a, segment : Step(ResolveReceiveSegment(s, segment, room).c, a)
  BY DEF ReceiveSegment
<1>2. stream \in Seq(RecordKinds)
  BY ScenarioIs DEF Configured
<1>3. Same(s, ResolveReceiveSegment(s, segment, room).c, Transfer \cup Events)
  BY <1>2, ResolveReceiveSame DEF Hand
<1>4. Hand(ResolveReceiveSegment(s, segment, room).c)
  BY <1>3, InputOthers, OthersHold, HandHolds
<1> QED  BY <1>1, <1>4, HandGoes

LEMMA ReceiveHeldGoes ==
  ASSUME Hand(s), Configured, ReceiveHeld
  PROVE  Goes
<1>1. PICK room, a : Step(ResolveHeld(s, room).c, a)
  BY DEF ReceiveHeld
<1>2. stream \in Seq(RecordKinds)
  BY ScenarioIs DEF Configured
<1>3. Same(s, ResolveHeld(s, room).c, Transfer \cup Events)
  BY <1>2, ResolveHeldSame DEF Hand
<1>4. Hand(ResolveHeld(s, room).c)
  BY <1>3, InputOthers, OthersHold, HandHolds
<1> QED  BY <1>1, <1>4, HandGoes

LEMMA DrainHeldGoes ==
  ASSUME Hand(s), DrainHeldInput
  PROVE  Goes
<1>1. \E a : Step(s, a)
  BY DEF DrainHeldInput
<1> QED  BY <1>1, HandGoes

LEMMA EndInputGoes ==
  ASSUME Hand(s), EndInput
  PROVE  Goes
<1>1. \E a : Fatal(s, a) \/ Step(s, a) \/ DrainSocketOutput(s, a)
  BY DEF EndInput
<1> QED  BY <1>1, HandGoes, FatalGoes, DrainGoes

LEMMA ActorGoes ==
  ASSUME Hand(s), Configured, ActorStep
  PROVE  Goes
BY StartGoes, ProcessStateGoes, ReceiveOnceGoes, ProcessRestGoes, SendHandshakeGoes,
   SendReadyGoes, SubmitOnceGoes, StopSubmittingGoes, FinishSendGoes, FinishDrainGoes,
   SendCompletedGoes, SendBufferReleasedGoes, ReceiveSegmentGoes, DrainHeldGoes,
   ReceiveHeldGoes, EndInputGoes DEF ActorStep

LEMMA OutsideGoes ==
  ASSUME NEW c, Hand(s), Outside(c), NEW F, Same(s, c, F), F \subseteq Others
  PROVE  Goes
BY OthersHold, HandHolds, OutsideLeaves DEF Goes

LEMMA FieldsOther ==
  {"events", "room", "armed", "wire", "kernel", "mail", "taken", "ended"} \subseteq Others
BY DEF Others, Fields

LEMMA WorldGoes ==
  ASSUME Hand(s), World \/ PeerEnds \/ SocketLost
  PROVE  Goes
<1>0. IsSocket(s)
  BY DEF Hand
<1>1. Same(s, s, {}) /\ \A flags : Same(s, AddTCPState(s, flags), {"events"})
  BY <1>0, SameIs, AddTCPStateSame
<1>2. CASE PeerWrites
  <2>1. Outside(s) \/ Outside(AddTCPState(s, {"Read"}))
    BY <1>2 DEF PeerWrites
  <2> QED  BY <1>1, <2>1, OutsideGoes, FieldsOther
<1>3. CASE PeerEnds
  <2>1. Outside(s) \/ Outside(AddTCPState(s, {"Read"}))
    BY <1>3 DEF PeerEnds
  <2> QED  BY <1>1, <2>1, OutsideGoes, FieldsOther
<1>4. CASE PeerReads
  <2>1. PICK c : Outside(c) /\ c \in
          {[AddTCPState(s, {"Write"}) EXCEPT !.room = scenario.room, !.armed = FALSE],
           [s EXCEPT !.room = scenario.room]}
    BY <1>4 DEF PeerReads
  <2>2. Same(s, c, {"events", "room", "armed"})
    BY <1>0, <2>1 DEF AddTCPState, IsSocket, Same, Fields
  <2> QED  BY <2>1, <2>2, OutsideGoes, FieldsOther
<1>5. CASE SocketLost
  <2>1. Outside(AddTCPState(s, {"Read", "Write"}))
    BY <1>5 DEF SocketLost
  <2> QED  BY <1>1, <2>1, OutsideGoes, FieldsOther
<1>6. CASE KernelWrites
  <2>1. PICK c, i : Outside(c) /\ c = [s EXCEPT
                     !.wire = Append(@, Head(s.kernel[i].records)),
                     !.room = @ - 1,
                     !.kernel[i].records = Tail(@)]
    BY <1>6 DEF KernelWrites
  <2>2. Same(s, c, {"wire", "room", "kernel"})
    BY <1>0, <2>1 DEF IsSocket, Same, Fields
  <2> QED  BY <2>1, <2>2, OutsideGoes, FieldsOther
<1>7. CASE KernelCompletes
  <2>1. PICK i, jobs : Outside(Post([s EXCEPT !.kernel[i].stage = "Completed"], jobs))
    BY <1>7 DEF KernelCompletes
  <2>2. Same(s, Post([s EXCEPT !.kernel[i].stage = "Completed"], jobs), {"mail", "kernel"})
    BY <1>0 DEF Post, IsSocket, Same, Fields
  <2> QED  BY <2>1, <2>2, OutsideGoes, FieldsOther
<1>8. CASE KernelReleases
  <2>1. PICK i, jobs : Outside(Post([s EXCEPT !.kernel = First(s.kernel, i - 1) \o From(s.kernel, i)], jobs))
    BY <1>8 DEF KernelReleases
  <2>2. Same(s, Post([s EXCEPT !.kernel = First(s.kernel, i - 1) \o From(s.kernel, i)], jobs),
             {"mail", "kernel"})
    BY <1>0 DEF Post, IsSocket, Same, Fields
  <2> QED  BY <2>1, <2>2, OutsideGoes, FieldsOther
<1>9. CASE LoopReads
  <2>1. PICK n : Outside([s EXCEPT !.taken = @ + n])
    BY <1>9 DEF LoopReads
  <2>2. Same(s, [s EXCEPT !.taken = @ + n], {"taken"})
    BY <1>0 DEF IsSocket, Same, Fields
  <2> QED  BY <2>1, <2>2, OutsideGoes, FieldsOther
<1>10. CASE LoopEnds
  <2>1. Outside([s EXCEPT !.ended = TRUE])
    BY <1>10 DEF LoopEnds
  <2>2. Same(s, [s EXCEPT !.ended = TRUE], {"ended"})
    BY <1>0 DEF IsSocket, Same, Fields
  <2> QED  BY <2>1, <2>2, OutsideGoes, FieldsOther
<1> QED  BY <1>2, <1>3, <1>4, <1>5, <1>6, <1>7, <1>8, <1>9, <1>10 DEF World

\* The handshake of the socket, of a scenario that is assumed.
HandshakeInv == Configured /\ Hand(s)

LEMMA NewSocketHand ==
  Hand(NewSocket)
<1>1. IsSocket(NewSocket)
  BY DEF NewSocket, IsSocket, Fields
<1>2. NewSocket.state \in Handshaking /\ NewSocket.script = Script /\ NewSocket.connected = FALSE
  BY DEF NewSocket, FirstState, Handshaking
<1>3. Shaken(NewSocket)
  BY <1>2, ScriptIs DEF Shaken
<1> QED  BY <1>1, <1>2, <1>3 DEF Hand, States, Handshaking

LEMMA HandshakeStays ==
  HandshakeInv /\ [Next]_vars => HandshakeInv'
<1> SUFFICES ASSUME HandshakeInv, [Next]_vars PROVE HandshakeInv'
  OBVIOUS
<1>0. Hand(s) /\ Configured
  BY DEF HandshakeInv
<1>1. CASE UNCHANGED vars
  BY <1>1 DEF HandshakeInv, Configured, Hand, Shaken, Settled, Checked, Report, Kept, vars
<1>2. CASE Next
  <2>1. Goes
    BY <1>0, <1>2, ActorGoes, WorldGoes, AppClosesGoes, AppSetsWindowGoes DEF Next
  <2>2. PICK c : s' = c /\ scenario' = scenario /\ Hand(c)
    BY <2>1 DEF Goes, ComesTo
  <2>3. Hand(s)'
    BY <2>2 DEF Hand, Shaken, Settled, Checked, Report, Kept
  <2>4. Configured'
    BY <1>0, <2>2 DEF Configured
  <2> QED  BY <2>3, <2>4 DEF HandshakeInv
<1> QED  BY <1>1, <1>2

\* A connection is established only to a peer the settings promise, whatever the
\* owner, the peer and the platform do.
THEOREM AcceptedAsConfiguredSafe == Spec => []AcceptedAsConfigured
<1>1. Init => HandshakeInv
  BY NewSocketHand DEF Init, HandshakeInv, Configured
<1>2. HandshakeInv => AcceptedAsConfigured
  BY DEF HandshakeInv, Hand, AcceptedAsConfigured, Kept
<1> QED  BY <1>1, <1>2, HandshakeStays, PTL DEF Spec

-----------------------------------------------------------------------------
(* Sequences: what is left of one, intervals, and those put together.      *)

LEMMA FromIs ==
  ASSUME NEW S, NEW q \in Seq(S), NEW n \in 0 .. Len(q)
  PROVE  /\ From(q, n) \in Seq(S) /\ Len(From(q, n)) = Len(q) - n
         /\ \A i \in 1 .. Len(q) - n : From(q, n)[i] = q[n + i]
<1>1. Len(q) \in Nat /\ n \in Nat /\ n <= Len(q)
  OBVIOUS
<1>2. \A i \in n + 1 .. Len(q) : q[i] \in S
  OBVIOUS
<1>3. /\ SubSeq(q, n + 1, Len(q)) \in Seq(S)
      /\ Len(SubSeq(q, n + 1, Len(q))) = IF n + 1 <= Len(q) THEN Len(q) - (n + 1) + 1 ELSE 0
      /\ \A i \in 1 .. Len(q) - (n + 1) + 1 : SubSeq(q, n + 1, Len(q))[i] = q[n + 1 + i - 1]
  BY <1>1, <1>2, SubSeqProperties
<1> QED  BY <1>1, <1>3 DEF From

LEMMA FirstIs ==
  ASSUME NEW S, NEW q \in Seq(S), NEW n \in 0 .. Len(q)
  PROVE  /\ First(q, n) \in Seq(S) /\ Len(First(q, n)) = n
         /\ \A i \in 1 .. n : First(q, n)[i] = q[i]
<1>1. Len(q) \in Nat /\ n \in Nat /\ n <= Len(q)
  OBVIOUS
<1>2. \A i \in 1 .. n : q[i] \in S
  OBVIOUS
<1>3. /\ SubSeq(q, 1, n) \in Seq(S)
      /\ Len(SubSeq(q, 1, n)) = IF 1 <= n THEN n - 1 + 1 ELSE 0
      /\ \A i \in 1 .. n - 1 + 1 : SubSeq(q, 1, n)[i] = q[1 + i - 1]
  BY <1>1, <1>2, SubSeqProperties
<1> QED  BY <1>1, <1>3 DEF First

\* One behind the other.
Joined(p, q) == p \o q

LEMMA JoinedIs ==
  ASSUME NEW S, NEW p \in Seq(S), NEW q \in Seq(S)
  PROVE  /\ Joined(p, q) \in Seq(S) /\ Len(Joined(p, q)) = Len(p) + Len(q)
         /\ \A i \in 1 .. Len(p) : Joined(p, q)[i] = p[i]
         /\ \A i \in 1 .. Len(q) : Joined(p, q)[Len(p) + i] = q[i]
<1>0. Len(p) \in Nat /\ Len(q) \in Nat
  OBVIOUS
<1>1. /\ p \o q \in Seq(S) /\ Len(p \o q) = Len(p) + Len(q)
      /\ \A i \in 1 .. Len(p) + Len(q) : (p \o q)[i] = IF i <= Len(p) THEN p[i] ELSE q[i - Len(p)]
  BY ConcatProperties
<1>2. PICK j : j = p \o q
  OBVIOUS
<1>3. /\ j \in Seq(S) /\ Len(j) = Len(p) + Len(q)
      /\ \A i \in 1 .. Len(p) + Len(q) : j[i] = IF i <= Len(p) THEN p[i] ELSE q[i - Len(p)]
  BY <1>1, <1>2
<1>4. \A i \in 1 .. Len(p) : j[i] = p[i]
  BY <1>0, <1>3
<1>5. \A i \in 1 .. Len(q) : j[Len(p) + i] = q[i]
  BY <1>0, <1>3
<1>6. Joined(p, q) = j
  BY <1>2 DEF Joined
<1> QED  BY <1>3, <1>4, <1>5, <1>6

LEMMA JoinedNone ==
  ASSUME NEW S, NEW p \in Seq(S)
  PROVE  Joined(p, <<>>) = p /\ Joined(<<>>, p) = p
BY ConcatEmptySeq DEF Joined

LEMMA JoinedNothing == Joined(<<>>, <<>>) = <<>>
<1>1. <<>> \in Seq(Nat)
  OBVIOUS
<1> QED  BY <1>1, JoinedNone

LEMMA JoinedBoth ==
  ASSUME NEW S, NEW p \in Seq(S), NEW q \in Seq(S), NEW r \in Seq(S)
  PROVE  Joined(Joined(p, q), r) = Joined(p, Joined(q, r))
<1>1. (p \o q) \o r = p \o (q \o r)
  BY SMTT(60), ConcatAssociative
<1> QED  BY <1>1, Zenon DEF Joined

LEMMA JoinedAppend ==
  ASSUME NEW S, NEW p \in Seq(S), NEW q \in Seq(S), NEW x \in S
  PROVE  Joined(p, Append(q, x)) = Append(Joined(p, q), x)
<1>1. Append(q, x) = Joined(q, <<x>>)
  BY AppendIsConcat DEF Joined
<1>2. Joined(p, q) \in Seq(S) /\ <<x>> \in Seq(S)
  BY JoinedIs
<1>3. PICK j \in Seq(S) : j = Joined(p, q)
  BY <1>2
<1>4. Append(j, x) = Joined(j, <<x>>)
  BY AppendIsConcat DEF Joined
<1>5. PICK e \in Seq(S) : e = <<x>>
  BY <1>2
<1>6. Joined(Joined(p, q), e) = Joined(p, Joined(q, e))
  BY JoinedBoth
<1> QED  BY <1>1, <1>3, <1>4, <1>5, <1>6

LEMMA SplitAt ==
  ASSUME NEW S, NEW q \in Seq(S), NEW n \in 0 .. Len(q)
  PROVE  Joined(First(q, n), From(q, n)) = q
<1>0. Len(q) \in Nat /\ n \in Nat /\ n <= Len(q)
  OBVIOUS
<1>1. PICK a \in Seq(S) : a = First(q, n) /\ Len(a) = n /\ \A i \in 1 .. n : a[i] = q[i]
  BY FirstIs
<1>2. PICK b \in Seq(S) : b = From(q, n) /\ Len(b) = Len(q) - n
                          /\ \A i \in 1 .. Len(q) - n : b[i] = q[n + i]
  BY FromIs
<1>3. PICK j \in Seq(S) : /\ j = Joined(a, b) /\ Len(j) = Len(a) + Len(b)
                          /\ \A i \in 1 .. Len(a) : j[i] = a[i]
                          /\ \A i \in 1 .. Len(b) : j[Len(a) + i] = b[i]
  <2>1. Joined(a, b) \in Seq(S) /\ Len(Joined(a, b)) = Len(a) + Len(b)
    BY JoinedIs
  <2>2. \A i \in 1 .. Len(a) : Joined(a, b)[i] = a[i]
    BY JoinedIs
  <2>3. \A i \in 1 .. Len(b) : Joined(a, b)[Len(a) + i] = b[i]
    BY JoinedIs
  <2> QED  BY <2>1, <2>2, <2>3
<1>4. \A i \in 1 .. Len(q) : j[i] = q[i]
  <2> TAKE i \in 1 .. Len(q)
  <2>1. CASE i <= n
    BY <1>0, <1>1, <1>3, <2>1
  <2>2. CASE i > n
    <3>1. i - n \in 1 .. Len(b) /\ i = Len(a) + (i - n)
      BY <1>0, <1>1, <1>2, <2>2
    <3>2. j[Len(a) + (i - n)] = b[i - n]
      BY <1>3, <3>1
    <3>3. b[i - n] = q[n + (i - n)]
      BY <1>2, <3>1
    <3>4. n + (i - n) = i
      BY <1>0
    <3> QED  BY <3>1, <3>2, <3>3, <3>4
  <2>3. i <= n \/ i > n
    BY <1>0
  <2> QED  BY <2>1, <2>2, <2>3
<1>5. Len(j) = Len(q)
  BY <1>0, <1>1, <1>2, <1>3
<1> QED  BY <1>1, <1>2, <1>3, <1>4, <1>5, SeqEqual

LEMMA IntervalIs ==
  ASSUME NEW a \in Nat, NEW n \in Nat
  PROVE  /\ Interval(a, n) \in Seq(Nat) /\ Len(Interval(a, n)) = n
         /\ \A i \in 1 .. n : Interval(a, n)[i] = a + i
BY DEF Interval

\* A sequence is an interval when each element is as far on as it stands.
LEMMA IsInterval ==
  ASSUME NEW a \in Nat, NEW q \in Seq(Nat), \A i \in 1 .. Len(q) : q[i] = a + i
  PROVE  q = Interval(a, Len(q))
<1>1. Len(q) \in Nat
  OBVIOUS
<1>2. PICK n \in Nat : n = Len(q)
  BY <1>1
<1>3. /\ Interval(a, n) \in Seq(Nat) /\ Len(Interval(a, n)) = n
      /\ \A i \in 1 .. n : Interval(a, n)[i] = a + i
  BY IntervalIs
<1>4. PICK r : r = Interval(a, n)
  OBVIOUS
<1>5. q = r
  BY <1>2, <1>3, <1>4, SeqEqual
<1> QED  BY <1>2, <1>4, <1>5

LEMMA IntervalNone ==
  ASSUME NEW a \in Nat
  PROVE  Interval(a, 0) = <<>>
BY IntervalIs

LEMMA IntervalJoin ==
  ASSUME NEW a \in Nat, NEW n \in Nat, NEW m \in Nat
  PROVE  Joined(Interval(a, n), Interval(a + n, m)) = Interval(a, n + m)
<1>1. PICK p \in Seq(Nat) : p = Interval(a, n) /\ Len(p) = n /\ \A i \in 1 .. n : p[i] = a + i
  BY IntervalIs
<1>2. PICK e \in Nat : e = a + n
  OBVIOUS
<1>3. PICK q \in Seq(Nat) : q = Interval(e, m) /\ Len(q) = m /\ \A i \in 1 .. m : q[i] = e + i
  BY IntervalIs
<1>4. PICK j \in Seq(Nat) : /\ j = Joined(p, q) /\ Len(j) = Len(p) + Len(q)
                            /\ \A i \in 1 .. Len(p) : j[i] = p[i]
                            /\ \A i \in 1 .. Len(q) : j[Len(p) + i] = q[i]
  <2>1. Joined(p, q) \in Seq(Nat) /\ Len(Joined(p, q)) = Len(p) + Len(q)
    BY JoinedIs
  <2>2. \A i \in 1 .. Len(p) : Joined(p, q)[i] = p[i]
    BY JoinedIs
  <2>3. \A i \in 1 .. Len(q) : Joined(p, q)[Len(p) + i] = q[i]
    BY JoinedIs
  <2> QED  BY <2>1, <2>2, <2>3
<1>5. \A i \in 1 .. Len(j) : j[i] = a + i
  <2> TAKE i \in 1 .. Len(j)
  <2>0. Len(j) = n + m /\ i \in Nat
    BY <1>1, <1>3, <1>4
  <2>1. CASE i <= n
    BY <1>1, <1>4, <2>0, <2>1
  <2>2. CASE i > n
    <3>1. PICK k \in 1 .. m : i = n + k
      <4>1. i - n \in 1 .. m /\ i = n + (i - n)
        BY <2>0, <2>2
      <4> QED  BY <4>1
    <3>2. j[n + k] = q[k] /\ q[k] = e + k
      BY <1>1, <1>3, <1>4, <3>1
    <3> QED  BY <1>2, <3>1, <3>2
  <2>3. i <= n \/ i > n
    BY <2>0
  <2> QED  BY <2>1, <2>2, <2>3
<1>6. j = Interval(a, Len(j))
  BY <1>5, IsInterval
<1>7. Len(j) = n + m
  BY <1>1, <1>3, <1>4
<1> QED  BY <1>1, <1>2, <1>3, <1>4, <1>6, <1>7

LEMMA IntervalCut ==
  ASSUME NEW a \in Nat, NEW n \in Nat, NEW m \in 0 .. n
  PROVE  /\ From(Interval(a, n), m) = Interval(a + m, n - m)
         /\ First(Interval(a, n), m) = Interval(a, m)
<1> DEFINE p == Interval(a, n)
<1>1. p \in Seq(Nat) /\ Len(p) = n /\ \A i \in 1 .. n : p[i] = a + i
  BY IntervalIs
<1> HIDE DEF p
<1>2. /\ From(p, m) \in Seq(Nat) /\ Len(From(p, m)) = n - m
      /\ \A i \in 1 .. n - m : From(p, m)[i] = p[m + i]
  BY ZenonT(60), <1>1, FromIs
<1>3. /\ First(p, m) \in Seq(Nat) /\ Len(First(p, m)) = m
      /\ \A i \in 1 .. m : First(p, m)[i] = p[i]
  BY <1>1, FirstIs
<1>4. From(p, m) = Interval(a + m, Len(From(p, m)))
  <2>1. a + m \in Nat
    OBVIOUS
  <2>2. \A i \in 1 .. Len(From(p, m)) : From(p, m)[i] = (a + m) + i
    BY <1>1, <1>2
  <2> QED  BY <1>2, <2>1, <2>2, IsInterval
<1>5. First(p, m) = Interval(a, Len(First(p, m)))
  <2>1. \A i \in 1 .. Len(First(p, m)) : First(p, m)[i] = a + i
    BY <1>1, <1>3
  <2> QED  BY <1>3, <2>1, IsInterval
<1> QED  BY <1>2, <1>3, <1>4, <1>5 DEF p

-----------------------------------------------------------------------------
IsJoinLoop(f, n, r) ==
  r = [k \in 0 .. n |-> IF k = 0 THEN <<>> ELSE Joined(r[k - 1], f[k])]

LEMMA JoinLoopIs ==
  ASSUME NEW f, NEW n \in Nat, NEW r, IsJoinLoop(f, n, r)
  PROVE  r[0] = <<>> /\ \A k \in 1 .. n : r[k] = Joined(r[k - 1], f[k])
<1> DEFINE g(k) == IF k = 0 THEN <<>> ELSE Joined(r[k - 1], f[k])
<1>1. r = [k \in 0 .. n |-> g(k)]
  BY Zenon DEF IsJoinLoop
<1> HIDE DEF g
<1>2. \A k \in 0 .. n : r[k] = g(k)
  BY <1>1
<1>3. r[0] = g(0) /\ \A k \in 1 .. n : r[k] = g(k)
  BY <1>2
<1>4. \A k \in 1 .. n : ~(k = 0)
  OBVIOUS
<1>5. g(0) = <<>> /\ \A k \in 1 .. n : g(k) = Joined(r[k - 1], f[k])
  BY <1>4 DEF g
<1> QED  BY <1>3, <1>5

LEMMA JoinLoopExists ==
  ASSUME NEW f, NEW n \in Nat
  PROVE  \E r : IsJoinLoop(f, n, r)
<1> DEFINE g(r, k) == IF k = 0 THEN <<>> ELSE Joined(r[k - 1], f[k])
           Is(r, m) == DOMAIN r = 0 .. m /\ r = [k \in DOMAIN r |-> r[k]]
                       /\ \A k \in 0 .. m : r[k] = g(r, k)
           S == {m \in Nat : \E r : Is(r, m)}
<1>0. \A r, m : Is(r, m) => r = [k \in 0 .. m |-> g(r, k)]
  <2> HIDE DEF g
  <2> QED  OBVIOUS
<1>1. 0 \in S
  <2>1. Is([k \in 0 .. 0 |-> <<>>], 0)
    OBVIOUS
  <2> QED  BY <2>1
<1>2. ASSUME NEW m \in S PROVE m + 1 \in S
  <2>1. PICK t : Is(t, m)
    OBVIOUS
  <2> DEFINE more == Joined(t[m], f[m + 1])
             u == [k \in 0 .. m + 1 |-> IF k <= m THEN t[k] ELSE more]
  <2>2. \A k \in 0 .. m : u[k] = t[k]
    OBVIOUS
  <2>3. u[m + 1] = more /\ u[m] = t[m]
    OBVIOUS
  <2>4. DOMAIN u = 0 .. m + 1 /\ u = [k \in DOMAIN u |-> u[k]]
    OBVIOUS
  <2> HIDE DEF u
  <2>5. \A k \in 0 .. m : u[k] = g(u, k)
    <3> TAKE k \in 0 .. m
    <3>1. u[k] = t[k] /\ t[k] = g(t, k)
      BY <2>1, <2>2
    <3>2. CASE k = 0
      BY <3>1, <3>2
    <3>3. CASE k # 0
      <4>1. k - 1 \in 0 .. m
        BY <3>3
      <4>2. u[k - 1] = t[k - 1]
        BY <2>2, <4>1
      <4>3. g(t, k) = Joined(t[k - 1], f[k]) /\ g(u, k) = Joined(u[k - 1], f[k])
        BY <3>3, Zenon
      <4> QED  BY <3>1, <4>2, <4>3
    <3> QED  BY <3>2, <3>3
  <2>6. u[m + 1] = g(u, m + 1)
    <3>1. ~(m + 1 = 0) /\ m + 1 - 1 = m
      OBVIOUS
    <3>2. PICK k : k = m + 1 /\ k # 0
      BY <3>1
    <3>3. g(u, k) = Joined(u[k - 1], f[k])
      BY <3>2
    <3> QED  BY <2>3, <3>1, <3>2, <3>3
  <2> HIDE DEF g
  <2>7. \A k \in 0 .. m + 1 : u[k] = g(u, k)
    <3> TAKE k \in 0 .. m + 1
    <3>1. k = m + 1 \/ k \in 0 .. m
      OBVIOUS
    <3> QED  BY <2>5, <2>6, <3>1
  <2> QED  BY <2>4, <2>7
<1> HIDE DEF S
<1>3. S = Nat
  BY <1>1, <1>2, Induct DEF S
<1>4. PICK r : Is(r, n)
  BY <1>3 DEF S
<1>5. r = [k \in 0 .. n |-> g(r, k)]
  BY <1>0, <1>4
<1> QED  BY <1>5, Zenon DEF IsJoinLoop

LEMMA JoinRuns ==
  ASSUME NEW f, Len(f) \in Nat
  PROVE  \E r : IsJoinLoop(f, Len(f), r) /\ Concatenated(f) = r[Len(f)]
<1> DEFINE u == CHOOSE r : IsJoinLoop(f, Len(f), r)
<1>1. IsJoinLoop(f, Len(f), u)
  BY JoinLoopExists
<1>2. Concatenated(f) = u[Len(f)]
  BY DEF Concatenated, IsJoinLoop, Joined
<1> HIDE DEF u
<1> QED  BY <1>1, <1>2

LEMMA ConcatNone ==
  Concatenated(<<>>) = <<>>
<1>1. Len(<<>>) = 0
  OBVIOUS
<1>2. PICK r : IsJoinLoop(<<>>, Len(<<>>), r) /\ Concatenated(<<>>) = r[Len(<<>>)]
  BY <1>1, JoinRuns
<1>3. IsJoinLoop(<<>>, 0, r)
  BY <1>1, <1>2
<1>4. r[0] = <<>>
  BY <1>3, JoinLoopIs
<1> QED  BY <1>1, <1>2, <1>4

\* The first of two sequences that agree as far as it goes.
LEMMA JoinAgrees ==
  ASSUME NEW f, NEW g, NEW n \in Nat, NEW m \in Nat, n <= m, \A i \in 1 .. n : g[i] = f[i],
         NEW r, IsJoinLoop(f, n, r), NEW u, IsJoinLoop(g, m, u)
  PROVE  u[n] = r[n]
<1> DEFINE S == {k \in Nat : k <= n => u[k] = r[k]}
<1>1. r[0] = <<>> /\ \A k \in 1 .. n : r[k] = Joined(r[k - 1], f[k])
  BY JoinLoopIs
<1>2. u[0] = <<>> /\ \A k \in 1 .. m : u[k] = Joined(u[k - 1], g[k])
  BY JoinLoopIs
<1>3. 0 \in S
  BY <1>1, <1>2
<1>4. ASSUME NEW k \in S PROVE k + 1 \in S
  <2> SUFFICES ASSUME k + 1 <= n PROVE u[k + 1] = r[k + 1]
    OBVIOUS
  <2>1. k + 1 \in 1 .. n /\ k + 1 \in 1 .. m /\ k + 1 - 1 = k
    OBVIOUS
  <2>2. u[k + 1] = Joined(u[k + 1 - 1], g[k + 1]) /\ r[k + 1] = Joined(r[k + 1 - 1], f[k + 1])
    BY <1>1, <1>2, <2>1
  <2>3. u[k] = r[k] /\ g[k + 1] = f[k + 1]
    BY <2>1
  <2> QED  BY <2>1, <2>2, <2>3
<1> HIDE DEF S
<1>5. S = Nat
  BY <1>3, <1>4, Induct DEF S
<1> QED  BY <1>5 DEF S

LEMMA JoinsLast ==
  ASSUME NEW f, NEW g, NEW n \in Nat, NEW m \in Nat, m = n + 1, Len(f) = n, Len(g) = m,
         \A i \in 1 .. n : g[i] = f[i]
  PROVE  Concatenated(g) = Joined(Concatenated(f), g[m])
<1>1. PICK r : IsJoinLoop(f, n, r) /\ Concatenated(f) = r[n]
  BY JoinRuns
<1>2. PICK u : IsJoinLoop(g, m, u) /\ Concatenated(g) = u[m]
  BY JoinRuns
<1>3. u[n] = r[n]
  BY SMTT(60), <1>1, <1>2, JoinAgrees
<1>4. u[m] = Joined(u[m - 1], g[m])
  <2>1. m \in 1 .. m
    OBVIOUS
  <2> QED  BY <1>2, <2>1, JoinLoopIs
<1>5. m - 1 = n
  OBVIOUS
<1> QED  BY <1>1, <1>2, <1>3, <1>4, <1>5

LEMMA ConcatNext ==
  ASSUME NEW S, NEW f \in Seq(S), NEW x \in S
  PROVE  Concatenated(Append(f, x)) = Joined(Concatenated(f), x)
<1>1. PICK n \in Nat : n = Len(f)
  OBVIOUS
<1>0. PICK m \in Nat : m = n + 1
  OBVIOUS
<1>2. PICK g : /\ g = Append(f, x) /\ Len(g) = m
               /\ g[m] = x /\ \A i \in 1 .. n : g[i] = f[i]
  <2>1. /\ Append(f, x) \in Seq(S) /\ Len(Append(f, x)) = Len(f) + 1
        /\ \A i \in 1 .. Len(f) : Append(f, x)[i] = f[i]
        /\ Append(f, x)[Len(f) + 1] = x
    BY AppendProperties
  <2> QED  BY <1>0, <1>1, <2>1
<1>3. Concatenated(g) = Joined(Concatenated(f), g[m])
  BY ZenonT(60), <1>0, <1>1, <1>2, JoinsLast
<1> QED  BY <1>2, <1>3

\* A sequence that is not empty, by its last element.
LEMMA LastOf ==
  ASSUME NEW S, NEW q \in Seq(S), NEW n \in Nat, Len(q) = n + 1
  PROVE  \E p \in Seq(S), x \in S : q = Append(p, x) /\ Len(p) = n
<1>1. q # <<>>
  OBVIOUS
<1>2. PICK p \in Seq(S), x \in S : q = Append(p, x)
  BY <1>1, SequenceEmptyOrAppend
<1> QED  BY <1>2

LEMMA NoneOf ==
  ASSUME NEW S, NEW q \in Seq(S), Len(q) = 0
  PROVE  q = <<>>
OBVIOUS

\* What a piece, a record or a segment carries.
Datas == Seq(Nat)

LEMMA DataJoins ==
  ASSUME NEW p \in Datas, NEW q \in Datas
  PROVE  Joined(p, q) \in Datas /\ Joined(p, <<>>) = p /\ Joined(<<>>, p) = p
BY JoinedIs, JoinedNone DEF Datas

LEMMA DataJoinsBoth ==
  ASSUME NEW p \in Datas, NEW q \in Datas, NEW r \in Datas
  PROVE  Joined(Joined(p, q), r) = Joined(p, Joined(q, r))
BY JoinedBoth DEF Datas

LEMMA DataNone == <<>> \in Datas
BY DEF Datas

LEMMA ConcatType ==
  ASSUME NEW f \in Seq(Datas)
  PROVE  Concatenated(f) \in Datas
<1> DEFINE S == {m \in Nat : \A g \in Seq(Datas) : Len(g) = m => Concatenated(g) \in Datas}
<1>1. 0 \in S
  <2>1. ASSUME NEW g \in Seq(Datas), Len(g) = 0 PROVE Concatenated(g) \in Datas
    <3>1. g = <<>>
      BY <2>1, NoneOf
    <3> QED  BY <3>1, DataNone, ConcatNone
  <2> QED  BY <2>1
<1>2. ASSUME NEW m \in S PROVE m + 1 \in S
  <2>0. m \in Nat /\ \A g \in Seq(Datas) : Len(g) = m => Concatenated(g) \in Datas
    OBVIOUS
  <2> HIDE DEF S
  <2>1. ASSUME NEW g \in Seq(Datas), Len(g) = m + 1 PROVE Concatenated(g) \in Datas
    <3>1. PICK p \in Seq(Datas), x \in Datas : g = Append(p, x) /\ Len(p) = m
      BY <2>0, <2>1, LastOf
    <3>2. Concatenated(g) = Joined(Concatenated(p), x)
      BY <3>1, ConcatNext
    <3>3. PICK y \in Datas : y = Concatenated(p)
      BY <2>0, <3>1
    <3>4. Joined(y, x) \in Datas
      BY DataJoins
    <3> QED  BY <3>2, <3>3, <3>4
  <2> QED  BY <2>0, <2>1 DEF S
<1> HIDE DEF S
<1>3. S = Nat
  BY <1>1, <1>2, Induct DEF S
<1>4. Len(f) \in S
  BY <1>3
<1> QED  BY <1>4 DEF S

LEMMA ConcatBoth ==
  ASSUME NEW f \in Seq(Datas), NEW g \in Seq(Datas)
  PROVE  Concatenated(Joined(f, g)) = Joined(Concatenated(f), Concatenated(g))
<1> DEFINE Splits(h) == Concatenated(Joined(f, h)) = Joined(Concatenated(f), Concatenated(h))
           S == {m \in Nat : \A h \in Seq(Datas) : Len(h) = m => Splits(h)}
<1>0. PICK a \in Datas : a = Concatenated(f)
  BY ConcatType
<1>1. 0 \in S
  <2>1. ASSUME NEW h \in Seq(Datas), Len(h) = 0 PROVE Splits(h)
    <3>1. h = <<>>
      BY <2>1, NoneOf
    <3>2. Joined(f, h) = f
      BY <3>1, JoinedNone
    <3>3. Concatenated(h) = <<>>
      BY <3>1, ConcatNone
    <3>4. Joined(a, <<>>) = a
      BY DataJoins
    <3> QED  BY <1>0, <3>2, <3>3, <3>4
  <2> HIDE DEF Splits
  <2> QED  BY <2>1
<1>2. ASSUME NEW m \in S PROVE m + 1 \in S
  <2>0. m \in Nat /\ \A h \in Seq(Datas) : Len(h) = m => Splits(h)
    OBVIOUS
  <2> HIDE DEF S
  <2>1. ASSUME NEW h \in Seq(Datas), Len(h) = m + 1 PROVE Splits(h)
    <3> HIDE DEF Splits
    <3>1. PICK p \in Seq(Datas), x \in Datas : h = Append(p, x) /\ Len(p) = m
      BY ZenonT(60), <2>0, <2>1, LastOf
    <3>2. Concatenated(h) = Joined(Concatenated(p), x)
      BY <3>1, ConcatNext
    <3>3. Joined(f, h) = Append(Joined(f, p), x)
      BY <3>1, JoinedAppend
    <3>4. PICK q \in Seq(Datas) : q = Joined(f, p)
      BY JoinedIs
    <3>5. Concatenated(Append(q, x)) = Joined(Concatenated(q), x)
      BY ConcatNext
    <3>6. Concatenated(q) = Joined(Concatenated(f), Concatenated(p))
      BY <2>0, <3>1, <3>4 DEF Splits
    <3>7. PICK b \in Datas : b = Concatenated(p)
      BY ConcatType
    <3>8. Joined(Joined(a, b), x) = Joined(a, Joined(b, x))
      BY DataJoinsBoth
    <3>9. Concatenated(Joined(f, h)) = Joined(a, Joined(b, x))
      BY <1>0, <3>3, <3>4, <3>5, <3>6, <3>7, <3>8
    <3>10. Joined(Concatenated(f), Concatenated(h)) = Joined(a, Joined(b, x))
      BY <1>0, <3>2, <3>7
    <3> QED  BY <3>9, <3>10 DEF Splits
  <2> HIDE DEF Splits
  <2> QED  BY <2>0, <2>1 DEF S
<1> HIDE DEF S
<1>3. S = Nat
  BY <1>1, <1>2, Induct DEF S
<1>4. Len(g) \in S
  BY <1>3
<1> QED  BY <1>4 DEF S

LEMMA ConcatSilent ==
  ASSUME NEW f, NEW n \in Nat, Len(f) = n, \A k \in 1 .. n : f[k] = <<>>
  PROVE  Concatenated(f) = <<>>
<1>2. PICK r : IsJoinLoop(f, n, r) /\ Concatenated(f) = r[n]
  BY JoinRuns
<1> DEFINE S == {m \in Nat : m <= n => r[m] = <<>>}
<1>1. r[0] = <<>> /\ \A k \in 1 .. n : r[k] = Joined(r[k - 1], f[k])
  BY <1>2, JoinLoopIs
<1>3. 0 \in S
  BY <1>1
<1>4. ASSUME NEW m \in S PROVE m + 1 \in S
  <2> SUFFICES ASSUME m + 1 <= n PROVE r[m + 1] = <<>>
    OBVIOUS
  <2>1. m + 1 \in 1 .. n /\ m + 1 - 1 = m
    OBVIOUS
  <2>2. r[m + 1] = Joined(r[m + 1 - 1], f[m + 1])
    BY <1>1, <2>1
  <2>3. r[m] = <<>> /\ f[m + 1] = <<>>
    BY <2>1
  <2> QED  BY <2>1, <2>2, <2>3, JoinedNothing
<1> HIDE DEF S
<1>5. S = Nat
  BY <1>3, <1>4, Induct DEF S
<1> QED  BY <1>2, <1>5 DEF S

\* What comes behind the first of two.
LEMMA FromJoined ==
  ASSUME NEW p \in Datas, NEW q \in Datas, NEW n \in Nat, n = Len(p)
  PROVE  From(Joined(p, q), n) = q
<1>1. PICK m \in Nat : m = Len(q)
  BY DEF Datas
<1>2. PICK j \in Seq(Nat) : /\ j = Joined(p, q) /\ Len(j) = n + m
                            /\ \A i \in 1 .. m : j[n + i] = q[i]
  <2>1. Joined(p, q) \in Seq(Nat) /\ Len(Joined(p, q)) = Len(p) + Len(q)
    BY JoinedIs DEF Datas
  <2>2. \A i \in 1 .. Len(q) : Joined(p, q)[Len(p) + i] = q[i]
    BY JoinedIs DEF Datas
  <2> QED  BY <1>1, <2>1, <2>2
<1>3. PICK f \in Seq(Nat) : f = From(j, n) /\ Len(f) = m /\ \A i \in 1 .. m : f[i] = j[n + i]
  <2>1. n \in 0 .. Len(j) /\ Len(j) - n = m
    BY <1>2
  <2>2. From(j, n) \in Seq(Nat) /\ Len(From(j, n)) = Len(j) - n
    BY <2>1, FromIs
  <2>3. \A i \in 1 .. Len(j) - n : From(j, n)[i] = j[n + i]
    BY <2>1, FromIs
  <2> QED  BY <2>1, <2>2, <2>3
<1>4. q \in Seq(Nat)
  BY DEF Datas
<1>5. \A i \in 1 .. Len(f) : f[i] = q[i]
  BY ONLY <1>2, <1>3
<1>6. f = q
  BY <1>1, <1>3, <1>4, <1>5, SeqEqual
<1> QED  BY <1>2, <1>3, <1>6

LEMMA FromAll ==
  ASSUME NEW p \in Datas, NEW n \in Nat, n = Len(p)
  PROVE  From(p, n) = <<>>
<1>1. <<>> \in Datas /\ Joined(p, <<>>) = p
  BY DataNone, DataJoins
<1> QED  BY <1>1, FromJoined

\* A cut of what is put together of three, inside the middle one.
LEMMA CutInside ==
  ASSUME NEW a \in Datas, NEW x \in Datas, NEW b \in Datas, NEW k \in 0 .. Len(x)
  PROVE  /\ From(x, k) \in Datas
         /\ From(Joined(Joined(a, x), b), Len(a) + k) = Joined(From(x, k), b)
<1>1. PICK u \in Nat : u = Len(a)
  BY DEF Datas
<1>2. k \in 0 .. Len(x) /\ x \in Seq(Nat) /\ k \in Nat
  BY DEF Datas
<1>3. PICK f \in Datas : f = First(x, k) /\ Len(f) = k
  BY <1>2, FirstIs DEF Datas
<1>4. PICK g \in Datas : g = From(x, k)
  BY <1>2, FromIs DEF Datas
<1>5. x = Joined(f, g)
  BY <1>2, <1>3, <1>4, SplitAt
<1>6. PICK y \in Datas : y = Joined(a, f)
  BY DataJoins
<1>7. Len(y) = u + k
  <2>1. a \in Seq(Nat) /\ f \in Seq(Nat)
    BY DEF Datas
  <2>2. Len(Joined(a, f)) = Len(a) + Len(f)
    BY <2>1, JoinedIs
  <2> QED  BY <1>1, <1>3, <1>6, <2>2
<1>8. PICK z \in Datas : z = Joined(g, b)
  BY DataJoins
<1>9. Joined(a, Joined(f, g)) = Joined(y, g)
  BY <1>6, DataJoinsBoth
<1>10. Joined(Joined(y, g), b) = Joined(y, z)
  BY <1>8, DataJoinsBoth
<1>11. From(Joined(y, z), u + k) = z
  <2>1. u + k \in Nat
    BY <1>2
  <2> QED  BY <1>7, <2>1, FromJoined
<1> QED  BY <1>1, <1>4, <1>5, <1>8, <1>9, <1>10, <1>11

\* A set of numbers up to a bound has a greatest.
LEMMA GreatestIs ==
  ASSUME NEW n \in Nat, NEW S \in SUBSET (0 .. n), S # {}
  PROVE  Greatest(S) \in S
<1> DEFINE N == {m \in Nat : \A T \in SUBSET (0 .. m) : T # {} => \E k \in T : \A j \in T : j <= k}
<1>1. 0 \in N
  <2> SUFFICES ASSUME NEW T \in SUBSET (0 .. 0), T # {}
               PROVE  \E k \in T : \A j \in T : j <= k
    OBVIOUS
  <2>1. \A j \in T : j = 0
    OBVIOUS
  <2>2. PICK k \in T : TRUE
    OBVIOUS
  <2>3. \A j \in T : j <= k
    BY <2>1, <2>2
  <2> QED  BY <2>3
<1>2. ASSUME NEW m \in N PROVE m + 1 \in N
  <2> SUFFICES ASSUME NEW T \in SUBSET (0 .. m + 1), T # {}
               PROVE  \E k \in T : \A j \in T : j <= k
    OBVIOUS
  <2>1. CASE m + 1 \in T
    BY <2>1
  <2>2. CASE m + 1 \notin T
    <3>1. T \in SUBSET (0 .. m)
      BY <2>2
    <3> QED  BY <3>1
  <2> QED  BY <2>1, <2>2
<1> HIDE DEF N
<1>3. N = Nat
  BY <1>1, <1>2, Induct DEF N
<1>4. \E k \in S : \A j \in S : j <= k
  BY <1>3 DEF N
<1> QED  BY <1>4 DEF Greatest
=============================================================================

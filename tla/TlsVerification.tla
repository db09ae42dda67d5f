--------------------------- MODULE TlsVerification ---------------------------
(***************************************************************************)
(* What a TLS connection makes of its peer: the strength a context lets    *)
(* into a handshake, what the library's verification writes into the       *)
(* connection result, and the decision fp_ProcessConnection takes on it.   *)
(*                                                                         *)
(* The library walks the chain and reports; a chain is what it is for this *)
(* connection: its leaf, its weakest member, the store its root is in, the  *)
(* error the library has for it where it does not trust that root, whether *)
(* all of it is in date and well formed, whether its issuers have          *)
(* revocation lists and one of those names it, and whether the leaf names  *)
(* the host.  A leaf may be that of no certificate at all.                 *)
(***************************************************************************)
EXTENDS Naturals, FiniteSets

\* Strengths of the groups and of keys and signatures, in equivalent symmetric bits.
Strengths == {128, 192, 256}
CertificateStrengths == Strengths \cup {0, 112}
NoMinimum == 0

\* Versions of the protocol: 1.0 to 1.3.  Strengths of the ciphers of the library.
Versions == {10, 11, 12, 13}
Ciphers == {112, 128, 256}
Protocols == {"SSL", "TLS", "TLS_1_2", "TLS_1_3"}

NoCertificate == "None"
Leaves == {"Server", "Other", NoCertificate}

Roots == {"Configured", "System", "Unknown"}

\* X509_V_ERR, as far as a chain without a trusted root goes: it stops short of
\* its root, is a self-signed leaf, has a root not marked as trusted; or it brings
\* its own root, or runs into a certificate of the store that lacks its issuer.
RootErrors ==
  {"UNABLE_TO_GET_ISSUER_CERT_LOCALLY", "UNABLE_TO_VERIFY_LEAF_SIGNATURE",
   "DEPTH_ZERO_SELF_SIGNED_CERT", "CERT_UNTRUSTED",
   "SELF_SIGNED_CERT_IN_CHAIN", "UNABLE_TO_GET_ISSUER_CERT"}
ChainErrors == RootErrors \cup {"UNABLE_TO_GET_CRL", "CERT_REVOKED", "CERT_HAS_EXPIRED"}

Flags ==
  {"UseSpecificPeerCertificate", "UserCanAcceptUntrusted", "UserCanIgnoreVerificationFailures",
   "IgnoreTrustFailures", "IgnoreVerificationFailures", "VerifyHostnameMatches",
   "AllowMissingPeerCertificate", "AllowInsecureCipherSuites", "AllowInsecureSSLVersions",
   "UseOSStoreIfNoCASpecified", "DisallowEllipticCurveDHKeyExchange"}

\* The certificate and the private key a context is given for its own end.
Identities ==
  [certificate : BOOLEAN, key : BOOLEAN, matches : BOOLEAN,
   strength : CertificateStrengths, keyStrength : CertificateStrengths]
NoIdentity ==
  [certificate |-> FALSE, key |-> FALSE, matches |-> FALSE, strength |-> 0, keyStrength |-> 0]
Parts == {"Authority", "Certificate", "Key", "Lists"}

\* Settings of a context: its own identity, whether an authority is configured,
\* what the places for revocation lists hold, which parts cannot be read, the
\* certificate given as the specific one, the remembered certificates, the flags,
\* the minimum strength and the protocol.
Settings ==
  [server : BOOLEAN, identity : Identities, authority : BOOLEAN,
   lists : {"None", "Empty", "Loaded"}, unreadable : SUBSET Parts, specific : Leaves,
   store : SUBSET (Leaves \ {NoCertificate}), flags : SUBSET Flags, minimum : Strengths \cup {NoMinimum}, protocol : Protocols]

Peers ==
  [leaf : Leaves, strength : CertificateStrengths, root : Roots, unrooted : RootErrors,
   valid : BOOLEAN, listed : BOOLEAN, revoked : BOOLEAN, hostname : BOOLEAN,
   groups : SUBSET Strengths, versions : SUBSET Versions, ciphers : SUBSET Ciphers]

\* CSSLConnectionResult: the leaf and the errors logged, whether any was of either
\* kind, the two entries of mp_MiscErrors and whether mp_SSLErrors says something
NoResult ==
  [leaf |-> NoCertificate, errors |-> {}, trustErrors |-> FALSE, verificationErrors |-> FALSE,
   hostnameMismatch |-> FALSE, specificMismatch |-> FALSE, sslErrors |-> FALSE]

-----------------------------------------------------------------------------
(* The context.  Any fault in what it is given leaves none.                *)

\* fp_LoadCertificateAuthority, of a place that holds no certificate
AuthorityFails(settings) == "Authority" \in settings.unreadable

\* fp_LoadPublicCertificate and the strength asked of it
CertificateFails(settings) ==
  /\ settings.identity.certificate
  /\ \/ "Certificate" \in settings.unreadable
     \/ settings.minimum # NoMinimum /\ settings.identity.strength < settings.minimum

\* fp_LoadPrivateKey and the strength asked of it
KeyFails(settings) ==
  /\ settings.identity.key
  /\ \/ "Key" \in settings.unreadable
     \/ settings.minimum # NoMinimum /\ settings.identity.keyStrength < settings.minimum

\* fp_VerifyPublicCertAndPrivateKey, when there is either
IdentityFails(settings) ==
  LET identity == settings.identity
  IN  /\ identity.certificate \/ identity.key
      /\ ~(identity.certificate /\ identity.key /\ identity.matches)

\* fp_LoadCRLs, of a list that cannot be read
ListsFail(settings) == settings.lists = "Loaded" /\ "Lists" \in settings.unreadable

\* CSSLContext::CInternal::CInternal throws.
ContextFails(settings) ==
  \/ "DisallowEllipticCurveDHKeyExchange" \in settings.flags
  \/ AuthorityFails(settings)
  \/ CertificateFails(settings)
  \/ KeyFails(settings)
  \/ IdentityFails(settings)
  \/ ListsFail(settings)

\* Lists are looked at once there is one: a place without any asks for nothing.
RevocationChecked(settings) == settings.lists = "Loaded"

\* The roots a context trusts: the system's only for a client without authority.
TrustedRoots(settings) ==
  CASE settings.authority -> {"Configured"}
    [] ~settings.authority /\ ~settings.server
         /\ "UseOSStoreIfNoCASpecified" \in settings.flags -> {"System"}
    [] OTHER -> {}

-----------------------------------------------------------------------------
(* Strength.                                                               *)

\* fp_ConfigureAlgorithms: the groups, and with them the signatures, on offer
AllowedGroups(minimum) == {g \in Strengths : g >= minimum}

\* The group of the only key share a client sends unasked.
KeyShare(minimum) ==
  CASE minimum = 128 -> 128
    [] minimum = 256 -> 256
    [] OTHER -> 192

\* The protocol versions a context offers; the library bounds those of "SSL" itself.
AllowedVersions(settings) ==
  {v \in Versions :
     /\ v < 12 => /\ settings.protocol = "SSL"
                  /\ settings.minimum = NoMinimum
                  /\ "AllowInsecureSSLVersions" \in settings.flags
     /\ settings.protocol = "TLS_1_2" => v = 12
     /\ settings.protocol = "TLS_1_3" => v = 13}

\* The cipher list, and the policy for the ciphers of version 1.3.
AllowedCiphers(settings) ==
  {c \in Ciphers :
     /\ c >= settings.minimum
     /\ c < 128 => "AllowInsecureCipherSuites" \in settings.flags}

\* The library agrees on a group, a version and a cipher both ends allow.
Negotiable(settings, peer) == AllowedGroups(settings.minimum) \cap peer.groups
CommonVersions(settings, peer) == AllowedVersions(settings) \cap peer.versions
CommonCiphers(settings, peer) == AllowedCiphers(settings) \cap peer.ciphers
Agrees(settings, peer, group) ==
  /\ group \in Negotiable(settings, peer)
  /\ CommonVersions(settings, peer) # {}
  /\ CommonCiphers(settings, peer) # {}

\* f_UsedHelloRetryRequest: over 1.3, the newest version, the server asks a client
\* for a share of another group.
HelloRetried(settings, peer, group) ==
  /\ ~settings.server
  /\ 13 \in CommonVersions(settings, peer)
  /\ group # KeyShare(settings.minimum)

\* fg_CertificateMeetsStrength, for the chain as a whole
MeetsStrength(settings, peer) == settings.minimum # NoMinimum => peer.strength >= settings.minimum

-----------------------------------------------------------------------------
(* Verification.                                                           *)

\* SSL_VERIFY_FAIL_IF_NO_PEER_CERT
PeerCertificateRequired(settings) ==
  /\ settings.server
  /\ settings.authority
  /\ "AllowMissingPeerCertificate" \notin settings.flags

\* The library gives up the handshake with an alert.
VerificationFails(settings, peer) ==
  IF peer.leaf = NoCertificate
  THEN PeerCertificateRequired(settings)
  ELSE ~MeetsStrength(settings, peer)

HostnameMismatch(settings, peer) == "VerifyHostnameMatches" \in settings.flags /\ ~peer.hostname

\* What the library reports of a chain, one error for each of its faults: no
\* trusted root, no list of an issuer where lists are asked for, revoked by one,
\* and one for whatever else is wrong with it.
Reported(settings, peer) ==
  {error \in ChainErrors :
     \/ error = peer.unrooted /\ peer.root \notin TrustedRoots(settings)
     \/ error = "UNABLE_TO_GET_CRL" /\ RevocationChecked(settings) /\ ~peer.listed
     \/ error = "CERT_REVOKED" /\ RevocationChecked(settings) /\ peer.listed /\ peer.revoked
     \/ error = "CERT_HAS_EXPIRED" /\ ~peer.valid}

\* Mutant: every chain without a trusted root counts as untrusted only.
IsAnyRootError(error) == error \in RootErrors \cup {"UNABLE_TO_GET_CRL"}

\* fsp_IsTrustError: a root the peer brings itself is not among them.
IsTrustError(error) ==
  error \in {"UNABLE_TO_GET_ISSUER_CERT_LOCALLY", "UNABLE_TO_VERIFY_LEAF_SIGNATURE",
             "DEPTH_ZERO_SELF_SIGNED_CERT", "CERT_UNTRUSTED", "UNABLE_TO_GET_CRL"}

\* f_LogError: every other error is a verification error.
Untrusted(settings, peer) == \E error \in Reported(settings, peer) : IsTrustError(error)
Invalid(settings, peer) == \E error \in Reported(settings, peer) : ~IsTrustError(error)

\* f_LogCertificate, f_LogMiscError and f_LogError over the chain.
Verified(settings, peer) ==
  IF VerificationFails(settings, peer) THEN [NoResult EXCEPT !.sslErrors = TRUE]
  ELSE IF peer.leaf = NoCertificate THEN NoResult
  ELSE [NoResult EXCEPT
          !.leaf = peer.leaf,
          !.errors = Reported(settings, peer),
          !.trustErrors = Untrusted(settings, peer),
          !.hostnameMismatch = HostnameMismatch(settings, peer),
          !.verificationErrors = Invalid(settings, peer) \/ HostnameMismatch(settings, peer)]

-----------------------------------------------------------------------------
(* The decision.                                                           *)

MatchesSpecific(settings, result) ==
  settings.specific # NoCertificate /\ result.leaf = settings.specific

MatchesRemembered(settings, result) == result.leaf \in settings.store

\* operator == of two results
SameResult(a, b) == a = b

TrustErrors(settings, result) ==
  result.trustErrors /\ "IgnoreTrustFailures" \notin settings.flags
VerificationErrors(settings, result) ==
  result.verificationErrors /\ "IgnoreVerificationFailures" \notin settings.flags

\* fp_ProcessConnection, by the first branch that applies; expected is the result
\* the user decided on, a set of at most one.
Accepted(settings, result, expected) ==
  IF "UseSpecificPeerCertificate" \in settings.flags
  THEN ~result.verificationErrors /\ MatchesSpecific(settings, result)
  ELSE IF expected # {} THEN \E decided \in expected : SameResult(decided, result)
  ELSE /\ ~VerificationErrors(settings, result)
       /\ ~TrustErrors(settings, result) \/ MatchesRemembered(settings, result)

UserCanIgnoreTrustFailures(settings) == "UserCanAcceptUntrusted" \in settings.flags
UserCanIgnoreVerificationFailures(settings) ==
  "UserCanIgnoreVerificationFailures" \in settings.flags

\* Whether the user is asked to decide on a result that was not accepted.
AskUser(settings, result, expected) ==
  /\ ~Accepted(settings, result, expected)
  /\ "UseSpecificPeerCertificate" \notin settings.flags
  /\ expected = {}
  /\ TrustErrors(settings, result) => UserCanIgnoreTrustFailures(settings)
  /\ VerificationErrors(settings, result) => UserCanIgnoreVerificationFailures(settings)

\* The result the decision leaves behind.
Decided(settings, result) ==
  [result EXCEPT !.specificMismatch =
     /\ "UseSpecificPeerCertificate" \in settings.flags
     /\ ~result.verificationErrors
     /\ ~MatchesSpecific(settings, result)]

-----------------------------------------------------------------------------

\* What the settings promise about a peer whose connection is established, told
\* of the peer itself: a specific certificate admits no other and no broken one;
\* a decision of the user admits the certificate and the faults decided on; with
\* neither, each fault of the chain is let pass by the flag for its kind or, a
\* chain whose root is missing or a list that is, made up for by the remembered
\* certificate.  A root the peer shows and nobody trusts is a fault of the chain's
\* soundness: the flag for verification lets it pass, no remembered or specific
\* certificate makes up for it.  The key exchange, the cipher and every certificate
\* of either end are as strong as the minimum says, over no version of the protocol
\* before 1.2 unless that was asked for without a minimum; and a peer without
\* certificate is let in only where none is demanded.
Strong(settings, peer, group) ==
  /\ group >= settings.minimum
  /\ \A c \in CommonCiphers(settings, peer) : c >= settings.minimum
  /\ \A v \in CommonVersions(settings, peer) :
       \/ v >= 12
       \/ /\ settings.protocol = "SSL"
          /\ settings.minimum = NoMinimum
          /\ "AllowInsecureSSLVersions" \in settings.flags
  /\ peer.leaf # NoCertificate => MeetsStrength(settings, peer)
  /\ settings.identity.certificate =>
       /\ settings.identity.key /\ settings.identity.matches
       /\ settings.identity.strength >= settings.minimum
       /\ settings.identity.keyStrength >= settings.minimum

Rooted(settings, peer) ==
  \/ settings.authority /\ peer.root = "Configured"
  \/ /\ "UseOSStoreIfNoCASpecified" \in settings.flags
     /\ ~settings.authority /\ ~settings.server
     /\ peer.root = "System"
ShowsEnd(peer) == peer.unrooted \in {"SELF_SIGNED_CERT_IN_CHAIN", "UNABLE_TO_GET_ISSUER_CERT"}
RevocationListed(settings, peer) == settings.lists = "Loaded" => peer.listed
Sound(settings, peer) ==
  /\ peer.valid
  /\ settings.lists = "Loaded" /\ peer.listed => ~peer.revoked
  /\ "VerifyHostnameMatches" \in settings.flags => peer.hostname

Promised(settings, peer, group, decidedPeer) ==
  /\ Strong(settings, peer, group)
  /\ peer.leaf = NoCertificate =>
       ~(settings.server /\ settings.authority
         /\ "AllowMissingPeerCertificate" \notin settings.flags)
  /\ IF "UseSpecificPeerCertificate" \in settings.flags
     THEN /\ peer.leaf = settings.specific
          /\ Sound(settings, peer)
          /\ ShowsEnd(peer) => Rooted(settings, peer)
     ELSE IF decidedPeer # {}
     THEN \E decided \in decidedPeer :
            /\ peer.leaf = decided.leaf
            /\ peer.leaf # NoCertificate =>
                 /\ Rooted(settings, peer) <=> Rooted(settings, decided)
                 /\ Rooted(settings, peer) \/ peer.unrooted = decided.unrooted
                 /\ RevocationListed(settings, peer) <=> RevocationListed(settings, decided)
                 /\ Sound(settings, peer) <=> Sound(settings, decided)
     ELSE peer.leaf # NoCertificate =>
            /\ \/ Rooted(settings, peer)
               \/ ShowsEnd(peer) /\ "IgnoreVerificationFailures" \in settings.flags
               \/ ~ShowsEnd(peer) /\ "IgnoreTrustFailures" \in settings.flags
               \/ ~ShowsEnd(peer) /\ peer.leaf \in settings.store
            /\ \/ RevocationListed(settings, peer)
               \/ "IgnoreTrustFailures" \in settings.flags
               \/ peer.leaf \in settings.store
            /\ \/ Sound(settings, peer)
               \/ "IgnoreVerificationFailures" \in settings.flags
=============================================================================

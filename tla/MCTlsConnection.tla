--------------------------- MODULE MCTlsConnection ---------------------------
(* The scenarios: whom a context lets in, the exchange on readiness and on *)
(* completion, what the peer may send, and what may go wrong.              *)
EXTENDS TlsConnection

ClientSettings ==
  [server |-> FALSE, identity |-> NoIdentity, authority |-> TRUE, lists |-> "None",
   unreadable |-> {}, specific |-> NoCertificate, store |-> {},
   flags |-> {}, minimum |-> 192, protocol |-> "TLS"]
ServerIdentity ==
  [certificate |-> TRUE, key |-> TRUE, matches |-> TRUE, strength |-> 192, keyStrength |-> 192]
ServerSettings == [ClientSettings EXCEPT !.server = TRUE, !.identity = ServerIdentity]

GoodPeer ==
  [leaf |-> "Server", strength |-> 192, root |-> "Configured",
   unrooted |-> "UNABLE_TO_GET_ISSUER_CERT_LOCALLY", valid |-> TRUE, listed |-> TRUE, revoked |-> FALSE,
   hostname |-> TRUE, groups |-> {192}, versions |-> {12, 13}, ciphers |-> {128, 256}]

\* A client that has nothing to say to a peer that has nothing to say.
Quiet ==
  [way |-> "Connect", settings |-> ClientSettings, peer |-> GoodPeer, group |-> 192,
   decided |-> {}, stream |-> <<"hs">>, room |-> 3, sends |-> 0, direct |-> TRUE,
   completion |-> FALSE, depth |-> 2, window |-> 0, may |-> {}]

\* Verification: a chain that ends in a trusted root, short of its root, in a leaf
\* that signed itself, or in a root of its own.
Unrooted == [GoodPeer EXCEPT !.root = "Unknown"]
SelfSigned == [Unrooted EXCEPT !.unrooted = "DEPTH_ZERO_SELF_SIGNED_CERT"]
OwnRoot == [Unrooted EXCEPT !.unrooted = "SELF_SIGNED_CERT_IN_CHAIN"]
SomePeers ==
  {[chain EXCEPT !.leaf = leaf, !.valid = valid, !.hostname = hostname] :
     chain \in {GoodPeer, Unrooted, OwnRoot}, leaf \in Leaves, valid \in BOOLEAN,
     hostname \in BOOLEAN}
  \cup {SelfSigned, [SelfSigned EXCEPT !.leaf = "Other"]}
SomeFlags ==
  { {}, {"VerifyHostnameMatches"},
    {"UseSpecificPeerCertificate", "VerifyHostnameMatches"},
    {"UserCanAcceptUntrusted", "VerifyHostnameMatches"},
    {"UserCanAcceptUntrusted", "UserCanIgnoreVerificationFailures"},
    {"IgnoreTrustFailures"}, {"IgnoreVerificationFailures", "VerifyHostnameMatches"},
    {"AllowMissingPeerCertificate"} }

Decisions ==
  {[Quiet EXCEPT !.settings.flags = flags, !.settings.specific = specific,
                 !.settings.store = {"Other"} \ {specific}, !.peer = peer, !.decided = decided] :
     flags \in SomeFlags, specific \in {NoCertificate, "Server"}, peer \in SomePeers,
     decided \in {{}, {Unrooted}, {OwnRoot}}}
  \cup {[Quiet EXCEPT !.way = "Accept", !.settings = ServerSettings, !.settings.flags = flags,
                      !.peer = peer, !.stream = <<"hs", "hs">>] :
          flags \in SomeFlags, peer \in SomePeers}

\* The server's flights: it asks for another share of the key exchange with one more.
Answered(x) ==
  [x EXCEPT !.stream = IF HelloRetried(x.settings, x.peer, x.group)
                       THEN <<"hs", "hs">> ELSE <<"hs">>]

Strength ==
  {Answered([Quiet EXCEPT !.settings.minimum = minimum, !.peer.strength = strength,
                          !.group = group, !.peer.groups = {group}]) :
     minimum \in Strengths \cup {NoMinimum}, strength \in Strengths \cup {112}, group \in Strengths}

\* Versions and ciphers, over a key exchange every minimum allows.
Protocol ==
  {Answered([Quiet EXCEPT !.settings.protocol = protocol, !.settings.flags = flags,
                          !.settings.minimum = minimum, !.peer.versions = versions,
                          !.peer.ciphers = ciphers]) :
     protocol \in Protocols,
     flags \in {{}, {"AllowInsecureSSLVersions", "AllowInsecureCipherSuites"}},
     minimum \in {NoMinimum, 192},
     versions \in {{11}, {11, 12}, {12, 13}}, ciphers \in {{112}, {128}, {112, 256}}}

\* Roots and revocation lists, remembered certificates and what a decision was on.
Trust ==
  {[Quiet EXCEPT !.settings.authority = authority, !.settings.lists = lists,
                 !.settings.flags = flags, !.settings.store = store,
                 !.peer.root = root, !.peer.unrooted = unrooted,
                 !.peer.listed = listed, !.peer.revoked = revoked, !.decided = decided] :
     authority \in BOOLEAN, lists \in {"None", "Empty", "Loaded"},
     flags \in {{}, {"UseOSStoreIfNoCASpecified"}}, store \in {{}, {"Server"}},
     root \in {"Configured", "System"}, listed \in BOOLEAN, revoked \in BOOLEAN,
     unrooted \in {"UNABLE_TO_VERIFY_LEAF_SIGNATURE", "UNABLE_TO_GET_ISSUER_CERT"},
     decided \in {{}, {[GoodPeer EXCEPT !.listed = FALSE]}}}

\* A server's own certificate and key.
OwnIdentity ==
  {[Quiet EXCEPT !.way = "Accept", !.stream = <<"hs", "hs">>, !.settings = ServerSettings,
                 !.settings.minimum = minimum, !.settings.unreadable = unreadable,
                 !.settings.lists = "Loaded", !.settings.identity = identity] :
     minimum \in {NoMinimum, 192}, unreadable \in {{}, {"Key"}, {"Certificate"}, {"Lists"}},
     identity \in
       {NoIdentity, ServerIdentity,
        [ServerIdentity EXCEPT !.key = FALSE], [ServerIdentity EXCEPT !.certificate = FALSE],
        [ServerIdentity EXCEPT !.matches = FALSE],
        [ServerIdentity EXCEPT !.strength = 128], [ServerIdentity EXCEPT !.keyStrength = 128]}}

\* Exchanges.
Copying(scenarios) == {[x EXCEPT !.direct = FALSE] : x \in scenarios}
Ready(may, way, tail, sends, room) ==
  [Quiet EXCEPT !.way = way, !.stream = <<"hs">> \o tail, !.sends = sends, !.room = room,
                !.may = may]
Accepting(scenarios) ==
  {[x EXCEPT !.way = "Accept", !.settings = ServerSettings, !.stream = <<"hs">> \o @] : x \in scenarios}

OnReadiness ==
  { Ready({}, "Connect", <<"data", "ctl", "data", "close">>, 2, 1),
    Ready({"Close", "End"}, "AsyncConnect", <<"data", "ctl">>, 3, 2),
    Ready({"Lose"}, "AsyncConnect", <<"data">>, 2, 1),
    Ready({}, "Connect", <<"ctl", "data", "bad">>, 1, 1),
    Ready({"End"}, "Adopt", <<"data">>, 1, 2) }
  \cup Accepting({Ready({"Close"}, "Connect", <<"data", "data">>, 2, 1)})

Completing(may, tail, sends, room, depth, window) ==
  [Ready(may, "Connect", tail, sends, room) EXCEPT
     !.completion = TRUE, !.depth = depth, !.window = window]

OnCompletion ==
  { Completing({}, <<"ctl">>, 2, 2, 2, 0),
    Completing({"Close"}, <<"ctl">>, 2, 1, 1, 0),
    Completing({"Window"}, <<>>, 2, 2, 1, 3),
    Completing({}, <<"data", "data", "close">>, 0, 2, 1, 0),
    Completing({"End"}, <<"data">>, 1, 2, 1, 0),
    Completing({"Refuse", "Partly"}, <<>>, 2, 2, 2, 0),
    Completing({"Lose"}, <<>>, 2, 1, 2, 0),
    Completing({"SealFails"}, <<>>, 2, 2, 2, 0),
    Completing({"Lose"}, <<"data", "bad">>, 0, 2, 1, 0) }

ThroughTheLibrary ==
  Copying({ Ready({"Close", "End"}, "Connect", <<"data", "ctl">>, 2, 1),
            Ready({}, "Connect", <<"ctl", "data", "close">>, 1, 1),
            Ready({"Lose"}, "Connect", <<"data">>, 2, 1) })

MCScenarios == Decisions \cup Strength \cup Protocol \cup Trust \cup OwnIdentity
               \cup OnReadiness \cup ThroughTheLibrary \cup OnCompletion
=============================================================================

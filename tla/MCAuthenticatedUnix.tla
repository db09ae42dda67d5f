------------------------- MODULE MCAuthenticatedUnix -------------------------
(* The scenarios: every way to accept or refuse the peer, faults, and reuse. *)
EXTENDS AuthenticatedUnix

Trusting ==
  [certified |-> TRUE, allowsMissing |-> FALSE, verifies |-> TRUE, ignores |-> FALSE,
   identifies |-> TRUE, claimsRight |-> TRUE]
Anonymous == [Trusting EXCEPT !.certified = FALSE]
Lenient == [Trusting EXCEPT !.allowsMissing = TRUE, !.verifies = FALSE, !.ignores = TRUE]
Distrusting == [Trusting EXCEPT !.verifies = FALSE]

\* One connection, made in either way, whose calls overlap; or with submissions
\* once its handshake is done; or with faults, or on sockets used before.
Once(client, server) ==
  [client |-> client, server |-> server, attempts |-> 1, events |-> {},
   ways |-> {"Connect", "AsyncConnect", "Accept"}, overlap |-> FALSE,
   completion |-> FALSE]
Overlapping == [Once(Trusting, Trusting) EXCEPT !.overlap = TRUE]
Submitting == [Overlapping EXCEPT !.completion = TRUE, !.ways = {"AsyncConnect", "Accept"}]
Faulty(events) == [Once(Trusting, Trusting) EXCEPT !.events = events]
Reusing(ways) == [Once(Trusting, Trusting) EXCEPT !.attempts = 2, !.ways = ways]

MCScenarios ==
  { Overlapping,
    Faulty(Events),
    [Once(Anonymous, Lenient) EXCEPT !.events = {"Throw"}],
    Once(Trusting, Lenient),
    Once(Anonymous, Trusting),
    Once(Distrusting, Trusting),
    [Once(Trusting, Distrusting) EXCEPT !.overlap = TRUE],
    Once([Trusting EXCEPT !.claimsRight = FALSE], Trusting),
    Once(Trusting, [Trusting EXCEPT !.identifies = FALSE]),
    Reusing({"AsyncConnect", "Accept"}),
    Reusing({"Connect", "Adopt"}),
    Submitting,
    [Submitting EXCEPT !.overlap = FALSE, !.events = {"Shutdown"}] }
=============================================================================

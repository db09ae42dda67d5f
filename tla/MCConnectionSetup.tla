-------------------------- MODULE MCConnectionSetup --------------------------
(* The scenarios: a listen and peers on their own, and with the client. *)
EXTENDS ConnectionSetup

CONSTANTS a1, p1, p2

MCScenarios ==
  { [comers |-> {p1, p2}, addresses |-> 1, events |-> {"StopListen", "AcceptFails"}],
    [comers |-> {p1}, addresses |-> 2, events |-> Events \ {"DestroyClient"}],
    [comers |-> {a1}, addresses |-> 1, events |-> {"StopListen"}],
    [comers |-> {a1}, addresses |-> 1, events |-> {"DestroyClient"}] }
=============================================================================

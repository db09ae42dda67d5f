--------------------------- MODULE MCResolveActor ---------------------------
(***************************************************************************)
(* ResolveActor for TLC: one lookup of an address, which may have to be     *)
(* asked for twice, and one of a host.                                     *)
(***************************************************************************)
EXTENDS ResolveActor

CONSTANTS Address, Host

MCAsks ==
  [l \in Lookups |-> [stage |-> IF l = Address THEN "Prepare" ELSE "Host",
                      native |-> FALSE, second |-> l = Address]]
=============================================================================

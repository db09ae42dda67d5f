----------------------------- MODULE SendStream -----------------------------
(***************************************************************************)
(* What the send side of a CAsyncSocketActor promises to its caller: the   *)
(* messages form one byte stream, the promise of a message is resolved     *)
(* only after the kernel took its last byte, promises are resolved in      *)
(* order, a graceful close shuts the stream down only behind the last      *)
(* byte, and a failure abandons the promises that are left.                *)
(***************************************************************************)
EXTENDS Naturals, Sequences

CONSTANT MaxBytes  \* bound: bytes ever accepted

VARIABLES
  phase,     \* "Open", "Closing", "Shut" or "Gone"
  accepted,  \* bytes accepted from the caller
  onWire,    \* bytes the kernel has taken
  reported,  \* bytes the actor knows the kernel has taken
  promises   \* end positions of the messages whose promise is open

vars == <<phase, accepted, onWire, reported, promises>>

Init ==
  /\ phase = "Open"
  /\ accepted = 0
  /\ onWire = 0
  /\ reported = 0
  /\ promises = <<>>

\* f_SendData
Send(n) ==
  /\ phase = "Open"
  /\ accepted' = accepted + n
  /\ promises' = Append(promises, accepted + n)
  /\ UNCHANGED <<phase, onWire, reported>>

\* The kernel takes bytes, also those of a stream that was dropped meanwhile.
Transmit ==
  /\ onWire' \in onWire .. accepted
  /\ UNCHANGED <<phase, accepted, reported, promises>>

\* A completion: the promises that end within the bytes taken are resolved.
Settle ==
  /\ phase # "Gone"
  /\ reported' \in reported .. onWire
  /\ \E k \in 0 .. Len(promises) :
       /\ \A i \in 1 .. k : promises[i] <= reported'
       /\ promises' = SubSeq(promises, k + 1, Len(promises))
  /\ UNCHANGED <<phase, accepted, onWire>>

\* f_Close, or the peer's FIN
Close ==
  /\ phase = "Open"
  /\ phase' = "Closing"
  /\ UNCHANGED <<accepted, onWire, reported, promises>>

\* The write side is shut down behind the last byte.
Shut ==
  /\ phase \in {"Open", "Closing"}
  /\ onWire = accepted
  /\ promises = <<>>
  /\ phase' = "Shut"
  /\ UNCHANGED <<accepted, onWire, reported, promises>>

\* The socket is lost; its promises are abandoned at once or by Abandon.
Lose ==
  /\ phase' = "Gone"
  /\ promises' \in {promises, <<>>}
  /\ UNCHANGED <<accepted, onWire, reported>>

Next ==
  \/ \E n \in 0 .. MaxBytes : Send(n)
  \/ Transmit
  \/ Settle
  \/ Close
  \/ Shut
  \/ Lose

Spec == Init /\ [][Next]_vars
=============================================================================

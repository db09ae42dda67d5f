------------------------------ MODULE TlsSocket ------------------------------
(***************************************************************************)
(* CSocket_SSL with its CSSLConnection and CSSLTransport, between the      *)
(* actor that owns it and the platform socket: the handshake inside the    *)
(* calls of the owner, sends and receives on readiness, submitted sends    *)
(* and the receive stream on completion, and the shutdown behind them.     *)
(*                                                                         *)
(* The library is its records.  Of what it seals, a record is known by its *)
(* number.  The peer's stream is the kinds of its records in order: one    *)
(* unit each, but for application data, which takes three and carries two  *)
(* units of plaintext.  A record opens when all of it is there, in order.  *)
(* The owner is CAsyncSocketActor as the socket meets it; its handlers run *)
(* on its thread, a step for each call into the socket.                    *)
(***************************************************************************)
EXTENDS TlsTransport, TlsVerification

CONSTANTS
  Scenarios,     \* connections: how made, what each side sends, what goes wrong
  Delivery,      \* units of plaintext an owner has room for at a call
  SendMost,      \* bound: units of plaintext the owner gathers at once
  SegmentMost,   \* bound: units in a segment of the receive stream
  ReceiveWindow  \* units charged to the stream before the loop stops reading

RecordKinds == {"hs", "data", "ctl", "close", "bad"}
RecordUnits == 3
RecordPlain == 2

Choices == {"Lose", "Refuse", "Partly", "SealFails", "Close", "Window", "End"}

ASSUME TlsAssumption ==
  /\ Delivery \subseteq Nat \ {0} /\ Delivery # {}
  /\ SendMost \in Nat \ {0} /\ SegmentMost \in Nat \ {0} /\ ReceiveWindow \in Nat \ {0}
  /\ HoldSize >= RecordPlain
  /\ Scenarios \subseteq
       [way : {"Connect", "AsyncConnect", "Accept", "Adopt"}, settings : Settings, peer : Peers,
        group : Strengths, decided : SUBSET Peers, stream : Seq(RecordKinds), room : Nat,
        sends : Nat, direct : BOOLEAN, completion : BOOLEAN, depth : Nat, window : Nat,
        may : SUBSET Choices]

VARIABLES
  scenario,  \* history: what was chosen
  left,      \* what may still go wrong or be asked
  s,         \* the socket, its connection and transport, and what they hold of the platform's
  arrived,   \* units of the peer's stream at the platform
  finished,  \* the end of the peer's stream is there too
  lost,      \* the platform socket has failed
  segments,  \* segments of the receive stream in the mailbox of the actor
  actor

vars == <<scenario, left, s, arrived, finished, lost, segments, actor>>

-----------------------------------------------------------------------------
(* The peer's stream.                                                      *)

stream == scenario.stream
Size(kind) == IF kind = "data" THEN RecordUnits ELSE 1

Ends(k) ==
  LET E[i \in 0 .. Len(stream)] == IF i = 0 THEN 0 ELSE E[i - 1] + Size(stream[i]) IN E[k]
PlainBefore(k) == RecordPlain * Cardinality({i \in 1 .. k : stream[i] = "data"})
Total == Ends(Len(stream))
Interval(from, n) == [i \in 1 .. n |-> from + i]

\* What the handshake is made of, for the library: flights it writes and reads,
\* and the certificate of the peer in the last it reads.
Script ==
  IF scenario.settings.server
  THEN <<"Read", "Write", "Read", "Verify">>
  ELSE IF HelloRetried(scenario.settings, scenario.peer, scenario.group)
       THEN <<"Write", "Read", "Write", "Read", "Verify", "Write">>
       ELSE <<"Write", "Read", "Verify", "Write">>

\* A peer begins with the flights that the handshake reads.
ASSUME FlightsAssumption ==
  \A x \in Scenarios :
    \A i \in 1 .. (IF x.settings.server \/ HelloRetried(x.settings, x.peer, x.group) THEN 2 ELSE 1) :
      i \in DOMAIN x.stream /\ x.stream[i] = "hs"

-----------------------------------------------------------------------------
(* Output: the platform takes what it has room for, and tells when there   *)
(* is room again to one whose send fell short.                             *)

\* f_Flush
Leaving(c, records) ==
  [c EXCEPT
     !.tx = Flushed(@, Len(records)),
     !.wire = @ \o records,
     !.room = @ - Len(records),
     !.armed = Len(records) < Len(UnsentRecords(c.tx))]
Flush(c) ==
  IF c.error \/ FlushWaits(c.tx) \/ c.tx.unsent = <<>> THEN c
  ELSE IF lost THEN [c EXCEPT !.error = TRUE]
  ELSE Leaving(c, Flushable(c.tx, c.room))

\* Records of a kind behind all that was sealed before.
Sealed(c, kind, n) ==
  [c EXCEPT
     !.tx = Gain(@, Interval(Len(c.sealed), n)),
     !.sealed = @ \o [i \in 1 .. n |-> kind]]

\* f_Write, for records of the library's own
Write(c, kind, n) ==
  IF c.error THEN c
  ELSE IF c.tx.completion THEN Sealed(c, kind, n) ELSE Flush(Sealed(c, kind, n))

Broken(c) == c.ssl # "None"

\* fp_CheckTransportError
Blame(c, verdict) == IF c.error THEN [c EXCEPT !.ssl = verdict] ELSE c

\* f_FlushPending
FlushPending(c) == IF c.tx.pending = 0 THEN c ELSE Blame(Flush(c), "WriteFailed")

\* fp_AddTCPState
AddTCPState(c, flags) == [c EXCEPT !.events = @ \cup flags]

\* fp_CheckBrokenState
CheckBrokenState(c) ==
  IF Broken(c) /\ ~c.reported
  THEN [AddTCPState(c, {"Closed"}) EXCEPT !.reported = TRUE]
  ELSE c

-----------------------------------------------------------------------------
(* Input.                                                                  *)

\* fp_Receive of f_FillCipher: what the platform socket has of the peer's stream
ReceiveCipher(c) ==
  CASE lost -> [c |-> [c EXCEPT !.rx = ReadyFill(@), !.error = TRUE], is |-> "Failed"]
    [] ~lost /\ arrived > c.taken ->
         LET Taken(n) == [c EXCEPT !.rx = FillCipher(@, Interval(c.taken, n)), !.taken = @ + n]
         IN  [c |-> Taken(Least(FillRoom(c.rx), arrived - c.taken)), is |-> "Data"]
    [] ~lost /\ arrived = c.taken /\ finished ->
         [c |-> [c EXCEPT !.rx = [ReadyFill(@) EXCEPT !.endOfStream = TRUE]],
          is |-> "EndOfStream"]
    [] OTHER -> [c |-> [c EXCEPT !.rx = ReadyFill(@)], is |-> "WouldBlock"]

\* f_FillCipher, with what it answers: the stream is the only reader on completion
Fill(c) ==
  CASE c.error -> [c |-> c, is |-> "Failed"]
    [] ~c.error /\ c.rx.completion -> [c |-> c, is |-> "WouldBlock"]
    [] ~c.error /\ ~c.rx.completion /\ c.rx.endOfStream -> [c |-> c, is |-> "EndOfStream"]
    [] OTHER -> ReceiveCipher(c)

\* f_Read, of the next unit
ReadUnit(c) ==
  LET Read(filled) ==
        IF filled.is = "Data" THEN [filled EXCEPT !.c.rx = ConsumeCipher(@, 1)] ELSE filled
  IN  CASE c.error -> [c |-> c, is |-> "Failed"]
        [] ~c.error /\ CipherPending(c.rx) = <<>> -> Read(Fill(c))
        [] OTHER -> Read([c |-> c, is |-> "Data"])

\* external: what the library opens of the queue into room for plaintext, whole
\* records and in order only.  What it is done with it does not look at again.
\* In the units from first on, of which there are n: whether the k records from
\* there are all there, how many fit the room, and what comes behind them.
UnitsOf(read, k) == Ends(read + k) - Ends(read)
IsWhole(read, k, n) == read + k <= Len(stream) /\ UnitsOf(read, k) <= n
Fitting(read, n, room) ==
  {0} \cup
  {k \in 1 .. Len(stream) :
     /\ IsWhole(read, k, n)
     /\ \A j \in 1 .. k : stream[read + j] \in {"data", "ctl"}
     /\ PlainBefore(read + k) - PlainBefore(read) <= room}
Greatest(S) == CHOOSE k \in S : \A j \in S : j <= k
Behind(read, k, n) == IF IsWhole(read, k + 1, n) THEN stream[read + k + 1] ELSE "More"

OpensNothing(is) == [records |-> 0, units |-> 0, plain |-> <<>>, replies |-> 0, is |-> is]
OpensRecords(read, most, then) ==
  LET records == most + (IF then = "close" THEN 1 ELSE 0)
  IN  [records |-> records,
       units |-> UnitsOf(read, records),
       plain |-> Interval(PlainBefore(read), PlainBefore(read + most) - PlainBefore(read)),
       replies |-> Cardinality({j \in 1 .. most : stream[read + j] = "ctl"}),
       is |-> CASE then = "close" -> "Close" [] then = "bad" -> "Error" [] OTHER -> "More"]

Opened(c, room) ==
  LET Upto(most, n) == OpensRecords(c.read, most, Behind(c.read, most, n))
      Of(pieces) ==
        IF \E i \in DOMAIN pieces : pieces[i] # Ends(c.read) + i THEN OpensNothing("Error")
        ELSE Upto(Greatest(Fitting(c.read, Len(pieces), room)), Len(pieces))
  IN  IF c.shut THEN OpensNothing("Close") ELSE Of(CipherPending(c.rx))

\* f_ConsumeCipher after the library, and the records it answers with
Open(c, room) ==
  LET Answered(o, consumed) ==
        [o |-> o, c |-> IF o.replies = 0 THEN consumed ELSE Write(consumed, "ctl", o.replies)]
      Done(o) ==
        Answered(o, [c EXCEPT !.rx = ConsumeCipher(@, o.units), !.read = @ + o.records])
  IN  Done(Opened(c, room))

Terminal(c, verdict) == [c EXCEPT !.ssl = verdict]

\* Mutant: the end of the stream does not wait for plaintext held over.
EndsAtOnce(c, verdict) == Terminal(c, verdict)

\* fShutdown and fReadFailed: behind plaintext that is held
EndsBehindHeld(c, verdict) ==
  IF c.rx.held # <<>> THEN [c EXCEPT !.rx.afterHeld = verdict] ELSE Terminal(c, verdict)

\* f_TakeHeld, and the end that waited for the last of it
TakeHeld(c, room) ==
  LET Ended(took) ==
        IF took.rx.held = <<>> /\ took.rx.afterHeld # "Nothing"
        THEN [took EXCEPT !.ssl = took.rx.afterHeld, !.rx.afterHeld = "Nothing"]
        ELSE took
  IN  Ended([c EXCEPT !.given = @ \o HeldFor(c.rx, room), !.rx = HeldTaken(@, room)])

\* What a call has come to: going on, done, or thrown out of.
Going(c) == [c |-> c, is |-> "Going", network |-> FALSE]

\* The end the library found, if it found one, and whether that is the end of the call.
Concluded(opened, c, produced) ==
  CASE opened.is = "Error" ->
         IF c.error THEN [c |-> Terminal(c, "ReadFailed"), is |-> "Thrown"]
         ELSE [c |-> EndsBehindHeld(c, "ReadFailed"), is |-> "Done"]
    [] opened.is = "Close" -> [c |-> EndsBehindHeld(c, "Shutdown"), is |-> "Done"]
    [] OTHER -> [c |-> c, is |-> IF produced THEN "Done" ELSE "Going"]

\* f_BeginHold and f_CommitHold: one call of the library into the hold
OpenHold(c, room) ==
  LET Held(opening) == [opening.c EXCEPT !.rx = HoldPlain(@, opening.o.plain)]
      Began(opening) ==
        [o |-> opening.o,
         c |-> IF opening.o.plain = <<>> THEN opening.c ELSE TakeHeld(Held(opening), room)]
  IN  Began(Open(c, HoldSize))

\* One turn of the loop of f_TryOpenInto.
OpenTurn(t, room) ==
  LET pieces == Len(CipherPending(t.c.rx))
      Stuck(o) == o.is = "More" /\ o.units = 0
      After(o, end) == [c |-> end.c, is |-> end.is, network |-> t.network \/ o.plain # <<>>]
      Opens(o, c) == After(o, Concluded(o, c, o.plain # <<>>))
      Fills(fill) ==
        CASE fill.is = "Data" -> [c |-> fill.c, is |-> "Going", network |-> TRUE]
          [] fill.is = "WouldBlock" -> [c |-> fill.c, is |-> "Done", network |-> t.network]
          [] OTHER -> [c |-> Blame(fill.c, "ReadFailed"), is |-> "Thrown", network |-> t.network]
      Turn(direct, hold, fill) ==
        IF pieces > 0 /\ ~Stuck(direct.o)
        THEN Opens(direct.o, [direct.c EXCEPT !.given = @ \o direct.o.plain])
        ELSE IF pieces > 1 /\ ~Stuck(hold.o) THEN Opens(hold.o, hold.c) ELSE Fills(fill)
  IN  Turn(Open(t.c, room), OpenHold(t.c, room), Fill(t.c))

\* f_TryOpenInto, the path without copies of ciphertext
TryOpenInto(c, room) ==
  LET Onward(before) == IF before.is = "Going" THEN OpenTurn(before, room) ELSE before
      Turn[k \in 0 .. 2 * Total + 2] == IF k = 0 THEN Going(c) ELSE Onward(Turn[k - 1])
  IN  IF c.rx.held # <<>>
      THEN [Going(TakeHeld(c, room)) EXCEPT !.is = "Done"]
      ELSE Turn[2 * Total + 2]

-----------------------------------------------------------------------------
(* The transfers of a build that copies ciphertext: the library reads and  *)
(* writes through the transport, and keeps what it has read in part and    *)
(* what it has opened and not yet given.                                   *)

\* CInternal::f_Send: SSL_write of a record, which the transport takes whole or,
\* once it has failed, not at all
SendRecord(c) ==
  IF c.error THEN [c |-> Blame(c, "WriteFailed"), sent |-> FALSE]
  ELSE [c |-> IF IsFull(Sealed(c, "data", 1).tx) THEN Flush(Sealed(c, "data", 1)) ELSE Sealed(c, "data", 1),
        sent |-> TRUE]

\* external: SSL_read of a record that is there in full
OpenRead(t, kind) ==
  LET next == [t.c EXCEPT !.part = 0, !.read = @ + 1]
      plain == Interval(PlainBefore(t.c.read), RecordPlain)
  IN  CASE kind = "data" -> [t EXCEPT !.c = [next EXCEPT !.rx = HoldPlain(@, plain)]]
        [] kind = "ctl" -> [t EXCEPT !.c = Write(next, "ctl", 1)]
        [] kind = "close" -> [t EXCEPT !.c = Terminal(next, "Shutdown"), !.is = "Done"]
        [] OTHER -> [t EXCEPT !.c = Terminal(@, "ReadFailed"), !.is = "Done"]

\* external: SSL_read, as far as its next read of the transport
ReadTurn(t, room) ==
  LET c == t.c
      Read(unit) ==
        CASE unit.is = "Data" -> [t EXCEPT !.c = [unit.c EXCEPT !.part = @ + 1]]
          [] unit.is = "WouldBlock" -> [t EXCEPT !.c = unit.c, !.is = "Done"]
          [] OTHER -> [t EXCEPT !.c = Blame(unit.c, "ReadFailed"), !.is = "Thrown"]
  IN  CASE c.rx.held # <<>> -> [t EXCEPT !.c = TakeHeld(c, room), !.is = "Done"]
        [] c.rx.held = <<>> /\ c.read < Len(stream) /\ c.part = Size(stream[c.read + 1]) ->
             OpenRead(t, stream[c.read + 1])
        [] OTHER -> Read(ReadUnit(c))

\* CInternal::f_Receive: what the transport kept goes out before the read waits.
ReceiveThrough(c, room) ==
  LET Onward(before) == IF before.is = "Going" THEN ReadTurn(before, room) ELSE before
      Turn[k \in 0 .. 2 * Total + 2] == IF k = 0 THEN Going(Flush(c)) ELSE Onward(Turn[k - 1])
      Moved(t) == [t EXCEPT !.network = t.c.taken # c.taken \/ t.c.wire # c.wire]
  IN  Moved(Turn[2 * Total + 2])

-----------------------------------------------------------------------------
(* The handshake.                                                          *)

Failed(c) == [c |-> c, is |-> "Failed"]
Continued(c) == [c |-> [c EXCEPT !.script = Tail(@), !.flushing = FALSE], is |-> "Going"]

\* fg_SSLTransportBioRead: the library waits for more, or sees the end of it all.
BioRead(c) ==
  LET Gives(read) ==
        CASE read.is = "Data" -> Going([read.c EXCEPT !.read = @ + 1])
          [] read.is = "WouldBlock" -> [Going(read.c) EXCEPT !.is = "Wanting"]
          [] OTHER -> [Going(read.c) EXCEPT !.is = "Failed"]
  IN  Gives(ReadUnit(c))

\* fg_SSLTransportBioWrite: a flight is taken whole, or the transport had failed.
BioWrite(c) ==
  [Going(Write(c, "hs", 1)) EXCEPT !.is = IF c.error THEN "Failed" ELSE "Going"]

\* fg_SSLTransportBioCtrl, BIO_CTRL_FLUSH: the library waits until all of it has left.
BioFlush(c) ==
  LET Left(flushed) ==
        [Going(flushed) EXCEPT
           !.is = IF flushed.error THEN "Failed" ELSE IF FlushDone(flushed.tx) THEN "Going" ELSE "Wanting"]
  IN  Left(Flush(c))

\* The library after its flight is written: it flushes until that has left.
Flown(flushed) ==
  CASE flushed.is = "Failed" -> Failed(flushed.c)
    [] flushed.is = "Going" -> Continued(flushed.c)
    [] OTHER -> [c |-> [flushed.c EXCEPT !.flushing = TRUE], is |-> "Wanting"]

\* external: one step of SSL_connect or SSL_accept
HandshakeStep(c) ==
  CASE c.script = <<>> -> [c |-> c, is |-> "Established"]
    [] c.script # <<>> /\ Head(c.script) = "Write" ->
         LET Wrote(wrote) == IF wrote.is = "Failed" THEN Failed(wrote.c) ELSE Flown(BioFlush(wrote.c))
         IN  IF c.flushing THEN Flown(BioFlush(c)) ELSE Wrote(BioWrite(c))
    [] c.script # <<>> /\ Head(c.script) = "Read" ->
         LET Given(read) ==
               CASE read.is = "Going" ->
                      IF Agrees(scenario.settings, scenario.peer, scenario.group)
                      THEN Continued(read.c) ELSE Failed(Write(read.c, "hs", 1))
                 [] read.is = "Wanting" -> [c |-> read.c, is |-> "Wanting"]
                 [] OTHER -> Failed(read.c)
         IN  Given(BioRead(c))
    [] OTHER ->
         LET told == [c EXCEPT !.result = Verified(scenario.settings, scenario.peer)]
         IN  IF VerificationFails(scenario.settings, scenario.peer)
             THEN Failed(Write(told, "hs", 1)) ELSE Continued(told)

\* fp_GenerateSystemErrors: all but a library that wants to go on is a failure.
GenerateSystemErrors(run) ==
  IF run.is = "Wanting" THEN run ELSE Failed([run.c EXCEPT !.ssl = "ConnectionFailed"])

\* fp_Process and fp_ProcessConnection
Process(c) ==
  LET Onward(before) == IF before.is = "Going" THEN HandshakeStep(before.c) ELSE before
      Step[k \in 0 .. Len(c.script) + 1] ==
        IF k = 0 THEN [c |-> c, is |-> "Going"] ELSE Onward(Step[k - 1])
      Ran(run, settings, expected) ==
        CASE run.is = "Established" ->
               IF Accepted(settings, run.c.result, expected)
               THEN [run EXCEPT !.c.connected = TRUE]
               ELSE Failed([run.c EXCEPT
                              !.result = Decided(settings, @),
                              !.ssl = IF AskUser(settings, run.c.result, expected)
                                      THEN "UserDecision" ELSE "ConnectionFailed"])
          [] OTHER -> GenerateSystemErrors(run)
  IN  Ran(Step[Len(c.script) + 1], scenario.settings,
          {Verified(scenario.settings, p) : p \in scenario.decided})

-----------------------------------------------------------------------------
(* The calls of the owner.                                                 *)

\* CSSLConnection::f_Shutdown, over a library that is quiet: it says nothing to the
\* peer, and what is left to say is flushed unless a drain will carry it.
LibraryShutdown(c) ==
  LET shut == [c EXCEPT !.shut = TRUE] IN IF c.tx.completion THEN shut ELSE Flush(shut)

\* fp_ContinueShutdown
ContinueShutdown(c) ==
  LET Goes(flushed) == IF flushed.inFlight > 0 \/ flushed.tx.pending > 0 THEN flushed
                       ELSE [flushed EXCEPT !.state = "ShutdownSocket"]
  IN  Goes(LibraryShutdown(c))

\* f_Shutdown
Shutdown(c) == ContinueShutdown([c EXCEPT !.state = "Shutdown"])

\* fp_HandleHandshake: whether the call may go on
HandleHandshake(c) ==
  LET Ran(run) ==
        CASE run.is = "Established" ->
               [c |-> AddTCPState([run.c EXCEPT !.state = "Done"], {"Read", "Write"}), may |-> TRUE]
          [] run.is = "Wanting" -> [c |-> run.c, may |-> FALSE]
          [] OTHER ->
               [c |-> AddTCPState([run.c EXCEPT !.state = "Disconnected"], {"Closed"}), may |-> FALSE]
  IN  CASE c.state = "Done" -> [c |-> c, may |-> TRUE]
        [] c.state = "Shutdown" -> [c |-> ContinueShutdown(c), may |-> FALSE]
        [] c.state \in {"ShutdownSocket", "Disconnected"} -> [c |-> c, may |-> FALSE]
        [] OTHER -> Ran(Process(IF c.state = "Connect" THEN [c EXCEPT !.state = "Connected"] ELSE c))

\* f_Receive
Receive(c, room) ==
  LET Got(received) ==
        IF received.is = "Thrown" \/ Len(received.c.given) > Len(c.given) THEN received
        ELSE [received EXCEPT !.c = CheckBrokenState(@)]
      Shaken(shaken) ==
        CASE ~shaken.may -> [Going(shaken.c) EXCEPT !.is = "Done"]
          [] shaken.may /\ Broken(shaken.c) -> [Going(CheckBrokenState(shaken.c)) EXCEPT !.is = "Done"]
          [] OTHER -> Got(IF scenario.direct THEN TryOpenInto(shaken.c, room)
                          ELSE ReceiveThrough(shaken.c, room))
  IN  Shaken(HandleHandshake(c))

\* f_Send of nothing: a write edge
SendNothing(c) ==
  LET Shaken(shaken) ==
        IF ~shaken.may THEN shaken.c
        ELSE IF Broken(shaken.c) THEN CheckBrokenState(shaken.c) ELSE FlushPending(shaken.c)
  IN  IF c.state = "ShutdownSocket" THEN c ELSE Shaken(HandleHandshake(c))

\* f_SendVectored when the library does not seal all at once: a record at a time
\* in a batch, each over the cap flushed, until one finds no room or is not taken.
Batched(c, n) ==
  LET Put(before, record) ==
        [c |-> record.c,
         sent |-> before.sent + (IF record.sent THEN 1 ELSE 0),
         is |-> IF record.sent THEN "Going" ELSE "Thrown"]
      More(before, ready) ==
        IF IsFull(ready.tx) THEN [before EXCEPT !.c = ready, !.is = "Done"]
        ELSE Put(before, SendRecord(ready))
      Onward(before) ==
        IF before.is # "Going" THEN before
        ELSE More(before, IF IsFull(before.c.tx) THEN FlushPending(before.c) ELSE before.c)
      Turn[k \in 0 .. n] ==
        IF k = 0 THEN [c |-> c, sent |-> 0, is |-> "Going"] ELSE Onward(Turn[k - 1])
  IN  Turn[n]

\* f_SendVectored: what it makes of n units of plaintext
SendVectored(c, n) ==
  LET Nothing(shut) == [c |-> shut, sent |-> 0, is |-> "Done"]
      Flushes(batch) == IF batch.is = "Thrown" THEN batch ELSE [batch EXCEPT !.c = FlushPending(@)]
      Seen(flushed) ==
        IF flushed.is # "Thrown" /\ flushed.sent = 0
        THEN [flushed EXCEPT !.c = CheckBrokenState(@)] ELSE flushed
      Shaken(shaken) ==
        CASE ~shaken.may -> Nothing(shaken.c)
          [] shaken.may /\ Broken(shaken.c) -> Nothing(CheckBrokenState(shaken.c))
          [] OTHER ->
               IF scenario.direct /\ ~IsFull(shaken.c.tx)
               THEN [c |-> FlushPending(Sealed(shaken.c, "data", n)), sent |-> n, is |-> "Done"]
               ELSE Seen(Flushes(Batched(shaken.c, n)))
  IN  IF c.state = "ShutdownSocket" THEN Nothing(c) ELSE Shaken(HandleHandshake(c))
=============================================================================

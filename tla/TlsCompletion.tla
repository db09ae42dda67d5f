---------------------------- MODULE TlsCompletion ----------------------------
(***************************************************************************)
(* The completion side of CSocket_SSL.  A submission is sealed into the    *)
(* fill and linked to its generation; one whose generation cannot go next  *)
(* is parked with its functors, and what does go next is carried under the *)
(* functors of whoever calls.  A completion drains a generation, resolves  *)
(* the operations in it and asks for a continuation while there is more;   *)
(* the release unpins it.  The receive stream hands over ciphertext in     *)
(* segments and has it opened on the thread of the actor.                  *)
(*                                                                         *)
(* c.ops are the operations in use in the order they were submitted, which *)
(* is their order in the list of each generation.  c.kernel is what the    *)
(* platform has of them, c.mail what its callbacks posted to the actor.    *)
(***************************************************************************)
EXTENDS TlsSocket

None == 0  \* mc_iTransferNone; generations count from one

Completed(transfer, n, ok) == [kind |-> "Completed", transfer |-> transfer, n |-> n, ok |-> ok]
Released(transfer) == [kind |-> "Released", transfer |-> transfer, n |-> 0, ok |-> TRUE]
Post(c, jobs) == [c EXCEPT !.mail = @ \o jobs]

-----------------------------------------------------------------------------
(* The gates.                                                              *)

\* f_CanBeginSend
CanBeginSend(c) == ~c.error /\ ~SendWindowFull(c.tx)

\* f_NextBeginSend
NextBeginSend(c) == IF CanBeginSend(c) /\ c.tx.unsent # <<>> THEN Head(c.tx.unsent) ELSE None

\* f_CanSubmitSend
CanSubmitSend(c) == ~c.failed /\ CanBeginSend(c) /\ ~IsFull(c.tx)

\* Mutant: records nobody submitted wait for the next submission.
WaitsForSubmission(c) == FALSE

\* f_HasPendingOutput
HasPendingOutput(c) == c.tx.unpinned > 0 /\ CanBeginSend(c)

\* f_IsSendWindowFull: never full, but the window may grow.
AskedWindow(c) ==
  IF c.wasFull \/ ~CanBeginSend(c)
  THEN {[c EXCEPT !.wasFull = FALSE, !.tx = tx] : tx \in GrownWindows(c.tx)}
  ELSE {c}

\* f_GetCompletionIo
GetCompletionIo(c) ==
  /\ scenario.direct /\ scenario.completion
  /\ c.state # "ShutdownSocket"
  /\ c.connected
  /\ ~Broken(c)

\* f_OnCompletionActivated
Activated(c) ==
  LET deep == WithDepth(c.tx, scenario.depth)
  IN  [c EXCEPT
         !.active = TRUE,
         !.tx = [WithWindow(deep, c.window) EXCEPT !.completion = TRUE],
         !.rx.completion = TRUE]

\* f_SetSendWindow, on a socket that is slow to release
SetSendWindow(c, n) ==
  LET set == [c EXCEPT !.window = n, !.windowPending = FALSE]
  IN  CASE ~c.active \/ n = 0 -> set
        [] c.active /\ n # 0 /\ c.tx.nPinned > 0 -> [set EXCEPT !.windowPending = TRUE]
        [] OTHER -> [set EXCEPT !.tx = WithWindow(@, n)]

-----------------------------------------------------------------------------
(* Operations.                                                             *)

\* CSendOperation
NewOperation(buffer, plaintext) ==
  [buffer |-> buffer, plaintext |-> plaintext, functors |-> FALSE,
   resolved |-> FALSE, released |-> FALSE]

\* fp_AllocateSendOperation and fp_LinkSendOperation: the last of its generation
AllocateSendOperation(c, op) == [c EXCEPT !.ops = Append(@, op)]

\* fp_TryFreeSendOperation
InUse(ops) == Selected(ops, {i \in DOMAIN ops : ~(ops[i].resolved /\ ops[i].released)})

\* Mutant: a completion resolves the operations of every generation.
ResolveOpsOfAll(c, buffer) ==
  LET carried == Selected(c.ops, {i \in DOMAIN c.ops : ~c.ops[i].resolved /\ ~c.ops[i].functors})
      Sum[k \in 0 .. Len(carried)] == IF k = 0 THEN 0 ELSE Sum[k - 1] + carried[k].plaintext
      resolved == [i \in DOMAIN c.ops |-> [c.ops[i] EXCEPT !.resolved = TRUE]]
  IN  [c EXCEPT !.ops = InUse(resolved), !.held = @ + Sum[Len(carried)]]

\* fp_ResolveOpsForBuffer: parked operations report for themselves, the rest is
\* what the carrier of this generation reports.
ResolveOpsForBuffer(c, buffer) ==
  LET here == {i \in DOMAIN c.ops : c.ops[i].buffer = buffer /\ ~c.ops[i].resolved}
      parked == Selected(c.ops, {i \in here : c.ops[i].functors})
      carried == Selected(c.ops, {i \in here : ~c.ops[i].functors})
      Sum[k \in 0 .. Len(carried)] == IF k = 0 THEN 0 ELSE Sum[k - 1] + carried[k].plaintext
      resolved == [i \in DOMAIN c.ops |->
                     IF i \in here THEN [c.ops[i] EXCEPT !.resolved = TRUE] ELSE c.ops[i]]
  IN  Post([c EXCEPT !.ops = InUse(resolved), !.held = @ + Sum[Len(carried)]],
           [i \in DOMAIN parked |-> Completed(None, parked[i].plaintext, TRUE)])

\* fp_ReleaseOpsForBuffer
ReleaseOpsForBuffer(c, buffer) ==
  LET here == {i \in DOMAIN c.ops : c.ops[i].buffer = buffer /\ ~c.ops[i].released}
      parked == Selected(c.ops, {i \in here : c.ops[i].functors})
      released == [i \in DOMAIN c.ops |->
                     IF i \in here THEN [c.ops[i] EXCEPT !.released = TRUE] ELSE c.ops[i]]
  IN  Post([c EXCEPT !.ops = InUse(released)], [i \in DOMAIN parked |-> Released(None)])

\* fp_FailAllSendOperations
FailAllSendOperations(c) ==
  LET Failures(op) ==
        IF ~op.functors THEN <<>>
        ELSE (IF op.resolved THEN <<>> ELSE <<Completed(None, 0, FALSE)>>)
             \o (IF op.released THEN <<>> ELSE <<Released(None)>>)
  IN  Post([c EXCEPT !.ops = <<>>], Concatenated([i \in DOMAIN c.ops |-> Failures(c.ops[i])]))

\* ~CSocket_SSL and f_Close: staged functors fire, kernel operations are on their own.
Close(c) == FailAllSendOperations([c EXCEPT !.failed = TRUE, !.events = {}])

FailSend(c) == CheckBrokenState([c EXCEPT !.ssl = "WriteFailed"])

\* fp_SubmitPinnedSend, for a generation just begun, by what the platform takes of it
SubmitPinnedSend(c, buffer, records, takes) ==
  LET n == IF takes = "Partly" THEN Len(records) - 1 ELSE Len(records)
      submitted == [c EXCEPT
                      !.inFlight = @ + 1,
                      !.kernel = Append(@, [buffer |-> buffer, records |-> First(records, n),
                                            stage |-> "Queued"])]
  IN  CASE takes = "Whole" -> [c |-> submitted, taken |-> TRUE]
        [] takes = "Partly" /\ n > 0 ->
             [c |-> FailAllSendOperations(FailSend(submitted)), taken |-> FALSE]
        [] OTHER ->
             [c |-> FailAllSendOperations(FailSend([c EXCEPT !.tx = ReleasePin(@, buffer)])),
              taken |-> FALSE]

\* fp_ParkSendOperation, for the operation just linked
ParkSendOperation(c) == [c EXCEPT !.ops[Len(c.ops)].functors = TRUE]

\* fp_CarrySend, over the windows f_BeginSend may find
CarrySend(c, submission, takes) ==
  LET grown == IF SendWindowFull(c.tx) /\ c.tx.unsent # <<>> THEN GrownWindows(c.tx) ELSE {c.tx}
      Waits(w) ==
        IF submission THEN ParkSendOperation(w)
        ELSE Post([w EXCEPT !.held = 0], <<Completed(None, c.held, TRUE), Released(None)>>)
      Carried(w, next) ==
        IF next = None THEN [c |-> Waits(w), taken |-> TRUE]
        ELSE SubmitPinnedSend([w EXCEPT !.tx = BeginSend(@)], next, w.tx.out[next].records, takes)
      Windowed(w) == Carried(w, NextBeginSend(w))
  IN  {Windowed([c EXCEPT !.tx = tx]) : tx \in grown}

Refuses(c) == c.state = "ShutdownSocket" \/ Broken(c) \/ c.failed
Refused(c) == [c |-> CheckBrokenState(c), taken |-> FALSE]

\* f_SubmitSendVectored, when the library seals k of the n units offered.
SubmitSend(c, n, k, takes) ==
  LET Linked(sealed) ==
        AllocateSendOperation(sealed, NewOperation(c.tx.fill, k))
      Goes(linked) ==
        IF NextBeginSend(linked) # c.tx.fill
        THEN {[c |-> ParkSendOperation(linked), taken |-> TRUE]}
        ELSE CarrySend(linked, TRUE, takes)
  IN  CASE Refuses(c) -> {Refused(c)}
        [] ~Refuses(c) /\ k = 0 -> {[c |-> FailSend(c), taken |-> FALSE]}
        [] OTHER ->
             Goes(Linked(Sealed(IF k < n THEN [c EXCEPT !.ssl = "WriteFailed"] ELSE c, "data", k)))

\* f_ContinueSend
ContinueSend(c, takes) == IF Refuses(c) THEN {Refused(c)} ELSE CarrySend(c, FALSE, takes)

\* f_ResolveSend: whether the transfer is over, and the plaintext it then reports
ResolveSend(c, transfer, ok) ==
  LET counted == [c EXCEPT !.inFlight = @ - 1]
      Told(p) == [p EXCEPT !.held = 0]
      Shut(p) == IF c.state = "Shutdown" /\ p.inFlight = 0 /\ p.tx.pending = 0
                 THEN ContinueShutdown(p) ELSE p
      Goes(marked) ==
        IF HasPendingOutput(marked) THEN [c |-> marked, over |-> FALSE, n |-> 0]
        ELSE [c |-> Shut(Told(marked)), over |-> TRUE, n |-> marked.held]
      Drained(p) ==
        IF Broken(p) THEN [c |-> CheckBrokenState(Told(p)), over |-> TRUE, n |-> p.held]
        ELSE Goes(IF CanBeginSend(p) THEN p ELSE [p EXCEPT !.wasFull = TRUE])
  IN  CASE ~ok -> [c |-> FailAllSendOperations(Told([counted EXCEPT !.failed = TRUE])),
                   over |-> TRUE, n |-> 0]
        [] ok /\ c.failed -> [c |-> counted, over |-> TRUE, n |-> 0]
        [] OTHER -> Drained(ResolveOpsForBuffer([counted EXCEPT !.tx = SendDrained(@, transfer)],
                                                transfer))

\* f_ResolveSendRelease
ResolveSendRelease(c, buffer) ==
  LET Then(released) ==
        IF c.windowPending /\ released.tx.nPinned = 0
        THEN [released EXCEPT !.windowPending = FALSE, !.tx = WithWindow(@, c.window)]
        ELSE released
  IN  Then(ReleaseOpsForBuffer([c EXCEPT !.tx = ReleasePin(@, buffer)], buffer))

-----------------------------------------------------------------------------
(* The receive stream.                                                     *)

Segment(kind, data) == [kind |-> kind, data |-> data]

\* f_ReceiveStreamEndedByProtocol
StreamEndedByProtocol(c) == Broken(c)

ReceiveRefused(c) == c.state = "ShutdownSocket" \/ Broken(c)

\* f_ResolveReceiveSegment: what it gives the actor is in c.given; it fails on
\* the end of a stream that has not been closed.
ResolveReceiveSegment(c, segment, room) ==
  LET data == segment.kind = "Data"
      Gives(p) == Len(p.given) > Len(c.given)
      Ended(p) == [c |-> p, produced |-> Gives(p),
                   fails |-> segment.kind = "Lost" \/ (~data /\ p.ssl # "Shutdown")]
      Opens(p) == CheckBrokenState(FlushPending(TryOpenInto(p, room).c))
      Stalled(p) == IF data /\ ~Gives(p) THEN [p EXCEPT !.rx = CompactIfStalled(@)] ELSE p
  IN  IF ReceiveRefused(c)
      THEN [c |-> CheckBrokenState([c EXCEPT !.rx = ClearCipherQueue(@)]), produced |-> FALSE,
            fails |-> segment.kind = "Lost"]
      ELSE Ended(Stalled(Opens(IF data THEN [c EXCEPT !.rx = AppendSegment(@, segment.data)] ELSE c)))

\* f_ResolveHeld
ResolveHeld(c, room) ==
  LET Gave(p) == [c |-> p, produced |-> Len(p.given) > Len(c.given)]
  IN  IF ReceiveRefused(c) THEN [c |-> c, produced |-> FALSE]
      ELSE Gave(CheckBrokenState(TryOpenInto(c, room).c))
=============================================================================

---------------------------- MODULE TlsConnection ----------------------------
(***************************************************************************)
(* A TLS connection at work: the actor's handlers over CSocket_SSL, with   *)
(* the platform socket, the loop and the peer running beside them.         *)
(***************************************************************************)
EXTENDS TlsCompletion

\* The state the way of opening begins with: f_AdoptSocket by the kind of context.
FirstState ==
  IF scenario.way \in {"Connect", "AsyncConnect"} THEN "Connect"
  ELSE IF scenario.way = "Accept" \/ scenario.settings.server THEN "Accept" ELSE "Connected"

\* A socket as it is constructed, and as its owner was told to open it.
NewSocket ==
  [state |-> FirstState,
   ssl |-> "None", connected |-> FALSE, error |-> FALSE, reported |-> FALSE, shut |-> FALSE,
   script |-> Script, flushing |-> FALSE, result |-> NoResult,
   tx |-> NoOutput, rx |-> NoInput, read |-> 0, part |-> 0, given |-> <<>>, sealed |-> <<>>,
   active |-> FALSE, failed |-> FALSE, window |-> scenario.window, windowPending |-> FALSE,
   wasFull |-> FALSE, ops |-> <<>>, held |-> 0, inFlight |-> 0,
   events |-> {}, mail |-> <<>>, kernel |-> <<>>, ended |-> FALSE,
   wire |-> <<>>, room |-> scenario.room, armed |-> FALSE, taken |-> 0]

\* A context that could not be made opens no connection.
Init ==
  /\ scenario \in {x \in Scenarios : ~ContextFails(x.settings)}
  /\ left = scenario.may
  /\ s = NewSocket
  /\ arrived = 0
  /\ finished = FALSE
  /\ lost = FALSE
  /\ segments = <<>>
  /\ actor =
       [state |-> "None", call |-> "Start", todo |-> {}, did |-> FALSE, valid |-> TRUE,
        submitted |-> 0, credited |-> 0, inFlight |-> 0, stream |-> "No", drain |-> FALSE,
        deferred |-> FALSE, shutdownCalled |-> FALSE, segment |-> "None", fails |-> FALSE]

-----------------------------------------------------------------------------
(* The actor.                                                              *)

Running(call) == actor.call = call /\ actor.valid
Idle == Running("Idle")

\* m_nOutgoingQueuedBytes
Queued(a) == IF a.state = "None" THEN 0 ELSE scenario.sends - a.credited

\* A step of the actor: what it leaves of the socket and of itself.
Step(c, a) ==
  /\ s' = c
  /\ actor' = a
  /\ UNCHANGED <<scenario, arrived, finished, lost>>

At(a, call) == [a EXCEPT !.call = call]

\* fp_Disconnect of a fatal kind, and a closed socket: the actor lets go of it.
Fatal(c, a) ==
  Step(Close(c), [At(a, "Idle") EXCEPT !.state = "Disconnected", !.valid = FALSE, !.todo = {}])

\* Submissions may be refused, or taken in part, once.
Takes == {"Whole"} \cup (IF lost \/ "Refuse" \in left THEN {"Refused"} ELSE {})
                   \cup (IF "Partly" \in left THEN {"Partly"} ELSE {})

\* The actor after the socket took a submission, of n more units, or refused it.
Submitted(result, a, n) ==
  IF result.taken
  THEN Step(result.c, [a EXCEPT !.inFlight = @ + 1, !.submitted = @ + n])
  ELSE Fatal(result.c, a)

\* fp_DrainSocketOutput
DrainSocketOutput(c, a) ==
  IF a.valid /\ c.active /\ HasPendingOutput(c)
  THEN \E takes \in Takes : \E result \in ContinueSend(c, takes) : Submitted(result, a, 0)
  ELSE Step(c, a)

\* f_StartReceiveStream of a socket that is neither shut down nor broken
StartReceiveStream(c, a) ==
  IF ReceiveRefused(c) THEN [c |-> CheckBrokenState(c), a |-> a]
  ELSE [c |-> c, a |-> [a EXCEPT !.stream = "Active", !.drain = TRUE]]

\* fp_TryActivateCompletionIo and fp_StartReceiveStream
TryActivate(c, a) ==
  IF a.state = "Connected" /\ ~c.active /\ GetCompletionIo(c)
  THEN StartReceiveStream(Activated(c), a)
  ELSE [c |-> c, a |-> a]

\* fp_CheckHandshake; what it does after activation is left to do.
CheckHandshake(c, a) ==
  LET Sent(p) ==
        IF p.state # "Done" THEN [c |-> p, a |-> a]
        ELSE TryActivate(p, [a EXCEPT !.state = "Connected", !.todo = @ \cup {"Write"}])
  IN  IF a.state # "None" THEN [c |-> c, a |-> a] ELSE Sent(SendNothing(c))

\* f_Connect, f_AsyncConnect with its report, f_Accept, f_InheritHandle, f_AdoptSocket
Start ==
  /\ Running("Start")
  /\ Step(IF scenario.way = "AsyncConnect" THEN AddTCPState(s, {"Read"}) ELSE HandleHandshake(s).c,
          At(actor, "Idle"))
  /\ UNCHANGED <<left, segments>>

\* fp_ProcessStateNow: a close waits for the end of the stream.
ProcessState ==
  LET defers == actor.stream = "Active" /\ actor.state # "Disconnected"
      now == IF defers THEN s.events \ {"Closed"} ELSE s.events
  IN  /\ Idle
      /\ s.events # {}
      /\ Step([s EXCEPT !.events = {}],
              [At(actor, IF now = {} THEN "Idle" ELSE IF "Read" \in now THEN "Receiving" ELSE "Rest")
                 EXCEPT !.todo = now \ {"Read"},
                        !.deferred = @ \/ (defers /\ "Closed" \in s.events)])
      /\ UNCHANGED <<left, segments>>

\* fp_ProcessStateNow, the loop of its receives: one of them.
ReceiveOnce ==
  /\ Running("Receiving")
  /\ LET Active(active) == Step(active.c, At(active.a, "Rest"))
         Checked(checked, goes) == Step(checked.c, At(checked.a, IF goes THEN "Receiving" ELSE "Rest"))
         Received(received) ==
           IF received.is = "Thrown" THEN Fatal(received.c, actor)
           ELSE Checked(CheckHandshake(received.c, actor),
                        received.network \/ Len(received.c.given) > Len(s.given))
     IN  IF s.active \/ TryActivate(s, actor).c.active
         THEN Active(TryActivate(s, actor))
         ELSE \E room \in Delivery : Received(Receive(s, room))
  /\ UNCHANGED <<left, segments>>

\* fp_ProcessStateNow, a close and then a write edge
ProcessRest ==
  /\ Running("Rest")
  /\ CASE "Closed" \in actor.todo -> Fatal(s, actor)
       [] "Write" \in actor.todo /\ "Closed" \notin actor.todo ->
            Step(s, [At(actor, "Sending") EXCEPT !.todo = {}, !.did = FALSE])
       [] OTHER -> Step(s, At(actor, "Idle"))
  /\ UNCHANGED <<left, segments>>

\* fp_UpdateSend before there is anything to send
SendHandshake ==
  /\ Running("Sending")
  /\ actor.state = "None"
  /\ LET Checked(checked) ==
           IF checked.a.state = "None"
           THEN Step(SendNothing(checked.c), At(checked.a, "Idle"))
           ELSE Step(checked.c, At([checked.a EXCEPT !.todo = {}], "Sending"))
     IN  Checked(CheckHandshake(s, actor))
  /\ UNCHANGED <<left, segments>>

\* fp_UpdateSend on readiness: one gather, or the flush of nothing
SendReady ==
  /\ Running("Sending")
  /\ actor.state # "None"
  /\ ~s.active
  /\ \/ /\ Queued(actor) > 0
        /\ \E n \in 1 .. SendMost :
             /\ n <= Queued(actor)
             /\ LET Sends(sending) ==
                   IF sending.is = "Thrown" THEN Fatal(sending.c, actor)
                   ELSE Step(sending.c,
                             [At(actor, IF sending.sent = n THEN "Sending" ELSE "Sent") EXCEPT
                                !.credited = @ + sending.sent, !.did = TRUE])
                IN  Sends(SendVectored(s, n))
     \/ /\ Queued(actor) = 0
        /\ Step(IF actor.did THEN s ELSE SendNothing(s), At(actor, "Sent"))
  /\ UNCHANGED <<left, segments>>

\* f_IsSendWindowFull, asked when anything is queued
Asked == IF Queued(actor) = 0 THEN {s} ELSE AskedWindow(s)
MaySubmit(c) == CanSubmitSend(c) /\ Queued(actor) > actor.submitted

\* fp_UpdateSend and fp_SubmitSendOp on completion: one submission
SubmitOnce ==
  /\ Running("Sending")
  /\ s.active
  /\ \E n \in 1 .. SendMost, c \in Asked, takes \in Takes :
       \E k \in (IF "SealFails" \in left THEN 0 .. n ELSE {n}) :
         /\ MaySubmit(c)
         /\ actor.submitted + n <= Queued(actor)
         /\ \E result \in SubmitSend(c, n, k, takes) : Submitted(result, actor, k)
         /\ left' = left \ ((IF k < n THEN {"SealFails"} ELSE {})
                            \cup (IF takes = "Whole" THEN {} ELSE {"Refuse", "Partly"}))
  /\ UNCHANGED segments

StopSubmitting ==
  /\ Running("Sending")
  /\ s.active
  /\ \E c \in Asked : ~MaySubmit(c) /\ Step(c, At(actor, "Sent"))
  /\ UNCHANGED <<left, segments>>

\* fp_Shutdown, once
Shuts(a) == a.state = "Disconnected" /\ ~a.shutdownCalled /\ Queued(a) = 0 /\ a.inFlight = 0
ShutDown(c, a) ==
  DrainSocketOutput(Shutdown(c), [a EXCEPT !.shutdownCalled = TRUE])

\* the end of fp_UpdateSend
FinishSend ==
  /\ Running("Sent")
  /\ IF Shuts(actor) THEN ShutDown(s, At(actor, "Draining"))
     ELSE DrainSocketOutput(s, At(actor, "Draining"))
  /\ UNCHANGED <<left, segments>>

\* fp_DrainSocketOutput at the end of the handler
FinishDrain ==
  /\ Running("Draining")
  /\ DrainSocketOutput(s, At(actor, "Idle"))
  /\ UNCHANGED <<left, segments>>

\* f_Close of the actor
AppCloses ==
  /\ Idle
  /\ "Close" \in left
  /\ actor.state = "Connected"
  /\ LET closed == [actor EXCEPT !.state = "Disconnected"] IN
       IF Shuts(closed) THEN ShutDown(s, closed) ELSE Step(s, closed)
  /\ left' = left \ {"Close"}
  /\ UNCHANGED segments

\* f_SetSendWindow of the actor
AppSetsWindow ==
  /\ Idle
  /\ "Window" \in left
  /\ \E n \in 1 .. OutboundCap + 1 : Step(SetSendWindow(s, n), actor)
  /\ left' = left \ {"Window"}
  /\ UNCHANGED segments

\* fp_SendCompleted
SendCompleted ==
  /\ actor.call = "Idle"
  /\ s.mail # <<>>
  /\ Head(s.mail).kind = "Completed"
  /\ LET job == Head(s.mail)
         c == [s EXCEPT !.mail = Tail(@)]
         a == [actor EXCEPT !.inFlight = @ - 1]
         Credited(n) == [a EXCEPT !.credited = @ + n, !.submitted = @ - n]
         Resolved(resolved) ==
           CASE ~resolved.over ->
                  \E takes \in Takes : \E result \in ContinueSend(resolved.c, takes) :
                    Submitted(result, a, 0)
             [] resolved.over /\ ~job.ok -> Fatal(resolved.c, a)
             [] OTHER -> Step(resolved.c, [At(Credited(resolved.n), "Sending") EXCEPT !.did = FALSE])
     IN  IF ~actor.valid THEN Step(c, a)
         ELSE Resolved(IF job.transfer = None THEN [c |-> c, over |-> TRUE, n |-> job.n]
                       ELSE ResolveSend(c, job.transfer, job.ok))
  /\ UNCHANGED <<left, segments>>

\* fp_SendBufferReleased
SendBufferReleased ==
  /\ actor.call = "Idle"
  /\ s.mail # <<>>
  /\ Head(s.mail).kind = "Released"
  /\ LET job == Head(s.mail)
         c == [s EXCEPT !.mail = Tail(@)]
     IN  IF ~actor.valid THEN Step(c, actor)
         ELSE Step(IF job.transfer = None THEN c ELSE ResolveSendRelease(c, job.transfer),
                   [At(actor, "Sending") EXCEPT !.did = FALSE])
  /\ UNCHANGED <<left, segments>>

\* fp_ReceiveStreamInput, the segment
ReceiveSegment ==
  /\ Idle
  /\ segments # <<>>
  /\ \E room \in Delivery :
       LET segment == Head(segments)
           Resolved(resolved) ==
             Step(resolved.c,
                  [At(actor, IF resolved.produced THEN "Holding" ELSE "InputEnd") EXCEPT
                     !.segment = segment.kind,
                     !.fails = resolved.fails,
                     !.stream = IF segment.kind # "Data" THEN "Ended" ELSE @])
       IN  Resolved(ResolveReceiveSegment(s, segment, room))
  /\ segments' = Tail(segments)
  /\ UNCHANGED left

\* fp_DrainHeldInput
DrainHeldInput ==
  /\ Idle
  /\ actor.drain
  /\ Step(s, [At(actor, "Holding") EXCEPT !.segment = "Data", !.fails = FALSE, !.drain = FALSE])
  /\ UNCHANGED <<left, segments>>

\* fp_ReceiveStreamInput, what the socket still holds
ReceiveHeld ==
  /\ Running("Holding")
  /\ \E room \in Delivery :
       LET Resolved(resolved) ==
             Step(resolved.c, At(actor, IF resolved.produced THEN "Holding" ELSE "InputEnd"))
       IN  Resolved(ResolveHeld(s, room))
  /\ UNCHANGED <<left, segments>>

\* fp_ReceiveStreamInput, the end: the stream is over when the library or the
\* platform says so, and a close that waited for it is processed.
EndInput ==
  /\ Running("InputEnd")
  /\ LET terminal == actor.segment # "Data" \/ StreamEndedByProtocol(s)
         ended == [actor EXCEPT !.stream = IF terminal THEN "Ended" ELSE @]
     IN  CASE actor.fails -> Fatal(s, ended)
           [] ~actor.fails /\ terminal ->
                Step(s, IF actor.deferred
                        THEN [At(ended, "Rest") EXCEPT !.deferred = FALSE, !.todo = {"Closed"}]
                        ELSE At(ended, "Idle"))
           [] OTHER -> DrainSocketOutput(s, At(actor, "Idle"))
  /\ UNCHANGED <<left, segments>>

ActorStep ==
  \/ Start \/ ProcessState \/ ReceiveOnce \/ ProcessRest \/ SendHandshake \/ SendReady
  \/ SubmitOnce \/ StopSubmitting \/ FinishSend \/ FinishDrain \/ SendCompleted
  \/ SendBufferReleased \/ ReceiveSegment \/ DrainHeldInput \/ ReceiveHeld \/ EndInput

-----------------------------------------------------------------------------
(* The peer, the platform and the loop.  All of it is external.            *)

Outside(c) == s' = c /\ UNCHANGED <<scenario, actor>>

Flights == {i \in DOMAIN stream : stream[i] = "hs"}

\* The peer writes the next unit: its flights answer ours.
PeerWrites ==
  /\ arrived < Total
  /\ ~lost
  /\ LET awaited == IF scenario.settings.server THEN arrived ELSE arrived + 1
     IN  arrived < Cardinality(Flights) => Len(s.wire) >= awaited
  /\ arrived' = arrived + 1
  /\ Outside(IF s.rx.completion THEN s ELSE AddTCPState(s, {"Read"}))
  /\ UNCHANGED <<left, finished, lost, segments>>

PeerEnds ==
  /\ "End" \in left
  /\ arrived = Total
  /\ finished' = TRUE
  /\ left' = left \ {"End"}
  /\ Outside(IF s.rx.completion THEN s ELSE AddTCPState(s, {"Read"}))
  /\ UNCHANGED <<arrived, lost, segments>>

\* The peer reads what the platform sent: there is room again.
PeerReads ==
  /\ s.room = 0
  /\ ~lost
  /\ Outside(IF s.armed
             THEN [AddTCPState(s, {"Write"}) EXCEPT !.room = scenario.room, !.armed = FALSE]
             ELSE [s EXCEPT !.room = scenario.room])
  /\ UNCHANGED <<left, arrived, finished, lost, segments>>

SocketLost ==
  /\ "Lose" \in left
  /\ lost' = TRUE
  /\ left' = left \ {"Lose"}
  /\ Outside(AddTCPState(s, {"Read", "Write"}))
  /\ UNCHANGED <<arrived, finished, segments>>

\* The kernel writes the oldest operation a record at a time, completes the
\* operations in order, and lets go of their buffers when it will.  A socket that
\* is lost, or closed, which aborts it, writes no more.
KernelWrites ==
  /\ s.room > 0
  /\ ~lost
  /\ actor.valid
  /\ \E i \in DOMAIN s.kernel :
       /\ \A j \in 1 .. i - 1 : s.kernel[j].stage = "Completed"
       /\ s.kernel[i].stage = "Queued"
       /\ s.kernel[i].records # <<>>
       /\ Outside([s EXCEPT
                     !.wire = Append(@, Head(s.kernel[i].records)),
                     !.room = @ - 1,
                     !.kernel[i].records = Tail(@)])
  /\ UNCHANGED <<left, arrived, finished, lost, segments>>

KernelCompletes ==
  /\ \E i \in DOMAIN s.kernel :
       /\ \A j \in 1 .. i - 1 : s.kernel[j].stage = "Completed"
       /\ s.kernel[i].stage = "Queued"
       /\ s.kernel[i].records = <<>> \/ lost \/ ~actor.valid
       /\ Outside(Post([s EXCEPT !.kernel[i].stage = "Completed"],
                       <<Completed(s.kernel[i].buffer, 0, s.kernel[i].records = <<>>)>>))
  /\ UNCHANGED <<left, arrived, finished, lost, segments>>

KernelReleases ==
  /\ \E i \in DOMAIN s.kernel :
       /\ s.kernel[i].stage = "Completed"
       /\ Outside(Post([s EXCEPT !.kernel = First(s.kernel, i - 1) \o From(s.kernel, i)],
                       <<Released(s.kernel[i].buffer)>>))
  /\ UNCHANGED <<left, arrived, finished, lost, segments>>

\* What the segments on their way and in the queue of the transport hold of the window.
Outstanding ==
  Charged(s.rx) + Len(Concatenated([k \in DOMAIN segments |-> segments[k].data]))

LoopReads ==
  /\ actor.stream # "No"
  /\ actor.valid
  /\ ~lost
  /\ arrived > s.taken
  /\ Outstanding < ReceiveWindow
  /\ \E n \in 1 .. Least(SegmentMost, arrived - s.taken) :
       /\ segments' = Append(segments, Segment("Data", Interval(s.taken, n)))
       /\ Outside([s EXCEPT !.taken = @ + n])
  /\ UNCHANGED <<left, arrived, finished, lost>>

LoopEnds ==
  /\ actor.stream # "No"
  /\ actor.valid
  /\ ~s.ended
  /\ lost \/ (finished /\ arrived = s.taken)
  /\ segments' = Append(segments, Segment(IF lost THEN "Lost" ELSE "Eof", <<>>))
  /\ Outside([s EXCEPT !.ended = TRUE])
  /\ UNCHANGED <<left, arrived, finished, lost>>

World ==
  \/ PeerReads \/ PeerWrites \/ KernelWrites \/ KernelCompletes \/ KernelReleases
  \/ LoopReads \/ LoopEnds

Next ==
  \/ ActorStep \/ World
  \/ AppCloses \/ AppSetsWindow \/ PeerEnds \/ SocketLost

\* What the actor has to do: its thread is in a handler, or its mailbox holds a job.
ActorReady ==
  \/ actor.valid /\ actor.call # "Idle"
  \/ Idle /\ (s.events # {} \/ segments # <<>> \/ actor.drain)
  \/ actor.call = "Idle" /\ s.mail # <<>>

\* Weak fairness of ActorStep, with ActorReady for ENABLED ActorStep.
ActorRuns == []<>~ActorReady \/ []<><<ActorStep>>_vars

\* The thread of the actor runs, the loop and the kernel work, the peer goes on
\* reading and writing.
Spec == Init /\ [][Next]_vars /\ ActorRuns /\ WF_vars(World)

-----------------------------------------------------------------------------
(* What holds of it.                                                       *)

\* The records reach the platform in the order the library sealed them, which the
\* record numbers of TLS demand, whether a flush or an operation carries them; and
\* a generation an operation holds is neither filled, queued nor free meanwhile
\* (f_Flush and f_BeginSend against fp_ReleasePin).
SealOrderKept ==
  /\ s.wire = Interval(0, Len(s.wire))
  /\ actor.valid =>
       \A i \in DOMAIN s.kernel :
         LET buffer == s.kernel[i].buffer IN
           /\ IsPinned(s.tx, buffer)
           /\ buffer # s.tx.fill
           /\ \A k \in DOMAIN s.tx.unsent : s.tx.unsent[k] # buffer
           /\ \A k \in DOMAIN s.tx.free : s.tx.free[k] # buffer
           /\ \A j \in DOMAIN s.kernel : j # i => s.kernel[j].buffer # buffer

Reports(c) == Cardinality({i \in DOMAIN c.mail : c.mail[i].kind = "Completed"})
OnTheirWay(c) == Cardinality({i \in DOMAIN c.kernel : c.kernel[i].stage = "Queued"})
Parked(c) == Cardinality({i \in DOMAIN c.ops : c.ops[i].functors /\ ~c.ops[i].resolved})
DataIn(c, records) == Cardinality({r \in {records[i] : i \in DOMAIN records} : c.sealed[r] = "data"})

\* Every submission and continuation the actor made is answered once, by the
\* completion of the operation that carries it or by the socket that parks it;
\* plaintext is credited only when its record has been drained, and what the
\* actor thinks is on its way is what has been sealed and is not yet credited.  A
\* generation the platform takes in part is the exception: the operation it made
\* of it is one the actor, which was refused, never counted.
\* (f_ResolveSend with continuations, parked operations and failures)
CreditedWhenDrained ==
  /\ s.active /\ "Partly" \notin scenario.may =>
       actor.inFlight = Reports(s) + OnTheirWay(s) + Parked(s)
  /\ s.active /\ actor.valid /\ ~s.failed =>
       /\ DataIn(s, Interval(0, Len(s.sealed))) = actor.credited + actor.submitted
       /\ actor.credited + s.held <= DataIn(s, s.wire)

\* What the socket gives to its owner is the peer's plaintext from its first unit
\* on, with nothing left out or given twice, whatever mixture of direct opens and
\* held records it passed through; a closed or failed connection shows only when
\* the plaintext ahead of the end has been given, and the queue of ciphertext has
\* no gap.  (f_TryOpenInto, and the change from readiness to the stream)
PlaintextInOrder ==
  /\ s.given = Interval(0, Len(s.given))
  /\ Len(s.given) + Len(s.rx.held) = PlainBefore(s.read)
  /\ s.ssl = "Shutdown" => s.rx.held = <<>>
  /\ LET pieces == CipherPending(s.rx)
     IN  \A i \in DOMAIN pieces : pieces[i] = Ends(s.read) + s.part + i

\* A connection is established only to a peer the settings promise: over the key
\* exchange, the certificate and the trust they ask for.  (fp_ProcessConnection
\* on what verification logged)
AcceptedAsConfigured ==
  s.connected => Promised(scenario.settings, scenario.peer, scenario.group, scenario.decided)

Says(kinds) == \E i \in DOMAIN stream : stream[i] \in kinds

\* All the plaintext that the peer sent before an end of any kind reaches the
\* owner, also when a record stalls in the buffers that the receive window
\* counts, or the end comes while plaintext is held over.
\* (f_CompactCipherIfStalled, fp_DrainHeldInput, the held record)
InputDelivered ==
  /\ scenario.may \subseteq {"Window", "End"}
  /\ ~Says({"bad"})
  /\ s.connected
  /\ arrived = Total
  ~> Len(s.given) = PlainBefore(Len(stream))

\* All that the owner sends and the library answers leaves for the peer, and
\* behind it, when the owner closes, the shutdown of the connection.
\* (f_Flush after a short send, the drain of a submission, fp_ContinueShutdown)
OutputReachesWire ==
  /\ scenario.may \subseteq {"Close", "Window"}
  /\ ~Says({"close", "bad"})
  /\ s.connected
  ~> /\ Len(s.wire) = Len(s.sealed)
     /\ actor.credited = scenario.sends
     /\ actor.state = "Disconnected" => s.state = "ShutdownSocket"
=============================================================================

---------------------- MODULE AsyncSocketLifecycleProofs ----------------------
(***************************************************************************)
(* Theorems about AsyncSocketLifecycle, for every value of its constants.  *)
(*                                                                         *)
(* The first part is about its calls and its output: close states are held *)
(* back only while the segment that replays them is to come, output is     *)
(* dropped only for the causes named, and the close callback comes last    *)
(* and once, and whoever accepted a connection that ended got it, or was   *)
(* told by the upgrade that failed.  None is inductive.  A closed state    *)
(* drops what is queued, so the invariant says where a closed state can    *)
(* come from, wherever it waits; a failed segment does so as well, so the  *)
(* invariant says of every segment on its way what the peer did before the *)
(* platform posted it.  The last takes that nothing reaches the            *)
(* application of a connection that is down, on any of the paths data      *)
(* takes, that the close flag is set no earlier than the connection goes   *)
(* down, and that a handshake always has somebody waiting for it.          *)
(*                                                                         *)
(* The second part is about its data: the application gets the units of    *)
(* the peer in order, with none twice and none skipped, and an orderly     *)
(* close of the peer is told after everything it sent.  For the first,     *)
(* what the application was told and what the buffers of the actor hold    *)
(* are joined to the units from the first to the last that the transport   *)
(* gave: a handler moves units over the seams of this sequence, or adds    *)
(* the next ones at its end.  For the second, the units are followed from  *)
(* the peer on: no more leave the kernel than the peer sent, whatever ends *)
(* the stream comes behind all of them, and wherever the close of the peer *)
(* waits to be looked at, the read that comes before it waits too, or the  *)
(* receive stream replays it at its end.                                   *)
(***************************************************************************)
EXTENDS AsyncSocketLifecycle, Integers, TLAPS, SequenceTheorems, FiniteSetTheorems

Segments == {"Data", "Notify", "End", "Error"}

TypeInv ==
  /\ nOutput \in Nat /\ nUnwritten \in Nat
  /\ lost \in BOOLEAN /\ notified \in BOOLEAN /\ shutdownCalled \in BOOLEAN
  /\ socket \in {"Coming", "Set", "Gone"}
  /\ peer \in {"Open", "Fin", "Truncated", "Reset"}
  /\ reports \in Seq(SUBSET NetStates)
  /\ segments \in Seq(Segments)

\* A closed state waits somewhere for the actor to look at it.
ClosedReported(r) == \E i \in DOMAIN r : "Closed" \in r[i]
SaysClosed ==
  "Closed" \in added \cup pending \cup deferredClose \cup before \/ ClosedReported(reports)

\* The peer reset the connection, TLS broke, or both sides are shut down.
ClosedHasCause == SaysClosed => peer = "Reset" \/ layer = "Broken" \/ shutdownCalled

\* The actor shuts down once nothing is left to send.
ShutDrained == shutdownCalled => state = "Disconnected" /\ nOutput = 0

\* TLS breaks in a handshake, when nothing is queued, or on a truncated stream.
BrokenHasCause ==
  layer = "Broken" => peer \in {"Reset", "Truncated"} \/ (state # "Connected" /\ nOutput = 0)

\* Nothing is written during a handshake, that of an upgrade included.
QuietUntilConnected == state = "None" => nOutput = 0

\* Nothing waits to be written but during a handshake.
WaitsForHandshake == state # "None" => nUnwritten = 0

\* An upgrade check and the receive stream exclude each other.
QuietWhileChecked ==
  check # "None" =>
    /\ ~Tls /\ layer = "Open"
    /\ ~streamActive /\ ~streamEnded /\ ~heldQueued /\ kernelStream = "None" /\ segments = <<>>

QuietBeforeSocket == socket = "Coming" => segments = <<>>

\* What the peer did before the platform ended the stream with segment i.
EndHasCause(i) ==
  \/ ~Tls \/ notified \/ shutdownCalled \/ socket = "Gone"
  \/ peer \in {"Truncated", "Reset"}
  \/ \E j \in 1 .. i - 1 : segments[j] = "Notify"
SegmentsHaveCause ==
  \A i \in DOMAIN segments :
    /\ segments[i] = "Error" => peer = "Reset"
    /\ segments[i] = "End" => EndHasCause(i)

\* The timer is on while its handler polls, unless the poll found nothing queued.
TimerKept ==
  caller = "Timer" => timer = "Installed" \/ (nOutput = 0 /\ state = "Disconnected")

IInv ==
  /\ TypeInv /\ DeferredCloseOwed /\ ClosedHasCause /\ ShutDrained /\ BrokenHasCause
  /\ QuietUntilConnected /\ WaitsForHandshake /\ QuietWhileChecked /\ QuietBeforeSocket
  /\ SegmentsHaveCause /\ TimerKept

-----------------------------------------------------------------------------
(***************************************************************************)
(* What the operators that the handlers share do to the invariant's parts. *)
(***************************************************************************)

\* A report posted adds its own states and no other.
LEMMA PostKeeps ==
  ASSUME NEW states \in SUBSET NetStates, reports \in Seq(SUBSET NetStates), Post(states)
  PROVE  /\ reports' \in Seq(SUBSET NetStates)
         /\ ClosedReported(reports') => "Closed" \in states \/ ClosedReported(reports)
BY DEF Post, ClosedReported

\* The socket says closed for the same causes as a report.
LEMMA GetStateCause ==
  /\ GetState \subseteq NetStates
  /\ "Closed" \in GetState => peer = "Reset" \/ layer = "Broken" \/ shutdownCalled
BY DEF GetState, NetStates, CloseStates

\* The socket is dropped with what is queued.
LEMMA ShutdownDoneKeeps ==
  ASSUME NEW outcome, TypeInv, ShutdownDone(outcome)
  PROVE  /\ socket' \in {"Coming", "Gone"} /\ (socket' = "Coming" <=> socket = "Coming")
         /\ nOutput' = 0 /\ nUnwritten' = 0
         /\ lost' \in BOOLEAN /\ (lost' => lost \/ nOutput # 0)
         /\ timer' \in {timer, "Off"}
BY DEF ShutdownDone, TypeInv, StopTimeout

\* A fatal disconnect drops the socket and what is queued, and defers nothing.
LEMMA FatalKeeps ==
  ASSUME NEW units, TypeInv, DeferredCloseOwed, DisconnectFatal(units)
  PROVE  /\ state' = "Disconnected" /\ nOutput' = 0 /\ nUnwritten' = 0
         /\ deferredClose' = {}
         /\ socket' \in {"Coming", "Gone"} /\ (socket' = "Coming" <=> socket = "Coming")
         /\ lost' \in BOOLEAN /\ (lost' => lost \/ nOutput # 0)
         /\ UNCHANGED <<layer, shutdownCalled>>
<1>1. /\ state' = "Disconnected"
      /\ UNCHANGED <<layer, shutdownCalled>>
      /\ ShutdownDone("Unclean")
      /\ deferredClose' = {}
  BY DEF DisconnectFatal, DeferredCloseOwed
<1> QED  BY <1>1, ShutdownDoneKeeps

\* A shutdown is reported as closed if the peer closed before.
LEMMA ShutdownKeeps ==
  ASSUME TypeInv, Shutdown
  PROVE  /\ shutdownCalled' = TRUE
         /\ reports' \in Seq(SUBSET NetStates)
BY PostKeeps DEF Shutdown, TypeInv, NetStates, CloseStates

\* A graceful disconnect shuts down only what is drained, and defers nothing.
LEMMA GracefulKeeps ==
  ASSUME NEW status, NEW units, TypeInv, DisconnectGraceful(status, units)
  PROVE  /\ state' = "Disconnected" /\ deferredClose' = {} /\ nUnwritten' = 0
         /\ UNCHANGED <<socket, layer, nOutput, lost>>
         /\ shutdownCalled' \in BOOLEAN /\ (shutdownCalled => shutdownCalled')
         /\ shutdownCalled' => shutdownCalled \/ nOutput = 0
         /\ timer' = timer \/ nOutput = 0
         /\ reports' \in Seq(SUBSET NetStates)
         /\ ClosedReported(reports') => shutdownCalled' \/ ClosedReported(reports)
<1>1. /\ state' = "Disconnected" /\ deferredClose' = {} /\ nUnwritten' = 0
      /\ UNCHANGED <<socket, layer, nOutput, lost>>
      /\ timer' = timer \/ nOutput = 0
      /\ (nOutput = 0 /\ Shutdown) \/ UNCHANGED <<shutdownCalled, reports>>
  BY DEF DisconnectGraceful, OutputDrained, StopTimeout
<1>2. CASE UNCHANGED <<shutdownCalled, reports>>
  BY <1>1, <1>2 DEF TypeInv
<1>3. CASE nOutput = 0 /\ Shutdown
  BY <1>1, <1>3, ShutdownKeeps DEF TypeInv
<1> QED  BY <1>1, <1>2, <1>3

\* The receive stream starts on a socket without an upgrade check, or not at all.
LEMMA StartStreamKeeps ==
  ASSUME NEW may \in BOOLEAN, StartStream(may)
  PROVE  \/ UNCHANGED <<streamActive, streamEnded, heldQueued, kernelStream>>
         \/ may /\ streamActive' = TRUE /\ ~streamEnded /\ streamEnded' = streamEnded
BY DEF StartStream, streamVars

\* A finished handshake connects the transport, and what waited for it is written.
LEMMA ConnectsKeeps ==
  ASSUME NEW n, TypeInv, Connects(n)
  PROVE  /\ state' = "Connected" /\ layer' = "Open" /\ nUnwritten' = 0 /\ nOutput' = n
         /\ \/ UNCHANGED <<streamActive, streamEnded, heldQueued, kernelStream>>
            \/ /\ check = "None" /\ streamActive' = TRUE
               /\ ~streamEnded /\ streamEnded' = streamEnded
         /\ reports' \in Seq(SUBSET NetStates)
         /\ ClosedReported(reports') => ClosedReported(reports)
<1> DEFINE posted == {s \in {"Read", "Write"} : layer = "Handshake"}
<1>1. posted \in SUBSET NetStates /\ "Closed" \notin posted
  BY DEF NetStates
<1>2. /\ state' = "Connected" /\ layer' = "Open" /\ nUnwritten' = 0 /\ nOutput' = n
      /\ StartStream(MayActivate(kind))
      /\ Post(posted)
  BY DEF Connects
<1>3. MayActivate(kind) \in BOOLEAN /\ (MayActivate(kind) => check = "None")
  BY DEF MayActivate
<1> HIDE DEF posted
<1> QED  BY <1>1, <1>2, <1>3, PostKeeps, StartStreamKeeps DEF TypeInv

\* A handler that finds the handshake done has the states of the socket processed.
LEMMA CheckHandshakeKeeps ==
  ASSUME TypeInv, CheckHandshake
  PROVE  /\ state' = "Connected" /\ layer' = "Open"
         /\ nUnwritten' = 0 /\ nOutput' = nOutput + nUnwritten /\ nOutput' \in Nat
         /\ "Closed" \in pending' =>
              "Closed" \in pending \/ peer = "Reset" \/ layer = "Broken" \/ shutdownCalled
         /\ \/ UNCHANGED <<streamActive, streamEnded, heldQueued, kernelStream>>
            \/ /\ check = "None" /\ streamActive' = TRUE
               /\ ~streamEnded /\ streamEnded' = streamEnded
         /\ reports' \in Seq(SUBSET NetStates)
         /\ ClosedReported(reports') => ClosedReported(reports)
<1>1. Connects(nOutput + nUnwritten) /\ pending' = pending \cup GetState
  BY DEF CheckHandshake, WriteQueuedMessages
<1>2. nOutput + nUnwritten \in Nat
  BY DEF TypeInv
<1> QED  BY <1>1, <1>2, GetStateCause, ConnectsKeeps

\* Stream input changes the connection only by a fatal disconnect, which an error
\* or an end without a close_notify brings about; a close_notify is kept.
LEMMA StreamInputKeeps ==
  ASSUME NEW input, TypeInv, DeferredCloseOwed, StreamInput(input)
  PROVE  /\ socket' \in {"Coming", "Set", "Gone"}
         /\ nOutput' \in Nat /\ nUnwritten' \in Nat
         /\ lost' \in BOOLEAN /\ notified' \in BOOLEAN
         /\ UNCHANGED <<layer, shutdownCalled>>
         /\ (notified => notified') /\ (socket = "Gone" => socket' = "Gone")
         /\ input = "Notify" => notified' \/ ~Tls \/ shutdownCalled \/ socket # "Set"
<1>1. CASE UNCHANGED connectionVars /\ notified' = notified /\ socket # "Set"
  BY <1>1 DEF connectionVars, TypeInv
<1>2. CASE socket = "Set" /\ (UNCHANGED connectionVars \/ \E units : DisconnectFatal(units))
  <2>1. /\ socket' \in {"Coming", "Set", "Gone"} /\ nOutput' \in Nat /\ nUnwritten' \in Nat
        /\ lost' \in BOOLEAN
        /\ UNCHANGED <<layer, shutdownCalled>>
    BY <1>2, FatalKeeps DEF connectionVars, TypeInv
  <2>2. /\ notified' \in BOOLEAN
        /\ notified => notified'
        /\ input = "Notify" => notified' \/ ~Tls \/ shutdownCalled
    BY <1>2 DEF StreamInput, ReceiveStreamInput, TypeInv
  <2> QED  BY <1>2, <2>1, <2>2
<1> QED  BY <1>1, <1>2 DEF StreamInput, ReceiveStreamInput, StreamInputWithoutSocket, dataVars

-----------------------------------------------------------------------------
(***************************************************************************)
(* The invariant.                                                          *)
(***************************************************************************)

\* A connection starts with nothing queued, reported or received.
LEMMA InitIInv == Init => IInv
<1> SUFFICES ASSUME Init PROVE IInv
    OBVIOUS
<1>1. TypeInv /\ segments = <<>>
  <2>1. /\ nOutput = 0 /\ nUnwritten = 0 /\ lost = FALSE /\ notified = FALSE /\ shutdownCalled = FALSE
        /\ socket = "Coming" /\ peer = "Open" /\ reports = <<>> /\ segments = <<>>
    BY DEF Init
  <2>2. reports \in Seq(SUBSET NetStates) /\ segments \in Seq(Segments)
    BY <2>1
  <2> QED  BY <2>1, <2>2 DEF TypeInv
<1>2. layer # "Broken" /\ (check # "None" => ~Tls /\ layer = "Open")
  BY DEF Init
<1>3. /\ DeferredCloseOwed /\ ShutDrained /\ QuietUntilConnected /\ WaitsForHandshake
      /\ TimerKept
  BY DEF Init, DeferredCloseOwed, ShutDrained, QuietUntilConnected, WaitsForHandshake, TimerKept
<1>4. ClosedHasCause
  BY DEF Init, ClosedHasCause, SaysClosed, ClosedReported
<1>5. QuietWhileChecked /\ QuietBeforeSocket /\ SegmentsHaveCause /\ BrokenHasCause
  BY SMTT(60), <1>1, <1>2 DEF Init, QuietWhileChecked, QuietBeforeSocket, SegmentsHaveCause,
     BrokenHasCause
<1> QED  BY <1>1, <1>3, <1>4, <1>5 DEF IInv

\* Every step keeps the invariant.
LEMMA NextIInv == IInv /\ [Next]_vars => IInv'
<1> SUFFICES ASSUME IInv, [Next]_vars PROVE IInv'
    OBVIOUS
<1> USE DEF NetStates, CloseStates, Segments, SaysClosed, IInv, Tls, Free, vars, TypeInv,
        DeferredCloseOwed, ClosedHasCause, ShutDrained, BrokenHasCause, QuietUntilConnected,
        WaitsForHandshake, QuietWhileChecked, QuietBeforeSocket, SegmentsHaveCause, TimerKept,
        EndHasCause, ClosedReported, upgradeVars, attemptVars, processVars, connectionVars, promiseVars,
        callbackVars, bufferVars, streamVars, latchVars, peerVars, dataVars, postVars
<1>1. CASE Enter
  BY <1>1 DEF Enter, MustDefer
<1>2. CASE Leave
  BY <1>2 DEF Leave
<1>3. CASE LeaveReadinessReceive
  BY ZenonT(60), <1>3, StartStreamKeeps DEF LeaveReadinessReceive, LeavesReadiness, Handled,
      CompletionReceive, MayActivate
<1>4. CASE DeferRead
  BY <1>4 DEF DeferRead, LeavesReadiness, WaitsForUpgrade, Handled, CompletionReceive,
      MayActivate
<1>5. CASE ReceiveThrows
  BY <1>5, FatalKeeps DEF ReceiveThrows, Reading, LeavesReadiness, WaitsForUpgrade,
      CompletionReceive, MayActivate
<1>6. CASE ReceiveConnects
  <2>1. TypeInv'
    BY <1>6, CheckHandshakeKeeps DEF ReceiveConnects, Reading, HandshakeDone, Opens,
        AfterSniff, LeavesReadiness, WaitsForUpgrade, CompletionReceive, MayActivate
  <2>2. ClosedHasCause'
    BY <1>6, CheckHandshakeKeeps DEF ReceiveConnects, Reading, HandshakeDone, Opens,
        AfterSniff, LeavesReadiness, WaitsForUpgrade, CompletionReceive, MayActivate
  <2>3. SegmentsHaveCause'
    BY <1>6, CheckHandshakeKeeps DEF ReceiveConnects, Reading, HandshakeDone, Opens,
        AfterSniff, LeavesReadiness, WaitsForUpgrade, CompletionReceive, MayActivate
  <2>4. DeferredCloseOwed'
    BY <1>6, CheckHandshakeKeeps DEF ReceiveConnects, Reading, HandshakeDone, Opens,
        AfterSniff, LeavesReadiness, WaitsForUpgrade, CompletionReceive, MayActivate
  <2>5. QuietWhileChecked'
    BY <1>6, CheckHandshakeKeeps DEF ReceiveConnects, Reading, HandshakeDone, Opens,
        AfterSniff, LeavesReadiness, WaitsForUpgrade, CompletionReceive, MayActivate
  <2>6. /\ ShutDrained' /\ BrokenHasCause' /\ QuietUntilConnected' /\ WaitsForHandshake'
        /\ QuietBeforeSocket' /\ TimerKept'
    BY <1>6, CheckHandshakeKeeps DEF ReceiveConnects, Reading, HandshakeDone, Opens,
        AfterSniff, LeavesReadiness, WaitsForUpgrade, CompletionReceive, MayActivate
  <2> QED  BY <2>1, <2>2, <2>3, <2>4, <2>5, <2>6
<1>7. CASE HandshakeWaits
  BY <1>7 DEF HandshakeWaits, Reading, Handled, LeavesReadiness, WaitsForUpgrade,
      CompletionReceive, MayActivate
<1>8. CASE HandshakeFails
  BY <1>8, PostKeeps DEF HandshakeFails, Reading, Handled, LeavesReadiness, WaitsForUpgrade,
      CompletionReceive, MayActivate
<1>9. CASE ReceiveSniffed
  BY <1>9 DEF ReceiveSniffed, CanRead, Opens, AfterSniff, Reading, ReadsNothing,
      LeavesReadiness, WaitsForUpgrade, CompletionReceive, MayActivate
<1>10. CASE ReceiveDirect
  BY ZenonT(60), <1>10 DEF ReceiveDirect, CanRead, Opens, Reading, ReadsNothing, LeavesReadiness,
      WaitsForUpgrade, CompletionReceive, MayActivate
<1>11. CASE ReceiveBuffered
  BY ZenonT(60), <1>11 DEF ReceiveBuffered, CanRead, Opens, Reading, ReadsNothing, LeavesReadiness,
      WaitsForUpgrade, CompletionReceive, MayActivate
<1>12. CASE ReceiveNothing
  BY <1>12, PostKeeps DEF ReceiveNothing, Reading, ReadsNothing, Handled, LeavesReadiness,
      WaitsForUpgrade, CompletionReceive, MayActivate
<1>13. CASE RemoteClosedState
  BY <1>13, FatalKeeps, GracefulKeeps DEF RemoteClosedState, AtClose, Handled,
      FlushBeforeClose, OutputDrained, ShutdownFails
<1>14. CASE ClosedState
  BY <1>14, FatalKeeps, ShutdownDoneKeeps DEF ClosedState, AtClose, FlushBeforeClose
<1>15. CASE WriteConnects
  <2>1. TypeInv'
    BY <1>15, CheckHandshakeKeeps DEF WriteConnects, AtWrite, HandshakeDone, Handled
  <2>2. ClosedHasCause'
    BY <1>15, CheckHandshakeKeeps DEF WriteConnects, AtWrite, HandshakeDone, Handled
  <2>3. SegmentsHaveCause'
    BY <1>15, CheckHandshakeKeeps DEF WriteConnects, AtWrite, HandshakeDone, Handled
  <2>4. DeferredCloseOwed'
    BY <1>15, CheckHandshakeKeeps DEF WriteConnects, AtWrite, HandshakeDone, Handled
  <2>5. QuietWhileChecked'
    BY <1>15, CheckHandshakeKeeps DEF WriteConnects, AtWrite, HandshakeDone, Handled
  <2>6. /\ ShutDrained' /\ BrokenHasCause' /\ QuietUntilConnected' /\ WaitsForHandshake'
        /\ QuietBeforeSocket' /\ TimerKept'
    BY <1>15, CheckHandshakeKeeps DEF WriteConnects, AtWrite, HandshakeDone, Handled
  <2> QED  BY <2>1, <2>2, <2>3, <2>4, <2>5, <2>6
<1>16. CASE WriteShutsDown
  BY <1>16, FatalKeeps, ShutdownKeeps DEF WriteShutsDown, AtWrite, ShutdownDue, Handled,
      ShutdownFails, OutputDrained
<1>17. CASE WriteDoesNothing
  BY <1>17 DEF WriteDoesNothing, AtWrite, ShutdownDue, Handled, OutputDrained
<1>18. CASE SetSocket
  BY <1>18, GetStateCause DEF SetSocket, StartProcess
<1>19. CASE StateAdded
  BY <1>19 DEF StateAdded, StartProcess
<1>20. CASE ReceiveSegment
  <2>1. /\ segments # <<>> /\ segments' = Tail(segments)
        /\ Free /\ StreamInput(Head(segments))
        /\ UNCHANGED <<upgradeVars, pending, caller, heldQueued, before, destroyed, peerVars,
                       reports, kernelStream>>
    BY <1>20 DEF ReceiveSegment
  <2>2. /\ segments' \in Seq(Segments)
        /\ Head(segments) = segments[1] /\ Head(segments) \in Segments
    BY <2>1
  <2>3. \A n \in DOMAIN segments' :
          /\ n \in Nat \ {0} /\ n + 1 \in DOMAIN segments
          /\ segments'[n] = segments[n + 1]
    BY <2>1
  <2>4. UNCHANGED <<peer, reports>> /\ StreamInput(Head(segments))
    BY <2>1
  <2>5. TypeInv'
    <3>1. /\ socket' \in {"Coming", "Set", "Gone"} /\ nOutput' \in Nat /\ nUnwritten' \in Nat
          /\ lost' \in BOOLEAN /\ notified' \in BOOLEAN /\ shutdownCalled' \in BOOLEAN
      BY <2>4, StreamInputKeeps
    <3> QED  BY <2>2, <2>4, <3>1
  <2>6. /\ (notified => notified') /\ (shutdownCalled => shutdownCalled')
        /\ (socket = "Gone" => socket' = "Gone")
        /\ Head(segments) = "Notify" =>
             notified' \/ shutdownCalled' \/ socket' = "Gone" \/ ~Tls
    BY <2>1, StreamInputKeeps
  <2>7. SegmentsHaveCause'
    <3> SUFFICES ASSUME NEW n \in DOMAIN segments'
                 PROVE  /\ segments'[n] = "Error" => peer' = "Reset"
                        /\ segments'[n] = "End" => EndHasCause(n)'
      OBVIOUS
    <3>1. CASE segments[n + 1] # "End"
      BY <2>1, <2>2, <2>3, <3>1
    <3>2. CASE segments[n + 1] = "End"
      <4>1. EndHasCause(n + 1)
        BY <2>2, <2>3, <3>2
      <4>2. CASE \E j \in 1 .. n : segments[j] = "Notify"
        <5>1. PICK j \in 1 .. n : segments[j] = "Notify"
          BY <4>2
        <5>2. CASE j = 1
          BY <2>1, <2>2, <2>3, <2>6, <5>1, <5>2
        <5>3. CASE j # 1
          <6>1. j - 1 \in 1 .. n - 1 /\ segments'[j - 1] = "Notify"
            BY <2>1, <2>2, <2>3, <5>1, <5>3
          <6> QED  BY <2>2, <2>3, <3>2, <6>1
        <5> QED  BY <5>2, <5>3
      <4>3. CASE ~ \E j \in 1 .. n : segments[j] = "Notify"
        BY <2>1, <2>2, <2>3, <2>6, <3>2, <4>1, <4>3
      <4> QED  BY <4>2, <4>3
    <3> QED  BY <3>1, <3>2
  <2>8. /\ DeferredCloseOwed' /\ ClosedHasCause' /\ ShutDrained' /\ BrokenHasCause'
        /\ QuietUntilConnected' /\ WaitsForHandshake' /\ QuietWhileChecked'
        /\ QuietBeforeSocket' /\ TimerKept'
    BY ZenonT(60), <2>1, <2>2, FatalKeeps DEF StreamInput, ReceiveStreamInput, StreamInputWithoutSocket,
       StartProcess
  <2> QED  BY <2>5, <2>7, <2>8
<1>21. CASE DrainHeldInput
  <2>1. TypeInv'
    BY ZenonT(60), <1>21, FatalKeeps DEF DrainHeldInput, StreamInput, ReceiveStreamInput,
        StreamInputWithoutSocket, StartProcess
  <2>2. ClosedHasCause'
    BY <1>21, FatalKeeps DEF DrainHeldInput, StreamInput, ReceiveStreamInput,
        StreamInputWithoutSocket, StartProcess
  <2>3. SegmentsHaveCause'
    BY <1>21, FatalKeeps DEF DrainHeldInput, StreamInput, ReceiveStreamInput,
        StreamInputWithoutSocket, StartProcess
  <2>4. DeferredCloseOwed'
    BY <1>21, FatalKeeps DEF DrainHeldInput, StreamInput, ReceiveStreamInput,
        StreamInputWithoutSocket, StartProcess
  <2>5. QuietWhileChecked'
    BY <1>21, FatalKeeps DEF DrainHeldInput, StreamInput, ReceiveStreamInput,
        StreamInputWithoutSocket, StartProcess
  <2>6. /\ ShutDrained' /\ BrokenHasCause' /\ QuietUntilConnected' /\ WaitsForHandshake'
        /\ QuietBeforeSocket' /\ TimerKept'
    BY <1>21, FatalKeeps DEF DrainHeldInput, StreamInput, ReceiveStreamInput,
        StreamInputWithoutSocket, StartProcess
  <2> QED  BY <2>1, <2>2, <2>3, <2>4, <2>5, <2>6
<1>22. CASE TimerRegistered
  BY <1>22 DEF TimerRegistered
<1>23. CASE TimerFires
  BY <1>23, FatalKeeps DEF TimerFires
<1>24. CASE TimerPolls
  BY <1>24, GetStateCause DEF TimerPolls, OutputDrained, StartProcess
<1>25. CASE PollExpires
  BY <1>25, FatalKeeps DEF PollExpires
<1>26. CASE PollInTime
  BY <1>26 DEF PollInTime
<1>27. CASE OutputSent
  <2>1. CASE DisconnectFatal(<<>>) /\ peer = "Reset" /\ UNCHANGED reports
    BY <1>27, <2>1, FatalKeeps DEF OutputSent
  <2>2. CASE peer # "Reset" /\ ~LastOutput /\ nOutput' = nOutput - 1 /\ UNCHANGED
          <<shutdownCalled, reports>>
    <3>1. nOutput' \in Nat /\ ~shutdownCalled /\ state # "None"
      BY <1>27, <2>2 DEF OutputSent
    <3>2. TypeInv'
      BY <1>27, <2>2, <3>1 DEF OutputSent
    <3> QED  BY <1>27, <2>2, <3>1, <3>2 DEF OutputSent
  <2>3. CASE peer # "Reset" /\ LastOutput /\ nOutput' = nOutput - 1 /\ Shutdown
    <3>1. nOutput' = 0 /\ state = "Disconnected"
      BY <2>3 DEF LastOutput
    <3>2. /\ lost' \in BOOLEAN /\ shutdownCalled' \in BOOLEAN
          /\ reports' \in Seq(SUBSET NetStates)
      BY <1>27, <2>3, ShutdownKeeps DEF OutputSent
    <3>3. TypeInv'
      BY <1>27, <2>3, <3>1, <3>2 DEF OutputSent
    <3> QED  BY <1>27, <2>3, <3>1, <3>3, ShutdownKeeps DEF OutputSent
  <2> QED  BY <1>27, <2>1, <2>2, <2>3 DEF OutputSent
<1>28. CASE DisconnectLocal
  BY <1>28, FatalKeeps, GracefulKeeps DEF DisconnectLocal, OutputDrained, ShutdownFails
<1>29. CASE UpgradeProcesses
  BY <1>29 DEF UpgradeProcesses, StartProcess
<1>30. CASE LingerRefused
  BY <1>30 DEF LingerRefused, LingerEnds
<1>31. CASE LingerTimeout
  BY <1>31 DEF LingerTimeout, LingerEnds
<1>32. CASE Accept
  BY <1>32 DEF Accept, CloseCall
<1>33. CASE Reject
  BY <1>33 DEF Reject
<1>34. CASE Unsubscribe
  BY <1>34 DEF Unsubscribe
<1>35. CASE SendData
  BY <1>35 DEF SendData, MaySend
<1>36. CASE UpgradeSocket
  BY <1>36, StartStreamKeeps, GetStateCause, PostKeeps DEF UpgradeSocket, MayUpgrade,
      StartProcess, OutputDrained
<1>37. CASE CloseUser
  BY <1>37 DEF CloseUser, Close
<1>38. CASE CloseWithLinger
  BY <1>38 DEF CloseWithLinger, Close
<1>39. CASE Destroy
  BY <1>39 DEF Destroy, OnShutdown
<1>40. CASE ReceiveWindowResume
  BY <1>40 DEF ReceiveWindowResume
<1>41. CASE KernelSegment
  BY <1>41 DEF KernelSegment, NextInStream
<1>42. CASE PeerAnswersHandshake
  BY <1>42, PostKeeps DEF PeerAnswersHandshake, PeerStep
<1>43. CASE PeerSends
  BY <1>43, PostKeeps DEF PeerSends, PeerStep, ReadEdge
<1>44. CASE PeerCloses
  BY <1>44, PostKeeps DEF PeerCloses, PeerStep, PeerSpeaksTls, ReadEdge
<1>45. CASE PeerResets
  BY <1>45, PostKeeps DEF PeerResets, PeerStep
<1>46. CASE SendWaits
  BY <1>46 DEF SendWaits, MaySend
<1>47. CASE SendBreaks
  BY <1>47, PostKeeps DEF SendBreaks, MaySend
<1>48. CASE SendConnects
  <2>1. /\ state' = "Connected" /\ layer' = "Open" /\ nUnwritten' = 0
        /\ nOutput' = nOutput + nUnwritten + 1
        /\ \/ UNCHANGED <<streamActive, streamEnded, heldQueued, kernelStream>>
           \/ /\ check = "None" /\ streamActive' = TRUE
              /\ ~streamEnded /\ streamEnded' = streamEnded
        /\ reports' \in Seq(SUBSET NetStates)
        /\ ClosedReported(reports') => ClosedReported(reports)
    <3>1. Connects(nOutput + nUnwritten + 1)
      BY <1>48 DEF SendConnects, WriteQueuedMessages
    <3> QED  BY <3>1, ConnectsKeeps
  <2>2. TypeInv'
    BY <1>48, <2>1 DEF SendConnects
  <2>3. ClosedHasCause'
    BY <1>48, <2>1, GetStateCause DEF SendConnects, MaySend, StartProcess, HandshakeDone
  <2>4. SegmentsHaveCause' /\ DeferredCloseOwed'
    BY <1>48, <2>1 DEF SendConnects
  <2>5. QuietWhileChecked' /\ QuietBeforeSocket'
    BY <1>48, <2>1 DEF SendConnects
  <2>6. /\ ShutDrained' /\ BrokenHasCause' /\ QuietUntilConnected' /\ WaitsForHandshake'
        /\ TimerKept'
    BY <1>48, <2>1 DEF SendConnects, MaySend
  <2> QED  BY <2>2, <2>3, <2>4, <2>5, <2>6
<1>49. CASE UNCHANGED vars
  BY <1>49
<1> QED  BY <1>1, <1>2, <1>3, <1>4, <1>5, <1>6, <1>7, <1>8, <1>9, <1>10, <1>11, <1>12, <1>13,
    <1>14, <1>15, <1>16, <1>17, <1>18, <1>19, <1>20, <1>21, <1>22, <1>23, <1>24, <1>25, <1>26,
    <1>27, <1>28, <1>29, <1>30, <1>31, <1>32, <1>33, <1>34, <1>35, <1>36, <1>37, <1>38, <1>39,
    <1>40, <1>41, <1>42, <1>43, <1>44, <1>45, <1>46, <1>47, <1>48, <1>49 DEF Next, Actor,
    Application, Environment, ProcessState

\* The invariant holds in every reachable state.
LEMMA SpecIInv == Spec => []IInv
<1>1. Init => IInv
  BY InitIInv
<1>2. IInv /\ [Next]_vars => IInv'
  BY NextIInv
<1> QED  BY <1>1, <1>2, PTL DEF Spec

\* Whatever a connection goes through, close states are held back only while the
\* stream still has a terminal segment to give, which replays them.
THEOREM CloseStatesReplayed == Spec => []DeferredCloseOwed
<1>1. IInv => DeferredCloseOwed
  BY DEF IInv
<1> QED  BY <1>1, SpecIInv, PTL

-----------------------------------------------------------------------------
(***************************************************************************)
(* Output that is dropped.                                                 *)
(***************************************************************************)

\* The causes OrderlyCloseKeepsOutput allows.
Cause == peer \in {"Reset", "Truncated"} \/ timer = "Installed" \/ destroyed'

\* A failed segment means that the peer reset the connection or truncated it.
LEMMA StreamInputDrops ==
  ASSUME IInv, NEW input \in Segments \cup {"Held"}, StreamInput(input),
         input \in Segments => segments # <<>> /\ input = segments[1],
         lost' /\ ~lost
  PROVE  peer \in {"Reset", "Truncated"}
<1>1. \E units : DisconnectFatal(units)
  BY DEF StreamInput, ReceiveStreamInput, StreamInputWithoutSocket, connectionVars
<1>2. nOutput # 0
  BY <1>1, FatalKeeps DEF IInv
<1>3. input = "Error" \/ (input = "End" /\ Tls /\ ~notified /\ socket = "Set")
  BY DEF StreamInput, ReceiveStreamInput, StreamInputWithoutSocket, connectionVars
<1>4. 1 \in DOMAIN segments
  BY <1>3 DEF IInv, TypeInv, Segments
<1> QED  BY <1>2, <1>3, <1>4 DEF IInv, SegmentsHaveCause, EndHasCause, ShutDrained, Segments

\* A step that drops output has one of the causes.
LEMMA NextDrops == IInv /\ [Next]_vars /\ lost' /\ ~lost => Cause
<1> SUFFICES ASSUME IInv, [Next]_vars, lost', ~lost PROVE Cause
    OBVIOUS
<1> USE DEF upgradeVars, attemptVars, processVars, connectionVars, promiseVars, callbackVars,
        bufferVars, streamVars, latchVars, peerVars, dataVars, postVars
<1>1. CASE ReceiveThrows
  BY <1>1 DEF ReceiveThrows, Reading, LeavesReadiness, WaitsForUpgrade, CompletionReceive,
      MayActivate, Cause
<1>2. CASE RemoteClosedState
  BY <1>2, GracefulKeeps DEF RemoteClosedState, AtClose, OutputDrained, ShutdownFails, Cause,
      IInv
<1>3. CASE ClosedState
  BY <1>3, FatalKeeps, ShutdownDoneKeeps DEF ClosedState, AtClose, Cause, IInv, SaysClosed,
      ClosedHasCause, ShutDrained, BrokenHasCause
<1>4. CASE WriteShutsDown
  BY <1>4 DEF WriteShutsDown, AtWrite, ShutdownDue, ShutdownFails, OutputDrained, Cause, IInv
<1>5. CASE ReceiveSegment
  BY <1>5, StreamInputDrops DEF ReceiveSegment, Cause, IInv, TypeInv, Segments
<1>6. CASE DrainHeldInput
  BY <1>6, StreamInputDrops DEF DrainHeldInput, Cause, IInv, TypeInv, Segments
<1>7. CASE TimerFires
  BY <1>7 DEF TimerFires, Cause
<1>8. CASE PollExpires
  BY <1>8, FatalKeeps DEF PollExpires, Cause, IInv, TimerKept
<1>9. CASE OutputSent
  BY <1>9 DEF OutputSent, Cause
<1>10. CASE DisconnectLocal
  BY <1>10, GracefulKeeps DEF DisconnectLocal, OutputDrained, ShutdownFails,
      Cause, IInv
<1>11. CASE Destroy
  BY <1>11 DEF Destroy, OnShutdown, Cause
<1>12. CASE \/ Enter \/ Leave \/ LeaveReadinessReceive \/ DeferRead \/ ReceiveConnects
            \/ HandshakeWaits \/ HandshakeFails \/ ReceiveSniffed \/ ReceiveDirect
            \/ ReceiveBuffered \/ ReceiveNothing \/ WriteConnects \/ WriteDoesNothing
            \/ SetSocket \/ StateAdded \/ TimerRegistered \/ TimerPolls \/ PollInTime
            \/ UpgradeProcesses \/ LingerRefused \/ LingerTimeout \/ Accept \/ Reject
            \/ Unsubscribe \/ SendData \/ SendWaits \/ SendBreaks \/ SendConnects
            \/ UpgradeSocket \/ CloseUser \/ CloseWithLinger \/ ReceiveWindowResume
            \/ KernelSegment \/ PeerAnswersHandshake \/ PeerSends \/ PeerCloses \/ PeerResets
  BY <1>12 DEF Enter, Leave, LeaveReadinessReceive, DeferRead, ReceiveConnects, HandshakeWaits,
      HandshakeFails, ReceiveSniffed, ReceiveDirect, ReceiveBuffered, ReceiveNothing,
      WriteConnects, WriteDoesNothing, SetSocket, StateAdded, TimerRegistered, TimerPolls,
      PollInTime, UpgradeProcesses, LingerRefused, LingerTimeout, Accept, Reject, Unsubscribe,
      SendData, SendWaits, SendBreaks, SendConnects, UpgradeSocket, CloseUser, CloseWithLinger, ReceiveWindowResume, KernelSegment,
      PeerAnswersHandshake, PeerSends, PeerCloses, PeerResets, CheckHandshake, Connects,
      PeerStep, LingerEnds
<1>13. CASE UNCHANGED vars
  BY <1>13 DEF vars
<1> QED  BY <1>1, <1>2, <1>3, <1>4, <1>5, <1>6, <1>7, <1>8, <1>9, <1>10, <1>11, <1>12, <1>13
    DEF Next, Actor, Application, Environment, ProcessState

\* What waited for a handshake is written, all of it, or the connection has ended.
WrittenOrEnded ==
  \/ state' = "Connected" /\ nOutput' >= nOutput + nUnwritten
  \/ state' = "Disconnected" \/ destroyed'

\* A step that takes messages from those that wait writes them, or is the end.
LEMMA NextWrites == IInv /\ [Next]_vars /\ nUnwritten' < nUnwritten => WrittenOrEnded
<1> SUFFICES ASSUME IInv, [Next]_vars, nUnwritten' < nUnwritten, ~WrittenOrEnded
             PROVE  FALSE
    OBVIOUS
<1>a. nUnwritten \in Nat /\ nOutput \in Nat /\ nUnwritten # nUnwritten'
  BY DEF IInv, TypeInv
<1>b. state' # "Disconnected" /\ ~destroyed'
  BY DEF WrittenOrEnded
<1> USE DEF upgradeVars, attemptVars, processVars, connectionVars, promiseVars, callbackVars,
        bufferVars, streamVars, latchVars, peerVars, dataVars, postVars
<1>1. CASE ReceiveThrows
  BY <1>1, <1>a, <1>b, FatalKeeps DEF ReceiveThrows, Reading, LeavesReadiness, WaitsForUpgrade,
      CompletionReceive, MayActivate, IInv
<1>2. CASE RemoteClosedState
  BY <1>2, <1>a, <1>b, FatalKeeps, GracefulKeeps DEF RemoteClosedState, AtClose, ShutdownFails,
      IInv
<1>3. CASE ClosedState
  BY <1>3, <1>a, <1>b, FatalKeeps DEF ClosedState, AtClose, IInv
<1>4. CASE WriteShutsDown
  BY <1>4, <1>a, <1>b, FatalKeeps DEF WriteShutsDown, AtWrite, Shutdown, IInv
<1>5. CASE ReceiveSegment
  BY <1>5, <1>a, <1>b, FatalKeeps DEF ReceiveSegment, StreamInput, ReceiveStreamInput,
      StreamInputWithoutSocket, IInv
<1>6. CASE DrainHeldInput
  BY <1>6, <1>a, <1>b, FatalKeeps DEF DrainHeldInput, StreamInput, ReceiveStreamInput,
      StreamInputWithoutSocket, IInv
<1>7. CASE TimerFires
  BY <1>7, <1>a, <1>b, FatalKeeps DEF TimerFires, IInv
<1>8. CASE PollExpires
  BY <1>8, <1>a, <1>b, FatalKeeps DEF PollExpires, IInv
<1>9. CASE OutputSent
  BY <1>9, <1>a, <1>b, FatalKeeps DEF OutputSent, Shutdown, IInv
<1>10. CASE DisconnectLocal
  BY <1>10, <1>a, <1>b, FatalKeeps, GracefulKeeps DEF DisconnectLocal, ShutdownFails, IInv
<1>11. CASE Destroy
  BY <1>11, <1>b DEF Destroy, OnShutdown
<1>12. CASE ReceiveConnects \/ WriteConnects
  <2>1. /\ state' = "Connected" /\ nOutput' = nOutput + nUnwritten /\ nOutput' \in Nat
    BY <1>12, CheckHandshakeKeeps DEF ReceiveConnects, WriteConnects, IInv
  <2> QED  BY <2>1, <1>a DEF WrittenOrEnded
<1>13. CASE SendConnects
  <2>1. state' = "Connected" /\ nOutput' = nOutput + nUnwritten + 1
    BY <1>13 DEF SendConnects, Connects, WriteQueuedMessages
  <2> QED  BY <2>1, <1>a DEF WrittenOrEnded
<1>14. CASE SendWaits \/ SendBreaks
  BY <1>14, <1>a DEF SendWaits, SendBreaks
<1>15. CASE \/ Enter \/ Leave \/ LeaveReadinessReceive \/ DeferRead
            \/ HandshakeWaits \/ HandshakeFails \/ ReceiveSniffed \/ ReceiveDirect
            \/ ReceiveBuffered \/ ReceiveNothing \/ WriteDoesNothing
            \/ SetSocket \/ StateAdded \/ TimerRegistered \/ TimerPolls \/ PollInTime
            \/ UpgradeProcesses \/ LingerRefused \/ LingerTimeout \/ Accept \/ Reject
            \/ Unsubscribe \/ SendData \/ UpgradeSocket \/ CloseUser \/ CloseWithLinger
            \/ ReceiveWindowResume \/ KernelSegment \/ PeerAnswersHandshake \/ PeerSends
            \/ PeerCloses \/ PeerResets
  BY <1>15, <1>a DEF Enter, Leave, LeaveReadinessReceive, DeferRead, HandshakeWaits,
      HandshakeFails, ReceiveSniffed, ReceiveDirect, ReceiveBuffered, ReceiveNothing,
      WriteDoesNothing, SetSocket, StateAdded, TimerRegistered, TimerPolls,
      PollInTime, UpgradeProcesses, LingerRefused, LingerTimeout, Accept, Reject, Unsubscribe,
      SendData, UpgradeSocket, CloseUser, CloseWithLinger, ReceiveWindowResume, KernelSegment,
      PeerAnswersHandshake, PeerSends, PeerCloses, PeerResets, PeerStep, LingerEnds
<1>16. CASE UNCHANGED vars
  BY <1>16, <1>a DEF vars
<1> QED  BY <1>1, <1>2, <1>3, <1>4, <1>5, <1>6, <1>7, <1>8, <1>9, <1>10, <1>11, <1>12, <1>13,
    <1>14, <1>15, <1>16 DEF Next, Actor, Application, Environment, ProcessState

\* Output once written is dropped only if the peer reset or truncated the connection,
\* on a timeout or by destruction: an orderly close of either side drains it.  What
\* waits for the handshake of an upgrade is written when it is done or dropped by the
\* disconnect that ends it, and waits in no other state.
THEOREM OutputDrains == Spec => OrderlyCloseKeepsOutput
<1>1. IInv' => (nUnwritten' > 0 => state' = "None")
  BY DEF IInv, WaitsForHandshake
<1>2. IInv /\ IInv' /\ [Next]_vars =>
        [/\ lost' /\ ~lost => peer \in {"Reset", "Truncated"} \/ timer = "Installed" \/ destroyed'
         /\ nUnwritten' < nUnwritten =>
              \/ state' = "Connected" /\ nOutput' >= nOutput + nUnwritten
              \/ state' = "Disconnected" \/ destroyed'
         /\ nUnwritten' > 0 => state' = "None"]_vars
  BY NextDrops, NextWrites, <1>1 DEF Cause, WrittenOrEnded
<1> QED  BY <1>2, SpecIInv, PTL DEF Spec, OrderlyCloseKeepsOutput

-----------------------------------------------------------------------------
(***************************************************************************)
(* What the application is told of the end of the connection.              *)
(***************************************************************************)

Units == Nat \ {0}

LogTyped ==
  /\ calls \in Seq(Nat) /\ deferredData \in Seq(Units)
  /\ upgradeData \in Seq(Units) /\ incoming \in Seq(Units) /\ receiveData \in Seq(Units)
  /\ nOpened \in Nat /\ nHeld \in Nat /\ nPeerSent \in Nat
  /\ state \in {"None", "Connected", "Disconnected"}

HasClose(log) == \E i \in DOMAIN log : log[i] = CloseCall
CloseEnds(log) == \A i \in DOMAIN log : log[i] = CloseCall => i = Len(log)

\* The close callback ends the log; it is there once it was called.
LogInOrder ==
  /\ CloseEnds(calls)
  /\ HasClose(calls) => closeCalled # "None"
  /\ replied = "Accepted" /\ closeCalled # "None" => HasClose(calls)
  /\ closeCalled # "None" => state = "Disconnected"

\* Who is told of a disconnect: the close callback, or whoever waits for the handshake.
DisconnectTold ==
  /\ state = "Disconnected" => closeCalled # "None" \/ upgrade = "Failed" \/ finish = "Error"
  /\ state = "None" /\ ~destroyed => finish = "Pending" \/ upgrade = "Pending"
  /\ replied = "Accepted" => finish = "Success"
  /\ destroyed => pc = "Idle"
  /\ pc = "Closing" => state # "Disconnected"

LogInv == LogTyped /\ LogInOrder /\ DisconnectTold

\* Units end up behind a log, the close callback behind them.
LEMMA LogGrows ==
  ASSUME NEW log \in Seq(Nat), NEW units \in Seq(Units)
  PROVE  /\ log \o units \in Seq(Nat) /\ Append(log, CloseCall) \in Seq(Nat)
         /\ HasClose(Append(log, CloseCall))
         /\ ~HasClose(log) => ~HasClose(log \o units) /\ CloseEnds(Append(log, CloseCall))
         /\ log \o <<>> = log
         /\ ~HasClose(log) => CloseEnds(log)
<1>1. units \in Seq(Nat) /\ CloseCall \in Nat
  BY DEF Units, CloseCall
<1>2. log \o units \in Seq(Nat) /\ Append(log, CloseCall) \in Seq(Nat) /\ log \o <<>> = log
  BY <1>1
<1>3. HasClose(Append(log, CloseCall))
  <2>1. Len(log) + 1 \in DOMAIN Append(log, CloseCall)
    BY <1>1
  <2>2. Append(log, CloseCall)[Len(log) + 1] = CloseCall
    BY <1>1
  <2> QED  BY <2>1, <2>2 DEF HasClose
<1>4. ASSUME ~HasClose(log)
      PROVE  CloseEnds(Append(log, CloseCall))
  BY <1>1, <1>4 DEF HasClose, CloseEnds
<1>5. ASSUME ~HasClose(log)
      PROVE  ~HasClose(log \o units)
  <2> SUFFICES ASSUME NEW i \in DOMAIN (log \o units)
               PROVE  (log \o units)[i] # CloseCall
    BY DEF HasClose
  <2>1. CASE i \in 1 .. Len(log)
    BY <1>5, <2>1 DEF HasClose
  <2>2. CASE i \notin 1 .. Len(log)
    <3>1. i - Len(log) \in 1 .. Len(units) /\ (log \o units)[i] = units[i - Len(log)]
      BY <1>1, <2>2
    <3> QED  BY <3>1 DEF Units, CloseCall
  <2> QED  BY <2>1, <2>2
<1> QED  BY <1>2, <1>3, <1>4, <1>5 DEF HasClose, CloseEnds

\* Only a connection that is up gives units to the application.
LEMMA HandleDataKeeps ==
  ASSUME LogInv, NEW units \in Seq(Units), units = <<>> \/ state # "Disconnected",
         HandleData(units)
  PROVE  /\ calls' \in Seq(Nat) /\ deferredData' \in Seq(Units)
         /\ CloseEnds(calls') /\ (HasClose(calls') <=> HasClose(calls))
<1>1. CASE units = <<>>
  BY <1>1, LogGrows DEF LogInv, LogTyped, LogInOrder, HandleData, ToCalls, ToDeferred
<1>2. CASE units # <<>>
  <2>1. ~HasClose(calls)
    BY <1>2 DEF LogInv, LogInOrder
  <2>2. /\ ~HasClose(calls \o units) /\ calls \o units \in Seq(Nat)
        /\ deferredData \o units \in Seq(Units)
    BY <2>1, LogGrows DEF LogInv, LogTyped
  <2>3. CloseEnds(calls) /\ CloseEnds(calls \o units)
    BY <2>1, <2>2, LogGrows DEF LogInv, LogTyped
  <2> QED  BY <2>1, <2>2, <2>3 DEF LogInv, LogTyped, HandleData, ToCalls, ToDeferred
<1> QED  BY <1>1, <1>2

\* The close callback at the end of a disconnect, unless it was called.
LEMMA NotifyCloseKeeps ==
  ASSUME LogInv, NEW units \in Seq(Units), units = <<>> \/ state # "Disconnected",
         calls' = NotifyClose(ToCalls(units), closeCalled # "None"), closeCalled' # "None",
         replied' = replied
  PROVE  /\ calls' \in Seq(Nat) /\ CloseEnds(calls')
         /\ (replied = "Accepted" => HasClose(calls'))
<1>1. CASE closeCalled # "None"
  <2>1. units = <<>> /\ calls' = calls
    BY <1>1, LogGrows DEF LogInv, LogTyped, LogInOrder, NotifyClose, ToCalls
  <2> QED  BY <1>1, <2>1 DEF LogInv, LogTyped, LogInOrder
<1>2. CASE closeCalled = "None" /\ replied = "Accepted"
  <2>1. ~HasClose(calls) /\ calls' = Append(calls \o units, CloseCall)
    BY <1>2 DEF LogInv, LogInOrder, NotifyClose, ToCalls
  <2>2. calls \o units \in Seq(Nat) /\ ~HasClose(calls \o units)
    BY <2>1, LogGrows DEF LogInv, LogTyped
  <2> QED  BY <2>1, <2>2, LogGrows
<1>3. CASE closeCalled = "None" /\ replied # "Accepted"
  BY <1>3 DEF LogInv, LogTyped, LogInOrder, NotifyClose, ToCalls
<1> QED  BY <1>1, <1>2, <1>3

\* A fatal disconnect keeps the log, the end of it is told.
LEMMA FatalLog ==
  ASSUME LogInv, ~destroyed, NEW units \in Seq(Units), units = <<>> \/ state # "Disconnected",
         DisconnectFatal(units)
  PROVE  /\ calls' \in Seq(Nat) /\ deferredData' \in Seq(Units) /\ receiveData' = <<>>
         /\ LogInOrder' /\ replied' = replied /\ state' = "Disconnected"
         /\ (replied = "Accepted" => finish' = "Success")
         /\ closeCalled' # "None" \/ upgrade' = "Failed" \/ finish' = "Error"
<1>1. /\ state' = "Disconnected" /\ replied' = replied /\ receiveData' = <<>>
      /\ deferredData' = ToDeferred(units) /\ FailAttempts
  BY DEF DisconnectFatal, ShutdownDone
<1>2. deferredData' \in Seq(Units)
  BY <1>1 DEF LogInv, LogTyped, ToDeferred
<1>3. replied = "Accepted" => finish' = "Success"
  BY <1>1 DEF LogInv, DisconnectTold, FailAttempts
<1>4. CASE state = "Disconnected"
  <2>1. units = <<>> /\ calls' = calls /\ closeCalled' = closeCalled
    BY <1>4, LogGrows DEF LogInv, LogTyped, DisconnectFatal, ToCalls
  <2>2. finish' = finish /\ upgrade' = upgrade
    BY <1>1, <1>4 DEF FailAttempts
  <2> QED  BY <1>1, <1>2, <1>3, <1>4, <2>1, <2>2 DEF LogInv, LogTyped, LogInOrder,
          DisconnectTold
<1>5. CASE state # "Disconnected"
  <2>1. /\ closeCalled' # "None"
        /\ calls' = NotifyClose(ToCalls(units), closeCalled # "None")
    BY <1>5 DEF DisconnectFatal, NotifyClose
  <2>2. /\ calls' \in Seq(Nat) /\ CloseEnds(calls')
        /\ (replied = "Accepted" => HasClose(calls'))
    BY <1>1, <2>1, NotifyCloseKeeps
  <2> QED  BY <1>1, <1>2, <1>3, <2>1, <2>2 DEF LogInOrder
<1> QED  BY <1>4, <1>5

\* So does a graceful one.
LEMMA GracefulLog ==
  ASSUME LogInv, ~destroyed, state # "Disconnected", NEW status \in {"Normal", "Local"},
         NEW units \in Seq(Units), units = <<>> \/ state # "Disconnected",
         DisconnectGraceful(status, units)
  PROVE  /\ calls' \in Seq(Nat) /\ deferredData' \in Seq(Units) /\ receiveData' = receiveData
         /\ LogInOrder' /\ replied' = replied /\ state' = "Disconnected"
         /\ (replied = "Accepted" => finish' = "Success")
         /\ closeCalled' # "None" \/ upgrade' = "Failed" \/ finish' = "Error"
<1>1. /\ state' = "Disconnected" /\ replied' = replied /\ receiveData' = receiveData
      /\ deferredData' = ToDeferred(units) /\ FailAttempts
  BY DEF DisconnectGraceful
<1>2. deferredData' \in Seq(Units)
  BY <1>1 DEF LogInv, LogTyped, ToDeferred
<1>3. replied = "Accepted" => finish' = "Success"
  BY <1>1 DEF LogInv, DisconnectTold, FailAttempts
<1>4. CASE state = "Connected"
  <2>1. /\ closeCalled' # "None"
        /\ calls' = NotifyClose(ToCalls(units), closeCalled # "None")
    BY <1>4 DEF DisconnectGraceful
  <2>2. /\ calls' \in Seq(Nat) /\ CloseEnds(calls')
        /\ (replied = "Accepted" => HasClose(calls'))
    BY <1>1, <2>1, NotifyCloseKeeps
  <2> QED  BY <1>1, <1>2, <1>3, <2>1, <2>2 DEF LogInOrder
<1>5. CASE state # "Connected"
  <2>1. calls' = calls /\ closeCalled' = closeCalled /\ closeCalled = "None"
    BY <1>5 DEF DisconnectGraceful, LogInv, LogInOrder
  <2>2. state = "None" => upgrade' = "Failed" \/ finish' = "Error"
    BY <1>1 DEF LogInv, DisconnectTold, FailAttempts
  <2> QED  BY <1>1, <1>2, <1>3, <1>5, <2>1, <2>2 DEF LogInv, LogTyped, LogInOrder
<1> QED  BY <1>4, <1>5

\* Sequences of units, and what the handlers build from them.
LEMMA UnitsTyped ==
  /\ <<>> \in Seq(Units)
  /\ \A s, t \in Seq(Units) : s \o t \in Seq(Units)
  /\ \A s \in Seq(Units), u \in Units : Append(s, u) \in Seq(Units)
  /\ \A s \in Seq(Units), n \in Nat : SubSeq(s, 1, n) \in Seq(Units) \/ n > Len(s)
<1>1. \A s, t \in Seq(Units) : s \o t \in Seq(Units)
  OBVIOUS
<1>2. \A s \in Seq(Units), u \in Units : Append(s, u) \in Seq(Units)
  OBVIOUS
<1>3. \A s \in Seq(Units), n \in Nat : SubSeq(s, 1, n) \in Seq(Units) \/ n > Len(s)
  OBVIOUS
<1> QED  BY <1>1, <1>2, <1>3

\* Units the transport opens are numbered from nOpened on.
LEMMA OpenedUnits ==
  ASSUME NEW n \in Nat, NEW m \in Int
  PROVE  [i \in 1 .. m |-> n + i] \in Seq(Units)
<1>1. CASE m \in Nat
  BY <1>1 DEF Units
<1>2. CASE m \notin Nat
  <2>1. 1 .. m = 1 .. 0
    BY <1>2
  <2>2. [i \in 1 .. 0 |-> n + i] \in Seq(Units)
    BY DEF Units
  <2> QED  BY <2>1, <2>2
<1> QED  BY <1>1, <1>2

\* Buffered data goes to the application of a connection that is up.
LEMMA ProcessIncomingKeeps ==
  ASSUME LogInv, ProcessIncoming
  PROVE  /\ calls' \in Seq(Nat) /\ deferredData' \in Seq(Units) /\ incoming' \in Seq(Units)
         /\ CloseEnds(calls') /\ (HasClose(calls') <=> HasClose(calls))
<1>1. CASE state = "Connected"
  BY <1>1, HandleDataKeeps, UnitsTyped DEF ProcessIncoming, ProcessIncomingMessage, LogInv,
     LogTyped
<1>2. CASE state # "Connected"
  BY <1>2, UnitsTyped DEF ProcessIncoming, LogInv, LogTyped, LogInOrder
<1> QED  BY <1>1, <1>2

\* What the upgrade check takes and what it leaves.
LEMMA SniffKeeps ==
  ASSUME LogInv, NEW unit \in Units, NEW now, now = "Connected" => state # "Disconnected",
         Sniff(unit, now)
  PROVE  /\ calls' \in Seq(Nat) /\ deferredData' \in Seq(Units) /\ incoming' \in Seq(Units)
         /\ upgradeData' \in Seq(Units)
         /\ CloseEnds(calls') /\ (HasClose(calls') <=> HasClose(calls))
<1>1. PICK taken \in 0 .. Len(upgradeData) + 1 :
        LET data == Append(upgradeData, unit)
            ready == incoming \o SubSeq(data, 1, taken)
        IN /\ upgradeData' = SubSeq(data, taken + 1, Len(data))
           /\ HandleData(IF now = "Connected" THEN ready ELSE <<>>)
           /\ incoming' = IF now = "None" THEN ready ELSE <<>>
  BY DEF Sniff
<1> DEFINE data == Append(upgradeData, unit)
           ready == incoming \o SubSeq(data, 1, taken)
<1>2. /\ data \in Seq(Units) /\ Len(data) = Len(upgradeData) + 1
      /\ taken \in Nat /\ taken <= Len(data)
  BY DEF LogInv, LogTyped
<1> HIDE DEF data
<1>3. /\ SubSeq(data, 1, taken) \in Seq(Units)
      /\ SubSeq(data, taken + 1, Len(data)) \in Seq(Units)
  BY <1>2
<1>4. ready \in Seq(Units)
  BY <1>3, UnitsTyped DEF LogInv, LogTyped
<1>5. /\ upgradeData' = SubSeq(data, taken + 1, Len(data))
      /\ HandleData(IF now = "Connected" THEN ready ELSE <<>>)
      /\ incoming' = IF now = "None" THEN ready ELSE <<>>
  BY <1>1 DEF data
<1> HIDE DEF ready
<1> QED  BY <1>3, <1>4, <1>5, HandleDataKeeps, UnitsTyped

\* What a close state flushes.
LEMMA FlushKeeps ==
  ASSUME LogInv, FlushBeforeClose
  PROVE  /\ FlushedUnits \in Seq(Units) /\ (FlushedUnits = <<>> \/ state # "Disconnected")
         /\ incoming' \in Seq(Units) /\ upgradeData' \in Seq(Units)
BY UnitsTyped DEF LogInv, LogTyped, FlushBeforeClose, FlushedUnits, SniffedOut

\* A read of the transport keeps its counters natural.
LEMMA OpensKeeps ==
  ASSUME LogTyped, NEW n \in Nat, Opens(n)
  PROVE  nOpened' = nOpened + n /\ nOpened' \in Nat /\ nHeld' \in Nat
BY DEF LogTyped, Opens

\* The order of the log depends on the log, the close flag and the state only.
LEMMA LogInOrderKeeps ==
  ASSUME LogInOrder, CloseEnds(calls'), HasClose(calls') <=> HasClose(calls),
         UNCHANGED <<closeCalled, replied>>, state' = state \/ closeCalled = "None"
  PROVE  LogInOrder'
BY DEF LogInOrder

\* Stream input: units for a connection that is up, or a fatal disconnect.
LEMMA StreamLog ==
  ASSUME LogInv, ~destroyed, destroyed' = destroyed, pc' # "Closing", NEW input,
         StreamInput(input),
         UNCHANGED <<upgradeData, nPeerSent>>
  PROVE  LogInv'
<1>1. CASE socket # "Set"
  BY <1>1 DEF StreamInput, StreamInputWithoutSocket, LogInv, LogTyped, LogInOrder,
     DisconnectTold,
              connectionVars, promiseVars, attemptVars, callbackVars, bufferVars, dataVars
<1>2. CASE socket = "Set"
  <2> DEFINE last == LastUnit(input)
             units == [i \in 1 .. last - nOpened |-> nOpened + i]
             told == IF state = "Connected" /\ units # <<>>
                     THEN incoming \o receiveData \o units
                     ELSE <<>>
  <2>1. last \in Nat
    BY DEF LastUnit, LogInv, LogTyped
  <2>2. units \in Seq(Units)
    <3>1. nOpened \in Nat /\ last - nOpened \in Int
      BY <2>1 DEF LogInv, LogTyped
    <3> HIDE DEF last
    <3> QED  BY <3>1, OpenedUnits
  <2>3. told \in Seq(Units) /\ (told = <<>> \/ state # "Disconnected")
    <3> HIDE DEF units
    <3> QED  BY <2>2, UnitsTyped DEF LogInv, LogTyped
  <2>4. /\ nOpened' = last /\ nHeld' = last
        /\ incoming' \in {incoming, <<>>}
        /\ \/ DisconnectFatal(told)
           \/ /\ HandleData(told) /\ receiveData' \in {receiveData, <<>>}
              /\ UNCHANGED <<connectionVars, promiseVars, replied, closeCalled>>
    BY <1>2 DEF StreamInput, ReceiveStreamInput
  <2> HIDE DEF last, told
  <2>5. CASE DisconnectFatal(told)
    <3>1. LogTyped'
      BY <2>1, <2>3, <2>4, <2>5, FatalLog, UnitsTyped DEF LogInv, LogTyped
    <3> QED  BY <2>3, <2>5, <3>1, FatalLog DEF LogInv, DisconnectTold
  <2>6. CASE /\ HandleData(told) /\ receiveData' \in {receiveData, <<>>}
             /\ UNCHANGED <<connectionVars, promiseVars, replied, closeCalled>>
    <3>1. LogInOrder'
      BY <2>3, <2>6, HandleDataKeeps, LogInOrderKeeps DEF LogInv, connectionVars
    <3>2. LogTyped'
      BY <2>1, <2>3, <2>4, <2>6, HandleDataKeeps, UnitsTyped DEF LogInv, LogTyped,
         connectionVars
    <3> QED  BY <2>6, <3>1, <3>2 DEF LogInv, DisconnectTold, connectionVars, promiseVars,
            attemptVars
  <2> QED  BY <2>4, <2>5, <2>6
<1> QED  BY <1>1, <1>2

\* Every step keeps the log.
LEMMA NextLog == LogInv /\ [Next]_vars => LogInv'
<1> SUFFICES ASSUME LogInv, [Next]_vars PROVE LogInv'
    OBVIOUS
<1> USE UnitsTyped DEF LogInv, LogTyped, LogInOrder, DisconnectTold, Free, vars, upgradeVars,
        attemptVars, processVars, connectionVars, promiseVars, callbackVars, bufferVars,
        streamVars, latchVars, peerVars, dataVars, postVars
<1>1. CASE Enter
  BY <1>1 DEF Enter
<1>2. CASE Leave
  BY <1>2 DEF Leave
<1>3. CASE LeaveReadinessReceive
  BY <1>3, ProcessIncomingKeeps DEF LeaveReadinessReceive, Handled
<1>4. CASE DeferRead
  BY <1>4 DEF DeferRead, Handled
<1>5. CASE ReceiveThrows
  BY <1>5, FatalLog DEF ReceiveThrows, Reading
<1>6. CASE ReceiveConnects
  <2>1. /\ state = "None" /\ closeCalled = "None" /\ CheckHandshake
        /\ UNCHANGED <<replied, closeCalled, receiveData, peerVars, destroyed>>
    BY <1>6 DEF ReceiveConnects, Reading
  <2>2. PICK n \in 0 .. 1 :
          /\ Opens(n)
          /\ \/ n = 1 /\ Sniff(nOpened + 1, "Connected")
             \/ /\ incoming' = incoming \o [j \in 1 .. n |-> nOpened + j]
                /\ UNCHANGED <<upgradeData, calls, deferredData>>
    BY <1>6 DEF ReceiveConnects
  <2>3. nOpened' \in Nat /\ nHeld' \in Nat
    BY <2>2, OpensKeeps
  <2>4. /\ calls' \in Seq(Nat) /\ deferredData' \in Seq(Units) /\ incoming' \in Seq(Units)
        /\ upgradeData' \in Seq(Units)
        /\ CloseEnds(calls') /\ (HasClose(calls') <=> HasClose(calls))
    <3>1. nOpened + 1 \in Units /\ [j \in 1 .. n |-> nOpened + j] \in Seq(Units)
      BY OpenedUnits DEF Units
    <3> QED  BY <2>1, <2>2, <3>1, SniffKeeps
  <2>5. state' = "Connected" /\ (finish = "Success" => finish' = "Success")
    BY <2>1 DEF CheckHandshake, Connects
  <2>6. LogTyped'
    BY <2>1, <2>3, <2>4, <2>5
  <2>7. LogInOrder'
    BY <2>1, <2>4, LogInOrderKeeps
  <2>8. pc' = pc /\ destroyed = destroyed'
    BY <1>6 DEF ReceiveConnects
  <2> QED  BY <2>1, <2>5, <2>6, <2>7, <2>8
<1>7. CASE HandshakeWaits
  BY <1>7 DEF HandshakeWaits, Reading, Handled
<1>8. CASE HandshakeFails
  BY <1>8 DEF HandshakeFails, Reading, Handled
<1>9. CASE ReceiveSniffed
  <2>1. /\ Opens(1) /\ Sniff(nOpened + 1, state)
        /\ UNCHANGED <<pc, attemptVars, state, replied, closeCalled, receiveData, nPeerSent,
                       destroyed>>
    BY <1>9 DEF ReceiveSniffed
  <2>2. nOpened + 1 \in Units /\ nOpened' \in Nat /\ nHeld' \in Nat
    BY <2>1, OpensKeeps DEF Units
  <2>3. /\ calls' \in Seq(Nat) /\ deferredData' \in Seq(Units) /\ incoming' \in Seq(Units)
        /\ upgradeData' \in Seq(Units)
        /\ CloseEnds(calls') /\ (HasClose(calls') <=> HasClose(calls))
    BY <2>1, <2>2, SniffKeeps
  <2>4. LogInOrder'
    BY <2>1, <2>3, LogInOrderKeeps
  <2> QED  BY <2>1, <2>2, <2>3, <2>4
<1>10. CASE ReceiveDirect
  <2>1. /\ Opens(1)
        /\ UNCHANGED <<pc, attemptVars, state, replied, closeCalled, upgradeData, incoming,
                       nPeerSent, destroyed>>
    BY <1>10 DEF ReceiveDirect
  <2>2. nOpened + 1 \in Units /\ nOpened' \in Nat /\ nHeld' \in Nat
    BY <2>1, OpensKeeps DEF Units
  <2>3. PICK units \in Seq(Units) :
          /\ units = <<>> \/ state # "Disconnected"
          /\ \/ HandleData(units) /\ receiveData' = <<>>
             \/ /\ UNCHANGED <<calls, deferredData>>
                /\ receiveData' = Append(receiveData, nOpened + 1)
    BY <1>10, <2>2 DEF ReceiveDirect
  <2>4. /\ calls' \in Seq(Nat) /\ deferredData' \in Seq(Units) /\ receiveData' \in Seq(Units)
        /\ CloseEnds(calls') /\ (HasClose(calls') <=> HasClose(calls))
    BY <2>2, <2>3, HandleDataKeeps
  <2>5. LogInOrder'
    BY <2>1, <2>4, LogInOrderKeeps
  <2> QED  BY <2>1, <2>2, <2>4, <2>5
<1>11. CASE ReceiveBuffered
  <2>1. /\ Opens(1)
        /\ UNCHANGED <<pc, attemptVars, state, replied, closeCalled, upgradeData, receiveData,
                       nPeerSent, destroyed>>
    BY <1>11 DEF ReceiveBuffered
  <2>2. nOpened + 1 \in Units /\ nOpened' \in Nat /\ nHeld' \in Nat
    BY <2>1, OpensKeeps DEF Units
  <2>3. PICK units \in Seq(Units) :
          /\ units = <<>> \/ state # "Disconnected"
          /\ \/ HandleData(units) /\ incoming' = <<>>
             \/ /\ UNCHANGED <<calls, deferredData>>
                /\ incoming' = Append(incoming, nOpened + 1)
    BY <1>11, <2>2 DEF ReceiveBuffered
  <2>4. /\ calls' \in Seq(Nat) /\ deferredData' \in Seq(Units) /\ incoming' \in Seq(Units)
        /\ CloseEnds(calls') /\ (HasClose(calls') <=> HasClose(calls))
    BY <2>2, <2>3, HandleDataKeeps
  <2>5. LogInOrder'
    BY <2>1, <2>4, LogInOrderKeeps
  <2> QED  BY <2>1, <2>2, <2>4, <2>5
<1>12. CASE ReceiveNothing
  BY <1>12, HandleDataKeeps, ProcessIncomingKeeps DEF ReceiveNothing, Reading, Handled
<1>13. CASE RemoteClosedState
  BY <1>13, FlushKeeps, FatalLog, GracefulLog DEF RemoteClosedState, AtClose, Handled
<1>14. CASE ClosedState
  <2>1. /\ ~destroyed /\ FlushBeforeClose /\ pc = "States"
        /\ UNCHANGED <<pc, peerVars, dataVars, destroyed>>
    BY <1>14 DEF ClosedState, AtClose
  <2>2. CASE DisconnectFatal(FlushedUnits)
    BY <2>1, <2>2, FlushKeeps, FatalLog
  <2>3. CASE state = "Disconnected" /\ ShutdownDone("Clean") /\ UNCHANGED <<state, attemptVars,
          callbackVars>>
    BY <2>1, <2>3, FlushKeeps DEF ShutdownDone
  <2> QED  BY <1>14, <2>2, <2>3 DEF ClosedState
<1>15. CASE WriteConnects
  BY <1>15 DEF WriteConnects, AtWrite, Handled, CheckHandshake, Connects
<1>16. CASE WriteShutsDown
  <2>1. /\ ~destroyed /\ pc = "States" /\ pc' = pc
        /\ UNCHANGED <<incoming, upgradeData, peerVars, dataVars, destroyed>>
    BY <1>16 DEF WriteShutsDown, AtWrite, Handled
  <2>2. CASE DisconnectFatal(<<>>)
    BY <2>1, <2>2, FatalLog
  <2>3. CASE UNCHANGED <<state, promiseVars, callbackVars, receiveData>>
    BY <2>1, <2>3
  <2> QED  BY <1>16, <2>2, <2>3 DEF WriteShutsDown
<1>17. CASE WriteDoesNothing
  BY <1>17 DEF WriteDoesNothing, AtWrite, Handled
<1>18. CASE SetSocket
  BY <1>18 DEF SetSocket, StartProcess
<1>19. CASE StateAdded
  BY <1>19 DEF StateAdded, StartProcess
<1>20. CASE ReceiveSegment
  <2>1. /\ \E input : StreamInput(input)
        /\ ~destroyed /\ pc = "Idle"
        /\ UNCHANGED <<upgradeVars, pending, caller, before, destroyed, peerVars>>
    BY <1>20 DEF ReceiveSegment
  <2>2. pc' # "Closing"
    BY ZenonT(60), <2>1 DEF StreamInput, ReceiveStreamInput, StreamInputWithoutSocket, StartProcess
  <2> QED  BY <2>1, <2>2, StreamLog
<1>21. CASE DrainHeldInput
  <2>1. /\ \E input : StreamInput(input)
        /\ ~destroyed /\ pc = "Idle"
        /\ UNCHANGED <<upgradeVars, pending, caller, before, destroyed, peerVars>>
    BY <1>21 DEF DrainHeldInput
  <2>2. pc' # "Closing"
    BY ZenonT(60), <2>1 DEF StreamInput, ReceiveStreamInput, StreamInputWithoutSocket, StartProcess
  <2> QED  BY <2>1, <2>2, StreamLog
<1>22. CASE TimerRegistered
  BY <1>22 DEF TimerRegistered
<1>23. CASE TimerFires
  BY <1>23, FatalLog DEF TimerFires
<1>24. CASE TimerPolls
  BY <1>24 DEF TimerPolls, StartProcess
<1>25. CASE PollExpires
  BY <1>25, FatalLog DEF PollExpires
<1>26. CASE PollInTime
  BY <1>26 DEF PollInTime
<1>27. CASE OutputSent
  BY <1>27, FatalLog DEF OutputSent, LastOutput
<1>28. CASE DisconnectLocal
  <2>1. /\ ~destroyed /\ pc' # "Closing" /\ state # "Disconnected"
        /\ UNCHANGED <<incoming, upgradeData, peerVars, dataVars, destroyed>>
    BY <1>28 DEF DisconnectLocal
  <2>2. CASE DisconnectFatal(<<>>)
    BY <2>1, <2>2, FatalLog
  <2>3. CASE DisconnectGraceful("Local", <<>>)
    BY <2>1, <2>3, GracefulLog
  <2> QED  BY <1>28, <2>2, <2>3 DEF DisconnectLocal
<1>29. CASE UpgradeProcesses
  BY <1>29 DEF UpgradeProcesses, StartProcess
<1>30. CASE LingerRefused
  BY <1>30 DEF LingerRefused, LingerEnds
<1>31. CASE LingerTimeout
  BY <1>31 DEF LingerTimeout, LingerEnds
<1>32. CASE Accept
  <2>1. /\ finish = "Success" /\ replied' = "Accepted" /\ ~destroyed
        /\ calls' = deferredData \o (IF closeCalled # "None" THEN <<CloseCall>> ELSE <<>>)
                       \o (IF state = "Connected" THEN incoming ELSE <<>>)
        /\ deferredData' = <<>> /\ incoming' = <<>>
        /\ UNCHANGED <<pc, state, attemptVars, closeCalled, receiveData, upgradeData,
                       destroyed, peerVars, dataVars>>
    BY <1>32 DEF Accept
  <2>2. ~HasClose(deferredData) /\ deferredData \in Seq(Nat)
    BY DEF Units, HasClose, CloseCall
  <2>3. calls' \in Seq(Nat) /\ CloseEnds(calls') /\ (HasClose(calls') <=> closeCalled # "None")
    <3>1. CASE closeCalled # "None"
      <4>1. calls' = Append(deferredData, CloseCall)
        BY <2>1, <2>2, <3>1 DEF CloseCall
      <4> QED  BY <2>2, <3>1, <4>1, LogGrows
    <3>2. CASE closeCalled = "None"
      <4>1. calls' = deferredData \o (IF state = "Connected" THEN incoming ELSE <<>>)
        BY <2>1, <2>2, <3>2, LogGrows
      <4> QED  BY <2>2, <3>2, <4>1, LogGrows
    <3> QED  BY <3>1, <3>2
  <2> QED  BY <2>1, <2>3
<1>33. CASE Reject
  BY <1>33 DEF Reject
<1>34. CASE Unsubscribe
  BY <1>34 DEF Unsubscribe
<1>35. CASE SendData \/ SendWaits \/ SendBreaks
  BY <1>35 DEF SendData, SendWaits, SendBreaks
<1>36. CASE UpgradeSocket
  BY <1>36 DEF UpgradeSocket, MayUpgrade, StartProcess
<1>37. CASE CloseUser
  BY <1>37 DEF CloseUser, Close
<1>38. CASE CloseWithLinger
  BY <1>38 DEF CloseWithLinger, Close
<1>39. CASE Destroy
  BY <1>39 DEF Destroy, OnShutdown
<1>40. CASE ReceiveWindowResume
  BY <1>40 DEF ReceiveWindowResume
<1>41. CASE KernelSegment
  BY <1>41 DEF KernelSegment
<1>42. CASE PeerAnswersHandshake
  BY <1>42 DEF PeerAnswersHandshake, PeerStep
<1>43. CASE PeerSends
  BY <1>43 DEF PeerSends, PeerStep
<1>44. CASE PeerCloses
  BY <1>44 DEF PeerCloses, PeerStep
<1>45. CASE PeerResets
  BY <1>45 DEF PeerResets, PeerStep
<1>46. CASE SendConnects
  BY <1>46 DEF SendConnects, Connects, StartProcess, MaySend, StartStream
<1>47. CASE UNCHANGED vars
  BY <1>47
<1> QED  BY <1>1, <1>2, <1>3, <1>4, <1>5, <1>6, <1>7, <1>8, <1>9, <1>10, <1>11, <1>12, <1>13,
    <1>14, <1>15, <1>16, <1>17, <1>18, <1>19, <1>20, <1>21, <1>22, <1>23, <1>24, <1>25, <1>26,
    <1>27, <1>28, <1>29, <1>30, <1>31, <1>32, <1>33, <1>34, <1>35, <1>36, <1>37, <1>38, <1>39,
    <1>40, <1>41, <1>42, <1>43, <1>44, <1>45, <1>46, <1>47 DEF Next, Actor, Application,
    Environment, ProcessState

\* A connection starts with an empty log.
LEMMA InitLog == Init => LogInv
<1> SUFFICES ASSUME Init PROVE LogInv
    OBVIOUS
<1>1. /\ calls = <<>> /\ deferredData = <<>> /\ upgradeData = <<>>
      /\ incoming = <<>> /\ receiveData = <<>> /\ closeCalled = "None"
      /\ nOpened = 0 /\ nHeld = 0 /\ nPeerSent = 0
      /\ state = "None" /\ finish = "Pending" /\ replied = "No" /\ pc = "Idle"
  BY DEF Init
<1>2. LogTyped
  BY <1>1, UnitsTyped DEF LogTyped
<1>3. ~HasClose(calls) /\ CloseEnds(calls)
  BY <1>1 DEF HasClose, CloseEnds
<1>4. LogInOrder /\ DisconnectTold
  BY <1>1, <1>3 DEF LogInOrder, DisconnectTold
<1> QED  BY <1>2, <1>4 DEF LogInv

\* The close callback comes last and once, and an application that accepted a
\* connection that ended gets it, unless the error of its upgrade told it.
THEOREM CloseIsToldLast == Spec => []CloseToldLast
<1>1. Init => LogInv
  BY InitLog
<1>2. LogInv /\ [Next]_vars => LogInv'
  BY NextLog
<1>3. LogInv => CloseToldLast
  <2> SUFFICES ASSUME LogInv PROVE CloseToldLast
      OBVIOUS
  <2>1. \A i \in DOMAIN calls : calls[i] = CloseCall => i = Len(calls)
    BY DEF LogInv, LogInOrder, CloseEnds
  <2>2. replied = "Accepted" /\ state = "Disconnected" =>
          upgrade = "Failed" \/ CloseCall \in {calls[i] : i \in DOMAIN calls}
    BY DEF LogInv, LogInOrder, DisconnectTold, HasClose
  <2> QED  BY <2>1, <2>2 DEF CloseToldLast
<1> QED  BY <1>1, <1>2, <1>3, PTL DEF Spec

-----------------------------------------------------------------------------
\* The data of the connection.

\* The first n units, and logs that are such.
FirstUnits(n) == [i \in 1 .. n |-> i]
Counts(q) == q = FirstUnits(Len(q))

\* What the actor received: told, or in one of its buffers.
Held == incoming \o receiveData \o upgradeData
Received == Told \o Held

\* The application is told what comes, now or once it accepts.
Heard == replied \in {"No", "Accepted"} /\ state # "Disconnected"

\* The application is told the units from the first on; what it was told and what
\* waits in the buffers is all that the transport gave, as long as it is told.
NothingMissing ==
  /\ Counts(Told)
  /\ Heard => Received = FirstUnits(nOpened)

\* An upgrade check comes with the unit that asks for the upgrade, or with none.
KindTyped ==
  /\ switch \in Nat /\ check \in {"None", "Sniffing", "Required"}
  /\ nOpened <= nHeld

\* During a handshake nothing was received, and no stream input is on its way.
NothingBeforeConnected ==
  state = "None" =>
    /\ incoming = <<>> /\ receiveData = <<>> /\ upgradeData = <<>>
    /\ ~streamActive /\ ~streamEnded /\ ~heldQueued /\ segments = <<>> /\ kernelStream = "None"
    /\ check # "Required"

\* TLS is through with its handshake once the actor is connected.
HandshakeFirst == layer = "Handshake" => state # "Connected"

\* What the application is told before it accepts waits for that.
RepliesFirst ==
  /\ upgrade # "None" => replied # "No"
  /\ replied = "No" => calls = <<>>
  /\ replied = "Accepted" => deferredData = <<>>

\* Between handlers nothing waits in a buffer of a connection that is up, and the
\* buffers of a read hold no data beside that of an upgrade check.
Buffers ==
  state = "Connected" =>
    /\ incoming # <<>> \/ receiveData # <<>> => pc = "States" /\ "Read" \in added
    /\ receiveData # <<>> => incoming = <<>> /\ check = "None" /\ ~LeavesReadiness
    /\ check = "Required" => incoming = <<>> /\ upgradeData = <<>>
    /\ check = "None" /\ replied # "Dropped" => upgradeData = <<>>

\* The unit that asks for an upgrade is the last one the plain socket is read for.
SwitchLast ==
  switch # 0 /\ ~Tls /\ state # "Disconnected" /\ replied # "Dropped" =>
    \/ check = "Sniffing" /\ nOpened < switch
    \/ check = "Required" /\ nOpened = switch

FlowInv ==
  KindTyped /\ NothingBeforeConnected /\ HandshakeFirst /\ RepliesFirst /\ Buffers /\ SwitchLast

\* What the proofs need of joined logs.
LEMMA Joins ==
  /\ \A r, s, t \in Seq(Units) : (r \o s) \o t = r \o (s \o t)
  /\ \A s \in Seq(Units) : s \o <<>> = s /\ <<>> \o s = s
  /\ \A s, t \in Seq(Units) : s \o t \in Seq(Units)
  /\ \A s \in Seq(Units), u \in Units : Append(s, u) = s \o <<u>> /\ <<u>> \in Seq(Units)
  /\ <<>> \in Seq(Units)
<1>1. \A r, s, t \in Seq(Units) : (r \o s) \o t = r \o (s \o t)
  BY ConcatAssociative
<1>2. \A s \in Seq(Units) : s \o <<>> = s /\ <<>> \o s = s
  BY ConcatEmptySeq
<1>3. \A s, t \in Seq(Units) : s \o t \in Seq(Units)
  OBVIOUS
<1>4. \A s \in Seq(Units), u \in Units : Append(s, u) = s \o <<u>> /\ <<u>> \in Seq(Units)
  BY AppendIsConcat
<1>5. <<>> \in Seq(Units)
  OBVIOUS
<1> QED  BY <1>1, <1>2, <1>3, <1>4, <1>5

\* The units that come next make the first units more.
LEMMA FirstUnitsGrow ==
  ASSUME NEW n \in Nat, NEW m \in Nat
  PROVE  /\ FirstUnits(n) \in Seq(Units) /\ Len(FirstUnits(n)) = n /\ Counts(FirstUnits(n))
         /\ FirstUnits(n) \o [i \in 1 .. m |-> n + i] = FirstUnits(n + m)
<1>1. FirstUnits(n) \in Seq(Units) /\ Len(FirstUnits(n)) = n
  BY DEF FirstUnits, Units
<1>2. [i \in 1 .. m |-> n + i] \in Seq(Units) /\ Len([i \in 1 .. m |-> n + i]) = m
  BY DEF Units
<1>3. FirstUnits(n + m) \in Seq(Units) /\ Len(FirstUnits(n + m)) = n + m
  BY DEF FirstUnits, Units
<1>4. \A i \in 1 .. n + m : (FirstUnits(n) \o [j \in 1 .. m |-> n + j])[i] = FirstUnits(n + m)[i]
  BY <1>1, <1>2 DEF FirstUnits
<1>5. FirstUnits(n) \o [j \in 1 .. m |-> n + j] = FirstUnits(n + m)
  <2>1. /\ FirstUnits(n) \o [j \in 1 .. m |-> n + j] \in Seq(Units)
        /\ Len(FirstUnits(n) \o [j \in 1 .. m |-> n + j]) = n + m
    BY <1>1, <1>2
  <2> QED  BY <1>3, <1>4, <2>1, SeqEqual
<1> QED  BY <1>1, <1>5 DEF Counts

\* What comes first of the first units are first units.
LEMMA PrefixCounts ==
  ASSUME NEW s \in Seq(Units), NEW t \in Seq(Units), NEW n \in Nat, s \o t = FirstUnits(n)
  PROVE  Counts(s)
<1>1. Len(s) <= n /\ Len(s) \in Nat
  <2>1. Len(s \o t) = Len(s) + Len(t) /\ Len(s) \in Nat /\ Len(t) \in Nat
    OBVIOUS
  <2>2. Len(FirstUnits(n)) = n
    BY FirstUnitsGrow
  <2> QED  BY <2>1, <2>2
<1>2. \A i \in 1 .. Len(s) : s[i] = FirstUnits(Len(s))[i]
  <2> SUFFICES ASSUME NEW i \in 1 .. Len(s) PROVE s[i] = i
    BY DEF FirstUnits
  <2>1. (s \o t)[i] = s[i]
    BY ConcatProperties
  <2> QED  BY <1>1, <2>1 DEF FirstUnits
<1> QED  BY <1>1, <1>2, FirstUnitsGrow, SeqEqual DEF Counts

\* The units of a log, with and without its close callback.
LEMMA UnitsOfLog ==
  ASSUME NEW log \in Seq(Nat), CloseEnds(log)
  PROVE  /\ UnitsOf(log) \in Seq(Units)
         /\ ~HasClose(log) =>
              UnitsOf(log) = log /\ UnitsOf(Append(log, CloseCall)) = log /\ log \in Seq(Units)
<1>1. CASE ~HasClose(log)
  <2>1. log \in Seq(Units)
    BY <1>1 DEF HasClose, CloseCall, Units
  <2>2. UnitsOf(log) = log
    BY <1>1 DEF UnitsOf, HasClose
  <2>3. UnitsOf(Append(log, CloseCall)) = log
    <3>1. /\ Append(log, CloseCall) # <<>> /\ Len(Append(log, CloseCall)) = Len(log) + 1
          /\ Append(log, CloseCall)[Len(log) + 1] = CloseCall
          /\ Append(log, CloseCall) \in Seq(Nat)
      BY DEF CloseCall
    <3>2. UnitsOf(Append(log, CloseCall)) = SubSeq(Append(log, CloseCall), 1, Len(log))
      BY <3>1 DEF UnitsOf
    <3>3. SubSeq(Append(log, CloseCall), 1, Len(log)) = log
      BY DEF CloseCall
    <3> QED  BY <3>2, <3>3
  <2> QED  BY <2>1, <2>2, <2>3
<1>2. CASE HasClose(log)
  <2>1. log # <<>> /\ log[Len(log)] = CloseCall /\ Len(log) \in Nat \ {0}
    BY <1>2 DEF HasClose, CloseEnds
  <2>2. UnitsOf(log) = SubSeq(log, 1, Len(log) - 1)
    BY <2>1 DEF UnitsOf
  <2>3. \A i \in 1 .. Len(log) - 1 : log[i] \in Units
    <3> TAKE i \in 1 .. Len(log) - 1
    <3>1. i \in DOMAIN log /\ i # Len(log) /\ log[i] \in Nat
      BY <2>1
    <3> QED  BY <3>1 DEF CloseEnds, CloseCall, Units
  <2>4. SubSeq(log, 1, Len(log) - 1) \in Seq(Units)
    BY <2>1, <2>3
  <2> QED  BY <1>2, <2>2, <2>4
<1> QED  BY <1>1, <1>2

\* The application is told units, now or once it accepts.
Tells(units) == Told' = IF replied \in {"No", "Accepted"} THEN Told \o units ELSE Told

\* What the application was told are units.
LEMMA ToldTyped == LogInv => Told \in Seq(Units)
BY UnitsOfLog, Joins DEF LogInv, LogTyped, LogInOrder, Told

\* Units handed over are told.
LEMMA HandleDataTells ==
  ASSUME LogInv, RepliesFirst, NEW units \in Seq(Units), units = <<>> \/ state # "Disconnected",
         HandleData(units)
  PROVE  /\ Tells(units)
         /\ replied # "Accepted" => calls' = calls
         /\ replied # "No" => deferredData' = deferredData
<1>1. CASE replied = "No"
  <2>1. calls = <<>> /\ calls' = <<>> /\ deferredData' = deferredData \o units
    BY <1>1 DEF RepliesFirst, HandleData, ToCalls, ToDeferred
  <2>2. UnitsOf(<<>>) = <<>>
    BY DEF UnitsOf
  <2>3. Told = deferredData /\ Told' = deferredData \o units
    <3>1. deferredData \in Seq(Units) /\ deferredData \o units \in Seq(Units)
      BY Joins DEF LogInv, LogTyped
    <3>2. Told = <<>> \o deferredData /\ Told' = <<>> \o (deferredData \o units)
      BY <2>1, <2>2 DEF Told
    <3> HIDE <2>1
    <3> QED  BY <3>1, <3>2, Joins
  <2> QED  BY <1>1, <2>1, <2>3 DEF Tells
<1>2. CASE replied = "Accepted"
  <2>1. deferredData = <<>> /\ deferredData' = <<>> /\ calls' = calls \o units
    BY <1>2 DEF RepliesFirst, HandleData, ToCalls, ToDeferred
  <2>2. UnitsOf(calls) \in Seq(Units)
    BY UnitsOfLog DEF LogInv, LogTyped, LogInOrder
  <2>3. UnitsOf(calls \o units) = UnitsOf(calls) \o units
    <3>1. CASE units = <<>>
      BY <2>2, <3>1, LogGrows, Joins DEF LogInv, LogTyped
    <3>2. CASE units # <<>>
      <4>1. ~HasClose(calls)
        BY <3>2 DEF LogInv, LogInOrder
      <4>2. calls \o units \in Seq(Nat) /\ ~HasClose(calls \o units)
        BY <4>1, LogGrows DEF LogInv, LogTyped
      <4>3. CloseEnds(calls) /\ CloseEnds(calls \o units)
        BY <4>1, <4>2, LogGrows DEF LogInv, LogTyped
      <4> QED  BY <4>1, <4>2, <4>3, UnitsOfLog DEF LogInv, LogTyped
    <3> QED  BY <3>1, <3>2
  <2>4. Told = UnitsOf(calls) /\ Told' = UnitsOf(calls) \o units
    BY <2>1, <2>2, <2>3, Joins DEF Told
  <2> QED  BY <1>2, <2>1, <2>4 DEF Tells
<1>3. CASE replied \notin {"No", "Accepted"}
  <2>1. calls' = calls /\ deferredData' = deferredData
    BY <1>3 DEF HandleData, ToCalls, ToDeferred
  <2> QED  BY <1>3, <2>1 DEF Tells, Told
<1> QED  BY <1>1, <1>2, <1>3

\* So are those handed over before the close callback.
LEMMA NotifyCloseTells ==
  ASSUME LogInv, RepliesFirst, NEW units \in Seq(Units), units = <<>> \/ state # "Disconnected",
         calls' = NotifyClose(ToCalls(units), closeCalled # "None"),
         deferredData' = ToDeferred(units)
  PROVE  /\ Tells(units)
         /\ replied # "Accepted" => calls' = calls
         /\ replied # "No" => deferredData' = deferredData
<1>1. CASE closeCalled # "None" \/ replied # "Accepted"
  <2>1. HandleData(units)
    BY <1>1 DEF HandleData, NotifyClose, ToCalls
  <2> QED  BY <2>1, HandleDataTells
<1>2. CASE closeCalled = "None" /\ replied = "Accepted"
  <2>1. ~HasClose(calls) /\ calls' = Append(calls \o units, CloseCall)
    BY <1>2 DEF LogInv, LogInOrder, NotifyClose, ToCalls
  <2>2. /\ deferredData = <<>> /\ deferredData' = <<>>
        /\ calls \o units \in Seq(Nat) /\ ~HasClose(calls \o units)
    BY <1>2, <2>1, LogGrows DEF LogInv, LogTyped, RepliesFirst, ToDeferred
  <2>3. CloseEnds(calls) /\ CloseEnds(calls \o units)
    BY <2>1, <2>2, LogGrows DEF LogInv, LogTyped
  <2>4. UnitsOf(calls') = calls \o units /\ UnitsOf(calls) = calls /\ calls \in Seq(Units)
    BY <2>1, <2>2, <2>3, UnitsOfLog DEF LogInv, LogTyped
  <2>5. Told = calls /\ Told' = calls \o units
    BY <2>2, <2>4, Joins DEF Told
  <2> QED  BY <1>2, <2>2, <2>5 DEF Tells
<1> QED  BY <1>1, <1>2

\* And those of a fatal disconnect,
LEMMA FatalTells ==
  ASSUME LogInv, RepliesFirst, NEW units \in Seq(Units), units = <<>> \/ state # "Disconnected",
         DisconnectFatal(units)
  PROVE  /\ Tells(units) /\ RepliesFirst' /\ state' = "Disconnected"
         /\ UNCHANGED <<replied, layer>> /\ receiveData' = <<>>
<1>1. /\ state' = "Disconnected" /\ UNCHANGED <<replied, layer>> /\ receiveData' = <<>>
      /\ (upgrade' # "None" => upgrade # "None")
  BY DEF DisconnectFatal, ShutdownDone, FailAttempts
<1>2. \/ HandleData(units)
      \/ /\ calls' = NotifyClose(ToCalls(units), closeCalled # "None")
         /\ deferredData' = ToDeferred(units)
  BY DEF DisconnectFatal, HandleData, NotifyClose
<1>3. /\ Tells(units)
      /\ replied # "Accepted" => calls' = calls
      /\ replied # "No" => deferredData' = deferredData
  BY <1>2, HandleDataTells, NotifyCloseTells
<1> QED  BY <1>1, <1>3 DEF RepliesFirst

\* or of a graceful one.
LEMMA GracefulTells ==
  ASSUME LogInv, RepliesFirst, NEW status \in {"Normal", "Local"}, NEW units \in Seq(Units),
         state # "Disconnected", units = <<>> \/ state = "Connected",
         DisconnectGraceful(status, units)
  PROVE  /\ Tells(units) /\ RepliesFirst' /\ state' = "Disconnected"
         /\ UNCHANGED <<replied, layer, receiveData>>
<1>1. /\ state' = "Disconnected" /\ UNCHANGED <<replied, layer, receiveData>>
      /\ (upgrade' # "None" => upgrade # "None")
      /\ deferredData' = ToDeferred(units)
  BY DEF DisconnectGraceful, FailAttempts
<1>2. HandleData(units) \/ calls' = NotifyClose(ToCalls(units), closeCalled # "None")
  <2>1. CASE state = "Connected"
    BY <2>1 DEF DisconnectGraceful
  <2>2. CASE state # "Connected"
    <3>1. units = <<>> /\ calls' = calls
      BY <2>2 DEF DisconnectGraceful
    <3> QED  BY <1>1, <3>1, LogGrows DEF HandleData, ToCalls, LogInv, LogTyped
  <2> QED  BY <2>1, <2>2
<1>3. /\ Tells(units)
      /\ replied # "Accepted" => calls' = calls
      /\ replied # "No" => deferredData' = deferredData
  BY <1>1, <1>2, HandleDataTells, NotifyCloseTells
<1> QED  BY <1>1, <1>3 DEF RepliesFirst

-----------------------------------------------------------------------------
(***************************************************************************)
(* Where the data is that the application was not told yet.                *)
(***************************************************************************)

\* The upgrade check tells some of the data it looked at and keeps the rest; the
\* request to upgrade, or giving up, leaves it nothing.
LEMMA SniffFlow ==
  ASSUME LogInv, FlowInv, check = "Sniffing", NEW unit \in Units,
         NEW now \in {"Connected", "Disconnected"},
         now = "Connected" => state # "Disconnected", Sniff(unit, now)
  PROVE  /\ incoming' = <<>> /\ upgradeData' \in Seq(Units)
         /\ \/ check' = "Sniffing" /\ (switch # 0 => unit # switch)
            \/ check' = "Required" /\ unit = switch /\ upgradeData' = <<>>
            \/ check' = "None" /\ switch = 0 /\ upgradeData' = <<>>
         /\ \E taken, left \in Seq(Units) :
              /\ taken \o left = Append(upgradeData, unit) /\ upgradeData' = left
              /\ Tells(IF now = "Connected" THEN incoming \o taken ELSE <<>>)
         /\ replied # "Accepted" => calls' = calls
         /\ replied # "No" => deferredData' = deferredData
<1> DEFINE data == Append(upgradeData, unit)
<1>1. PICK n \in 0 .. Len(upgradeData) + 1, ended \in BOOLEAN :
        /\ unit = switch => ended
        /\ ended => n = Len(data) /\ switch \in {0, unit}
        /\ check' = IF ~ended THEN check ELSE IF unit = switch THEN "Required" ELSE "None"
        /\ upgradeData' = SubSeq(data, n + 1, Len(data))
        /\ HandleData(IF now = "Connected" THEN incoming \o SubSeq(data, 1, n) ELSE <<>>)
        /\ incoming' = IF now = "None" THEN incoming \o SubSeq(data, 1, n) ELSE <<>>
  BY DEF Sniff
<1>2. /\ data \in Seq(Units) /\ Len(data) = Len(upgradeData) + 1 /\ Len(data) \in Nat
      /\ n \in 0 .. Len(data)
  BY DEF LogInv, LogTyped
<1> HIDE DEF data
<1>3. /\ SubSeq(data, 1, n) \in Seq(Units) /\ SubSeq(data, n + 1, Len(data)) \in Seq(Units)
  BY <1>2
<1>4. SubSeq(data, 1, n) \o SubSeq(data, n + 1, Len(data)) = data
  <2>1. SubSeq(data, 1, n) \o SubSeq(data, n + 1, Len(data)) = SubSeq(data, 1, Len(data))
    <3>1. 1 \in 1 .. Len(data) + 1 /\ n \in 1 - 1 .. Len(data) /\ Len(data) \in n .. Len(data)
      BY <1>2
    <3> QED  BY <1>2, <3>1, ConcatAdjacentSubSeq
  <2> QED  BY <1>2, <2>1, SubSeqFull
<1> DEFINE taken == SubSeq(data, 1, n)
           left == SubSeq(data, n + 1, Len(data))
           told == IF now = "Connected" THEN incoming \o taken ELSE <<>>
<1>5. told \in Seq(Units) /\ (told = <<>> \/ state # "Disconnected")
  <2>1. taken \in Seq(Units)
    BY <1>3
  <2> HIDE DEF taken
  <2> QED  BY <2>1, Joins DEF LogInv, LogTyped
<1>6. /\ Tells(told)
      /\ replied # "Accepted" => calls' = calls
      /\ replied # "No" => deferredData' = deferredData
  <2>1. HandleData(told)
    BY <1>1
  <2> HIDE DEF told
  <2> QED  BY <1>5, <2>1, HandleDataTells DEF FlowInv
<1>7. n = Len(data) => left = <<>>
  BY <1>2
<1>8. \/ check' = "Sniffing" /\ (switch # 0 => unit # switch)
      \/ check' = "Required" /\ unit = switch /\ upgradeData' = <<>>
      \/ check' = "None" /\ switch = 0 /\ upgradeData' = <<>>
  BY <1>1, <1>7
<1>9. incoming' = <<>> /\ upgradeData' = left
  BY <1>1
<1> QED  BY <1>3, <1>4, <1>6, <1>8, <1>9 DEF data

\* A read gives units that the transport holds.
LEMMA OpensBounds ==
  ASSUME KindTyped, LogTyped, NEW n \in Nat, Opens(n)
  PROVE  nOpened' = nOpened + n /\ nOpened' <= nHeld'
BY DEF Opens, LogTyped, KindTyped

\* Stream input opens the units that come next and tells them behind the buffers,
\* as it is handed over or in a fatal disconnect.
LEMMA StreamFlow ==
  ASSUME LogInv, FlowInv, socket = "Set", state # "None", check = "None", NEW input,
         StreamInput(input)
  PROVE  \E units \in Seq(Units), told \in Seq(Units) :
           /\ nOpened' = nHeld' /\ nOpened' = nOpened + Len(units)
           /\ units = [i \in 1 .. Len(units) |-> nOpened + i]
           /\ told = IF state = "Connected" /\ units # <<>>
                     THEN incoming \o receiveData \o units ELSE <<>>
           /\ incoming' = IF told = <<>> THEN incoming ELSE <<>>
           /\ \/ DisconnectFatal(told)
              \/ /\ HandleData(told)
                 /\ receiveData' = IF told = <<>> THEN receiveData ELSE <<>>
                 /\ UNCHANGED <<connectionVars, promiseVars, replied, closeCalled>>
<1> DEFINE last == LastUnit(input)
           units == [i \in 1 .. last - nOpened |-> nOpened + i]
           told == IF state = "Connected" /\ units # <<>>
                   THEN incoming \o receiveData \o units ELSE <<>>
<1>1. last \in Nat /\ last - nOpened \in Nat /\ nOpened \in Nat
  BY DEF LastUnit, LogInv, LogTyped, FlowInv, KindTyped
<1>2. /\ nOpened' = last /\ nHeld' = last
      /\ incoming' = IF told = <<>> THEN incoming ELSE <<>>
      /\ \/ DisconnectFatal(told)
         \/ /\ HandleData(told)
            /\ receiveData' = IF told = <<>> THEN receiveData ELSE <<>>
            /\ UNCHANGED <<connectionVars, promiseVars, replied, closeCalled>>
  BY DEF StreamInput, ReceiveStreamInput
<1> HIDE DEF last
<1>3. units \in Seq(Units) /\ Len(units) = last - nOpened
  BY <1>1, OpenedUnits
<1>4. units = [i \in 1 .. Len(units) |-> nOpened + i] /\ nOpened' = nOpened + Len(units)
  BY <1>1, <1>2, <1>3
<1>5. told \in Seq(Units)
  <2> HIDE DEF units
  <2> QED  BY <1>3, Joins DEF LogInv, LogTyped
<1> QED  BY <1>2, <1>3, <1>4, <1>5

\* A fatal disconnect keeps what the actor keeps for a connection that is up.
LEMMA FlowEnds ==
  ASSUME FlowInv, RepliesFirst', state' = "Disconnected", KindTyped'
  PROVE  FlowInv'
BY DEF FlowInv, NothingBeforeConnected, HandshakeFirst, Buffers, SwitchLast

\* Stream input comes to a connection that got up, and keeps its buffers.
LEMMA StreamKeepsFlow ==
  ASSUME LogInv, FlowInv, ~destroyed, state # "None", check = "None", pc # "States",
         NEW input, StreamInput(input), UNCHANGED upgradeVars
  PROVE  FlowInv'
<1> USE DEF LogInv, LogTyped, FlowInv, KindTyped, NothingBeforeConnected, HandshakeFirst,
        RepliesFirst, Buffers, SwitchLast, upgradeVars, attemptVars, connectionVars,
        promiseVars, callbackVars, bufferVars, dataVars, Tls, LeavesReadiness,
        CompletionReceive, MayActivate
<1>1. CASE socket # "Set"
  BY <1>1 DEF StreamInput, StreamInputWithoutSocket
<1>2. CASE socket = "Set"
  <2>1. PICK units \in Seq(Units), told \in Seq(Units) :
          /\ nOpened' = nHeld' /\ nOpened' = nOpened + Len(units)
          /\ told = IF state = "Connected" /\ units # <<>>
                    THEN incoming \o receiveData \o units ELSE <<>>
          /\ incoming' = IF told = <<>> THEN incoming ELSE <<>>
          /\ \/ DisconnectFatal(told)
             \/ /\ HandleData(told)
                /\ receiveData' = IF told = <<>> THEN receiveData ELSE <<>>
                /\ UNCHANGED <<connectionVars, promiseVars, replied, closeCalled>>
    BY <1>2, StreamFlow
  <2>2. KindTyped' /\ (told = <<>> \/ state # "Disconnected")
    BY <2>1
  <2>3. CASE DisconnectFatal(told)
    BY <2>1, <2>2, <2>3, FatalTells, FlowEnds
  <2>4. CASE ~DisconnectFatal(told)
    <3>1. /\ HandleData(told) /\ receiveData' = IF told = <<>> THEN receiveData ELSE <<>>
          /\ UNCHANGED <<connectionVars, promiseVars, replied, closeCalled>>
      BY <2>1, <2>4
    <3>2. /\ replied # "Accepted" => calls' = calls
          /\ replied # "No" => deferredData' = deferredData
      BY <2>2, <3>1, HandleDataTells
    <3>3. state = "Connected" => incoming = <<>> /\ receiveData = <<>>
      BY DEF Buffers
    <3>4. state = "Connected" => incoming' = <<>> /\ receiveData' = <<>>
      BY <2>1, <3>1, <3>3
    <3>5. switch = 0 \/ Tls \/ state = "Disconnected" \/ replied = "Dropped"
      BY SMTT(60) DEF SwitchLast
    <3> QED  BY <2>2, <3>1, <3>2, <3>4, <3>5
  <2> QED  BY <2>3, <2>4
<1> QED  BY <1>1, <1>2

\* Every step keeps the data where it is told from.
LEMMA NextFlow == IInv /\ LogInv /\ FlowInv /\ [Next]_vars => FlowInv'
<1> SUFFICES ASSUME IInv, LogInv, FlowInv, [Next]_vars PROVE FlowInv'
    OBVIOUS
<1>0. QuietWhileChecked /\ QuietBeforeSocket /\ LogTyped /\ LogInOrder /\ DisconnectTold
  BY DEF IInv, LogInv
<1> USE <1>0 DEF QuietWhileChecked, QuietBeforeSocket, LogTyped, DisconnectTold,
        FlowInv, KindTyped, NothingBeforeConnected, HandshakeFirst, RepliesFirst, Buffers,
        SwitchLast, Free, vars, upgradeVars, attemptVars, processVars, connectionVars,
        promiseVars, callbackVars, bufferVars, streamVars, latchVars, peerVars, dataVars,
        postVars, Tls, LeavesReadiness, CompletionReceive, MayActivate
<1>1. CASE Enter
  BY <1>1 DEF Enter
<1>2. CASE Leave
  BY <1>2 DEF Leave
<1>3. CASE LeaveReadinessReceive
  <2>1. /\ replied # "Accepted" => calls' = calls
        /\ replied # "No" => deferredData' = deferredData
        /\ state = "Connected" => incoming' = <<>>
        /\ state = "None" => incoming' = incoming
    BY <1>3, HandleDataTells DEF LeaveReadinessReceive, ProcessIncoming,
       ProcessIncomingMessage
  <2> QED  BY <1>3, <2>1 DEF LeaveReadinessReceive, Handled, StartStream
<1>4. CASE DeferRead
  BY <1>4 DEF DeferRead, Handled, WaitsForUpgrade
<1>5. CASE ReceiveThrows
  BY <1>5, FatalTells, Joins, FlowEnds DEF ReceiveThrows
<1>6. CASE ReceiveConnects
  <2>1. /\ state = "None" /\ pc = "States" /\ "Read" \in added
        /\ pc' = pc /\ state' = "Connected" /\ layer' = "Open"
        /\ upgrade' # "None" => upgrade # "None"
        /\ StartStream(MayActivate(kind))
        /\ UNCHANGED <<kind, switch, replied, receiveData>>
    BY <1>6 DEF ReceiveConnects, Reading, CheckHandshake, Connects
  <2>2. PICK n \in 0 .. 1 :
          /\ Opens(n)
          /\ IF check = "Sniffing" /\ n = 1
             THEN Sniff(nOpened + 1, "Connected") /\ AfterSniff
             ELSE /\ incoming' = incoming \o [i \in 1 .. n |-> nOpened + i]
                  /\ UNCHANGED <<check, upgradeData, added, calls, deferredData>>
    BY <1>6 DEF ReceiveConnects
  <2>3. nOpened' = nOpened + n /\ nOpened' <= nHeld'
    BY <2>2, OpensBounds
  <2>4. CASE check = "Sniffing" /\ n = 1
    <3>1. Sniff(nOpened + 1, "Connected") /\ AfterSniff
      BY <2>2, <2>4
    <3>2. /\ incoming' = <<>>
          /\ \/ check' = "Sniffing" /\ (switch # 0 => nOpened + 1 # switch)
             \/ check' = "Required" /\ nOpened + 1 = switch /\ upgradeData' = <<>>
             \/ check' = "None" /\ switch = 0 /\ upgradeData' = <<>>
          /\ replied # "Accepted" => calls' = calls
          /\ replied # "No" => deferredData' = deferredData
      BY <2>1, <2>4, <3>1, SniffFlow DEF Units
    <3> QED  BY <2>1, <2>3, <2>4, <3>1, <3>2
  <2>5. CASE ~(check = "Sniffing" /\ n = 1)
    <3>1. UNCHANGED <<check, upgradeData, added, calls, deferredData>>
      BY <2>2, <2>5
    <3>2. n = 0 => incoming' = <<>>
      BY <2>1, <2>2, <2>5
    <3> QED  BY <2>1, <2>3, <2>5, <3>1, <3>2
  <2> QED  BY <2>4, <2>5
<1>7. CASE HandshakeWaits
  BY <1>7 DEF HandshakeWaits, Reading, Handled
<1>8. CASE HandshakeFails
  BY <1>8 DEF HandshakeFails, Reading, Handled
<1>9. CASE ReceiveSniffed
  <2>1. /\ state \in {"Connected", "Disconnected"} /\ check = "Sniffing" /\ Opens(1)
        /\ Sniff(nOpened + 1, state) /\ AfterSniff /\ Reading
        /\ UNCHANGED <<kind, switch, pc, connectionVars, promiseVars, replied, receiveData,
                       streamVars, segments, kernelStream>>
    BY <1>9 DEF ReceiveSniffed, CanRead
  <2>2. /\ incoming' = <<>>
        /\ \/ check' = "Sniffing" /\ (switch # 0 => nOpened + 1 # switch)
           \/ check' = "Required" /\ nOpened + 1 = switch /\ upgradeData' = <<>>
           \/ check' = "None" /\ switch = 0 /\ upgradeData' = <<>>
        /\ replied # "Accepted" => calls' = calls
        /\ replied # "No" => deferredData' = deferredData
    BY <2>1, SniffFlow DEF Units
  <2>3. nOpened' = nOpened + 1 /\ nOpened' <= nHeld'
    BY <2>1, OpensBounds
  <2> QED  BY <2>1, <2>2, <2>3 DEF AfterSniff, Reading
<1>10. CASE ReceiveDirect
  <2>1. nOpened' = nOpened + 1 /\ nOpened' <= nHeld'
    BY <1>10, OpensBounds DEF ReceiveDirect
  <2>2. check # "Required" /\ check # "Sniffing"
    BY <1>10 DEF ReceiveDirect, CanRead, Reading, WaitsForUpgrade
  <2>3. /\ replied # "Accepted" => calls' = calls
        /\ replied # "No" => deferredData' = deferredData
    BY <1>10 DEF ReceiveDirect, HandleData, ToCalls, ToDeferred
  <2> QED  BY <1>10, <2>1, <2>2, <2>3 DEF ReceiveDirect, CanRead, Reading
<1>11. CASE ReceiveBuffered
  <2>1. nOpened' = nOpened + 1 /\ nOpened' <= nHeld'
    BY <1>11, OpensBounds DEF ReceiveBuffered
  <2>2. check # "Sniffing" /\ (check = "Required" => state # "Connected") /\ state # "None"
    BY <1>11 DEF ReceiveBuffered, CanRead, Reading, WaitsForUpgrade
  <2>3. /\ replied # "Accepted" => calls' = calls
        /\ replied # "No" => deferredData' = deferredData
    BY <1>11, Joins DEF ReceiveBuffered, HandleData, ToCalls, ToDeferred
  <2> QED  BY <1>11, <2>1, <2>2, <2>3 DEF ReceiveBuffered, CanRead, Reading
<1>12. CASE ReceiveNothing
  <2>1. /\ replied # "Accepted" => calls' = calls
        /\ replied # "No" => deferredData' = deferredData
        /\ state = "Connected" => incoming' = <<>> /\ receiveData' = <<>>
        /\ state = "None" => incoming' = incoming /\ receiveData' = receiveData
    BY <1>12, HandleDataTells DEF ReceiveNothing, ProcessIncoming, ProcessIncomingMessage
  <2> QED  BY <1>12, <2>1 DEF ReceiveNothing, Handled, Reading
<1>13. CASE RemoteClosedState
  <2>1. FlushedUnits \in Seq(Units) /\ (FlushedUnits = <<>> \/ state = "Connected")
    BY <1>13, FlushKeeps DEF RemoteClosedState, FlushedUnits
  <2>2. KindTyped'
    BY <1>13 DEF RemoteClosedState, FlushBeforeClose
  <2>3. CASE state = "Disconnected"
    BY <1>13, <2>2, <2>3, FlowEnds DEF RemoteClosedState
  <2>4. CASE state # "Disconnected"
    BY <1>13, <2>1, <2>2, <2>4, FatalTells, GracefulTells, FlowEnds DEF RemoteClosedState
  <2> QED  BY <2>3, <2>4
<1>14. CASE ClosedState
  <2>1. FlushedUnits \in Seq(Units) /\ (FlushedUnits = <<>> \/ state # "Disconnected")
    BY <1>14, FlushKeeps DEF ClosedState, FlushedUnits
  <2>2. KindTyped'
    BY <1>14 DEF ClosedState, FlushBeforeClose
  <2>3. CASE state = "Disconnected"
    BY <1>14, <2>2, <2>3, FlowEnds DEF ClosedState
  <2>4. CASE state # "Disconnected"
    BY <1>14, <2>1, <2>2, <2>4, FatalTells, FlowEnds DEF ClosedState
  <2> QED  BY <2>3, <2>4
<1>15. CASE WriteConnects
  BY <1>15 DEF WriteConnects, AtWrite, Handled, CheckHandshake, Connects, StartStream
<1>16. CASE WriteShutsDown
  <2>1. state = "Disconnected" /\ KindTyped'
    BY <1>16 DEF WriteShutsDown, ShutdownDue
  <2>2. CASE DisconnectFatal(<<>>)
    BY <2>1, <2>2, FatalTells, Joins, FlowEnds
  <2>3. CASE ~DisconnectFatal(<<>>)
    BY <1>16, <2>1, <2>3, FlowEnds DEF WriteShutsDown
  <2> QED  BY <2>2, <2>3
<1>17. CASE WriteDoesNothing
  BY <1>17 DEF WriteDoesNothing, AtWrite, Handled
<1>18. CASE SetSocket
  BY <1>18 DEF SetSocket, StartProcess
<1>19. CASE StateAdded
  BY <1>19 DEF StateAdded, StartProcess
<1>20. CASE ReceiveSegment
  <2>1. /\ segments # <<>> /\ pc = "Idle" /\ ~destroyed /\ UNCHANGED upgradeVars
        /\ StreamInput(Head(segments))
    BY <1>20 DEF ReceiveSegment
  <2>2. state # "None" /\ check = "None"
    BY <2>1
  <2> QED  BY <2>1, <2>2, StreamKeepsFlow
<1>21. CASE DrainHeldInput
  <2>1. /\ heldQueued /\ pc = "Idle" /\ ~destroyed /\ UNCHANGED upgradeVars
        /\ StreamInput("Held")
    BY <1>21 DEF DrainHeldInput
  <2>2. state # "None" /\ check = "None"
    BY <2>1
  <2> QED  BY <2>1, <2>2, StreamKeepsFlow
<1>22. CASE TimerRegistered
  BY <1>22 DEF TimerRegistered
<1>23. CASE TimerFires
  BY <1>23, FatalTells, Joins, FlowEnds DEF TimerFires
<1>24. CASE TimerPolls
  BY <1>24 DEF TimerPolls, StartProcess
<1>25. CASE PollExpires
  BY <1>25, FatalTells, Joins, FlowEnds DEF PollExpires
<1>26. CASE PollInTime
  BY <1>26 DEF PollInTime
<1>27. CASE OutputSent
  <2>1. CASE DisconnectFatal(<<>>)
    BY <1>27, <2>1, FatalTells, Joins, FlowEnds DEF OutputSent
  <2>2. CASE ~DisconnectFatal(<<>>)
    BY <1>27, <2>2 DEF OutputSent
  <2> QED  BY <2>1, <2>2
<1>28. CASE DisconnectLocal
  <2>1. KindTyped' /\ state # "Disconnected"
    BY <1>28 DEF DisconnectLocal
  <2> QED  BY <1>28, <2>1, FatalTells, GracefulTells, Joins, FlowEnds DEF DisconnectLocal
<1>29. CASE UpgradeProcesses
  BY <1>29 DEF UpgradeProcesses, StartProcess
<1>30. CASE LingerRefused
  BY <1>30 DEF LingerRefused, LingerEnds
<1>31. CASE LingerTimeout
  BY <1>31 DEF LingerTimeout, LingerEnds
<1>32. CASE Accept
  BY <1>32 DEF Accept
<1>33. CASE Reject
  BY <1>33 DEF Reject
<1>34. CASE Unsubscribe
  BY <1>34 DEF Unsubscribe
<1>35. CASE SendData \/ SendWaits \/ SendBreaks
  BY <1>35 DEF SendData, SendWaits, SendBreaks
<1>36. CASE UpgradeSocket
  BY <1>36 DEF UpgradeSocket, MayUpgrade, StartProcess, StartStream
<1>37. CASE CloseUser
  BY <1>37 DEF CloseUser, Close
<1>38. CASE CloseWithLinger
  BY <1>38 DEF CloseWithLinger, Close
<1>39. CASE Destroy
  BY <1>39 DEF Destroy, OnShutdown
<1>40. CASE ReceiveWindowResume
  BY <1>40 DEF ReceiveWindowResume
<1>41. CASE KernelSegment
  BY <1>41 DEF KernelSegment
<1>42. CASE PeerAnswersHandshake
  BY <1>42 DEF PeerAnswersHandshake, PeerStep
<1>43. CASE PeerSends
  BY <1>43 DEF PeerSends, PeerStep
<1>44. CASE PeerCloses
  BY <1>44 DEF PeerCloses, PeerStep
<1>45. CASE PeerResets
  BY <1>45 DEF PeerResets, PeerStep
<1>46. CASE SendConnects
  BY <1>46 DEF SendConnects, Connects, StartProcess, MaySend, StartStream
<1>47. CASE UNCHANGED vars
  BY <1>47
<1> QED  BY <1>1, <1>2, <1>3, <1>4, <1>5, <1>6, <1>7, <1>8, <1>9, <1>10, <1>11, <1>12, <1>13,
    <1>14, <1>15, <1>16, <1>17, <1>18, <1>19, <1>20, <1>21, <1>22, <1>23, <1>24, <1>25, <1>26,
    <1>27, <1>28, <1>29, <1>30, <1>31, <1>32, <1>33, <1>34, <1>35, <1>36, <1>37, <1>38, <1>39,
    <1>40, <1>41, <1>42, <1>43, <1>44, <1>45, <1>46, <1>47 DEF Next, Actor, Application,
    Environment, ProcessState

-----------------------------------------------------------------------------
(***************************************************************************)
(* None is missing.                                                        *)
(***************************************************************************)

\* The inductive invariant behind InOrder.
DataInv == IInv /\ LogInv /\ FlowInv /\ NothingMissing

\* The n units after unit k.
UnitsFrom(k, n) == [i \in 1 .. n |-> k + i]

\* What waits in the buffers are units.
LEMMA HeldTyped == LogInv => Held \in Seq(Units)
BY Joins DEF LogInv, LogTyped, Held

\* Joins, of an operator that the provers do not look into.
Cat(s, t) == s \o t

\* What the proofs need of Cat.
LEMMA CatJoins ==
  /\ \A r, s, t \in Seq(Units) : Cat(Cat(r, s), t) = Cat(r, Cat(s, t))
  /\ \A s \in Seq(Units) : Cat(s, <<>>) = s /\ Cat(<<>>, s) = s
  /\ \A s, t \in Seq(Units) : Cat(s, t) \in Seq(Units)
  /\ \A s \in Seq(Units), u \in Units : Append(s, u) = Cat(s, <<u>>) /\ <<u>> \in Seq(Units)
  /\ <<>> \in Seq(Units)
BY Joins DEF Cat

\* A step that tells the next units and keeps the rest, or ends the connection.
LEMMA Advances ==
  ASSUME LogInv, NothingMissing, NEW units \in Seq(Units), Tells(units),
         units = <<>> \/ state # "Disconnected",
         NEW rest \in Seq(Units), NEW more \in Seq(Units),
         NEW n \in Nat, more = UnitsFrom(nOpened, n),
         Heard => Cat(units, rest) = Cat(Held, more),
         Heard' => Heard /\ rest = Held' /\ nOpened' = nOpened + n
  PROVE  NothingMissing'
<1>1. Told \in Seq(Units) /\ Held \in Seq(Units) /\ nOpened \in Nat
  BY ToldTyped, HeldTyped DEF LogInv, LogTyped
<1>2. CASE Heard
  <2>1. Told' = Cat(Told, units)
    BY <1>2 DEF Tells, Heard, Cat
  <2>2. Cat(Cat(Told, units), rest) = Cat(Cat(Told, Held), more)
    BY <1>1, <1>2, CatJoins
  <2>3. Cat(Cat(Told, Held), more) = FirstUnits(nOpened + n)
    <3>1. FirstUnits(nOpened) \o [i \in 1 .. n |-> nOpened + i] = FirstUnits(nOpened + n)
      BY <1>1, FirstUnitsGrow
    <3>2. Cat(Told, Held) = FirstUnits(nOpened)
      BY <1>2 DEF NothingMissing, Received, Cat
    <3> QED  BY <3>1, <3>2 DEF UnitsFrom, Cat
  <2>4. PICK told \in Seq(Units) : told = Told'
    BY <1>1, <2>1, CatJoins
  <2>5. PICK last \in Nat : last = nOpened + n
    BY <1>1
  <2>6. Cat(told, rest) = FirstUnits(last)
    BY <2>1, <2>2, <2>3, <2>4, <2>5
  <2>7. told \o rest = FirstUnits(last)
    BY <2>6 DEF Cat
  <2>8. Counts(told)
    BY <2>7, PrefixCounts
  <2>9. Heard' => Received' = FirstUnits(nOpened')
    BY <2>4, <2>5, <2>7 DEF Received
  <2> QED  BY <2>4, <2>8, <2>9 DEF NothingMissing, Counts
<1>3. CASE ~Heard
  <2>1. Told' = Told
    BY <1>1, <1>3, Joins DEF Tells, Heard
  <2> QED  BY <1>3, <2>1 DEF NothingMissing, Counts
<1> QED  BY <1>2, <1>3

\* A step that tells nothing and leaves the buffers alone.
LEMMA NothingMoves ==
  ASSUME NothingMissing, UNCHANGED <<calls, deferredData>>,
         Heard' => Heard /\ UNCHANGED <<incoming, receiveData, upgradeData, nOpened>>
  PROVE  NothingMissing'
BY DEF NothingMissing, Counts, Told, Received, Held

\* A disconnect that tells nothing.
LEMMA DisconnectsUntold ==
  ASSUME LogInv, NothingMissing, Tells(<<>>), state' = "Disconnected"
  PROVE  NothingMissing'
<1>1. Told' = Told
  BY ToldTyped, Joins DEF Tells
<1> QED  BY <1>1 DEF NothingMissing, Counts, Heard

\* The units after unit k are units, none of them at first.
LEMMA UnitsFromTyped ==
  ASSUME NEW k \in Nat, NEW n \in Nat
  PROVE  /\ UnitsFrom(k, n) \in Seq(Units)
         /\ UnitsFrom(k, 0) = <<>> /\ UnitsFrom(k, 1) = <<k + 1>>
         /\ k + 1 \in Units
<1>1. UnitsFrom(k, n) \in Seq(Units) /\ k + 1 \in Units
  BY DEF UnitsFrom, Units
<1>2. UnitsFrom(k, 0) = <<>>
  BY DEF UnitsFrom
<1>3. UnitsFrom(k, 1) = <<k + 1>>
  <2>1. 1 .. 1 = {1}
    OBVIOUS
  <2> QED  BY <2>1 DEF UnitsFrom
<1> QED  BY <1>1, <1>2, <1>3

\* A step that tells what was received before it.
LEMMA Delivers ==
  ASSUME LogInv, NothingMissing, NEW units \in Seq(Units), Tells(units),
         units = <<>> \/ state # "Disconnected", NEW rest \in Seq(Units),
         Heard => Cat(units, rest) = Held,
         Heard' => Heard /\ rest = Held' /\ nOpened' = nOpened
  PROVE  NothingMissing'
<1>1. Held \in Seq(Units) /\ nOpened \in Nat
  BY HeldTyped DEF LogInv, LogTyped
<1>2. Cat(Held, <<>>) = Held /\ <<>> \in Seq(Units)
  BY <1>1, CatJoins
<1>3. <<>> = UnitsFrom(nOpened, 0) /\ nOpened + 0 = nOpened
  BY <1>1, UnitsFromTyped
<1> QED  BY <1>2, <1>3, Advances

\* The buffers, in the order they are told.
LEMMA HeldJoins ==
  /\ Held = Cat(Cat(incoming, receiveData), upgradeData)
  /\ Held' = Cat(Cat(incoming', receiveData'), upgradeData')
BY DEF Held, Cat

\* Processing the data of a handshake misses none.
LEMMA ProcessIncomingDelivers ==
  ASSUME LogInv, FlowInv, NothingMissing, ProcessIncoming,
         UNCHANGED <<receiveData, upgradeData, nOpened, state, replied>>
  PROVE  NothingMissing'
<1>1. CASE state = "Connected"
  <2>1. /\ Tells(incoming) /\ incoming' = <<>> /\ incoming \in Seq(Units)
        /\ receiveData \in Seq(Units) /\ upgradeData \in Seq(Units)
    BY <1>1, HandleDataTells DEF ProcessIncoming, ProcessIncomingMessage, LogInv, LogTyped,
       FlowInv
  <2> DEFINE rest == Cat(receiveData, upgradeData)
  <2>2. rest \in Seq(Units) /\ Cat(incoming, rest) = Held /\ Held' = rest
    BY <2>1, HeldJoins, CatJoins
  <2>3. Heard' => Heard
    BY DEF Heard
  <2> HIDE DEF rest
  <2> QED  BY <1>1, <2>1, <2>2, <2>3, Delivers
<1>2. CASE state # "Connected"
  BY <1>2, NothingMoves DEF ProcessIncoming, Heard, LogInv, LogTyped
<1> QED  BY <1>1, <1>2

\* Nor does the upgrade check,
LEMMA SniffDelivers ==
  ASSUME LogInv, FlowInv, NothingMissing, check = "Sniffing",
         NEW now \in {"Connected", "Disconnected"}, Sniff(nOpened + 1, now),
         nOpened' = nOpened + 1, receiveData' = receiveData, replied' = replied,
         \/ now = "Connected" /\ state # "Disconnected"
         \/ now = "Disconnected" /\ state' = "Disconnected"
  PROVE  NothingMissing'
<1>1. nOpened + 1 \in Units /\ nOpened \in Nat
  BY UnitsFromTyped DEF LogInv, LogTyped
<1>2. /\ incoming' = <<>>
      /\ \E taken, left \in Seq(Units) :
           /\ taken \o left = Append(upgradeData, nOpened + 1) /\ upgradeData' = left
           /\ Tells(IF now = "Connected" THEN incoming \o taken ELSE <<>>)
  BY <1>1, SniffFlow
<1>3. PICK taken \in Seq(Units), left \in Seq(Units) :
        /\ taken \o left = Append(upgradeData, nOpened + 1) /\ upgradeData' = left
        /\ Tells(IF now = "Connected" THEN incoming \o taken ELSE <<>>)
  BY <1>2
<1>4. CASE now = "Disconnected"
  BY <1>3, <1>4, DisconnectsUntold
<1>5. CASE now = "Connected"
  <2>1. /\ incoming \in Seq(Units) /\ receiveData = <<>> /\ upgradeData \in Seq(Units)
        /\ state # "Disconnected"
    BY <1>5 DEF LogInv, LogTyped, FlowInv, NothingBeforeConnected, Buffers
  <2>2. Cat(taken, left) = Cat(upgradeData, <<nOpened + 1>>) /\ <<nOpened + 1>> \in Seq(Units)
    BY <1>1, <1>3, <2>1, CatJoins DEF Cat
  <2>3. Tells(Cat(incoming, taken)) /\ Cat(incoming, taken) \in Seq(Units)
    BY <1>3, <1>5, <2>1, CatJoins DEF Cat
  <2>4. Held = Cat(incoming, upgradeData) /\ Held' = left
    BY <1>2, <1>3, <2>1, HeldJoins, CatJoins
  <2>5. Cat(Cat(incoming, taken), left) = Cat(Held, <<nOpened + 1>>)
    <3>1. Cat(Cat(incoming, taken), left) = Cat(incoming, Cat(taken, left))
      BY <2>1, CatJoins
    <3>2. PICK more \in Seq(Units) : more = <<nOpened + 1>>
      BY <2>2
    <3>3. Cat(Cat(incoming, upgradeData), more) = Cat(incoming, Cat(upgradeData, more))
      BY <2>1, CatJoins
    <3> QED  BY <2>2, <2>4, <3>1, <3>2, <3>3
  <2>6. Heard' => Heard
    BY <2>1 DEF Heard
  <2>7. <<nOpened + 1>> = UnitsFrom(nOpened, 1)
    BY <1>1, UnitsFromTyped
  <2>8. PICK told \in Seq(Units) : told = Cat(incoming, taken)
    BY <2>3
  <2>9. PICK more \in Seq(Units) : more = <<nOpened + 1>>
    BY <2>2
  <2>10. Tells(told) /\ more = UnitsFrom(nOpened, 1) /\ Cat(told, left) = Cat(Held, more)
    BY <2>3, <2>5, <2>7, <2>8, <2>9
  <2> QED  BY <2>1, <2>4, <2>6, <2>10, Advances
<1> QED  BY <1>4, <1>5

\* nor stream input.
LEMMA StreamDelivers ==
  ASSUME LogInv, FlowInv, NothingMissing, state # "None", check = "None", pc # "States",
         NEW input, StreamInput(input), UNCHANGED upgradeVars
  PROVE  NothingMissing'
<1>1. CASE socket # "Set"
  BY <1>1, NothingMoves DEF StreamInput, StreamInputWithoutSocket, upgradeVars, callbackVars,
     bufferVars, dataVars, connectionVars, Heard
<1>2. CASE socket = "Set"
  <2>1. PICK units \in Seq(Units), told \in Seq(Units) :
          /\ nOpened' = nHeld' /\ nOpened' = nOpened + Len(units)
          /\ units = [i \in 1 .. Len(units) |-> nOpened + i]
          /\ told = IF state = "Connected" /\ units # <<>>
                    THEN incoming \o receiveData \o units ELSE <<>>
          /\ incoming' = IF told = <<>> THEN incoming ELSE <<>>
          /\ \/ DisconnectFatal(told)
             \/ /\ HandleData(told)
                /\ receiveData' = IF told = <<>> THEN receiveData ELSE <<>>
                /\ UNCHANGED <<connectionVars, promiseVars, replied, closeCalled>>
    BY <1>2, StreamFlow
  <2>2. CASE state = "Connected"
    <3>1. incoming = <<>> /\ receiveData = <<>> /\ upgradeData \in Seq(Units)
      BY <2>2 DEF FlowInv, Buffers, LogInv, LogTyped
    <3>2. told = units
      BY <2>1, <2>2, <3>1, Joins
    <3>3. Tells(units) /\ (Heard' => incoming' = <<>> /\ receiveData' = <<>>)
      BY <2>1, <2>2, <3>1, <3>2, FatalTells, HandleDataTells DEF Heard, FlowInv
    <3>4. Heard => upgradeData = <<>>
      BY <2>2 DEF FlowInv, Buffers, Heard
    <3>5. Held = upgradeData /\ (Heard' => Held' = upgradeData)
      BY <3>1, <3>3, HeldJoins, CatJoins DEF upgradeVars
    <3>6. Heard' => Heard
      <4>1. replied' = replied
        BY <2>1, FatalTells, <2>2 DEF FlowInv
      <4> QED  BY <2>2, <4>1 DEF Heard
    <3>7. PICK n \in Nat : n = Len(units)
      OBVIOUS
    <3>8. units = UnitsFrom(nOpened, n) /\ nOpened' = nOpened + n
      BY <2>1, <3>7 DEF UnitsFrom
    <3>9. Heard => Cat(units, <<>>) = Cat(Held, units)
      BY <3>4, <3>5, CatJoins
    <3>10. <<>> \in Seq(Units) /\ (Heard' => <<>> = Held')
      BY <3>4, <3>5, <3>6, CatJoins
    <3> HIDE <2>1, <3>7
    <3> QED  BY <2>2, <3>3, <3>6, <3>8, <3>9, <3>10, Advances
  <2>3. CASE state = "Disconnected"
    <3>1. told = <<>>
      BY <2>1, <2>3
    <3>2. Tells(<<>>) /\ state' = "Disconnected"
      BY <2>1, <2>3, <3>1, FatalTells, HandleDataTells DEF FlowInv, connectionVars
    <3> QED  BY <3>2, DisconnectsUntold
  <2> QED  BY <2>2, <2>3 DEF LogInv, LogTyped
<1> QED  BY <1>1, <1>2

\* What a close state flushes is what was held.
LEMMA FlushDelivers ==
  ASSUME LogInv, FlowInv, NothingMissing, state # "Disconnected", state' = "Disconnected",
         "Read" \notin added, FlushBeforeClose, Tells(FlushedUnits)
  PROVE  NothingMissing'
<1>1. FlushedUnits \in Seq(Units)
  BY FlushKeeps
<1>2. CASE FlushedUnits = <<>>
  BY <1>2, DisconnectsUntold
<1>3. CASE FlushedUnits # <<>>
  <2>1. state = "Connected" /\ incoming = <<>> /\ receiveData = <<>> /\ upgradeData \in Seq(Units)
    BY <1>3 DEF FlowInv, Buffers, FlushedUnits, LogInv, LogTyped
  <2>2. SniffedOut \in Seq(Units)
    BY <2>1, Joins DEF SniffedOut
  <2>3. FlushedUnits = SniffedOut
    BY <2>1, <2>2, Joins DEF FlushedUnits
  <2>4. FlushedUnits = upgradeData
    BY <1>3, <2>3 DEF SniffedOut
  <2>5. Cat(FlushedUnits, <<>>) = Held /\ <<>> \in Seq(Units)
    BY <2>1, <2>4, HeldJoins, CatJoins
  <2>6. ~Heard'
    BY DEF Heard
  <2> QED  BY <1>1, <2>1, <2>5, <2>6, Delivers
<1> QED  BY <1>2, <1>3

\* Every step tells the units from the first on, and misses none.
LEMMA NextMissing == IInv /\ LogInv /\ FlowInv /\ NothingMissing /\ [Next]_vars => NothingMissing'
<1> SUFFICES ASSUME IInv, LogInv, FlowInv, NothingMissing, [Next]_vars PROVE NothingMissing'
    OBVIOUS
<1>0. QuietWhileChecked /\ LogTyped /\ DisconnectTold /\ FlowInv /\ RepliesFirst
  BY DEF IInv, LogInv, FlowInv
<1> USE <1>0 DEF Free, vars, upgradeVars, attemptVars, processVars, connectionVars, promiseVars,
        callbackVars, bufferVars, streamVars, latchVars, peerVars, dataVars, postVars
<1>1. CASE LeaveReadinessReceive
  BY <1>1, ProcessIncomingDelivers DEF LeaveReadinessReceive
<1>2. CASE ReceiveThrows
  BY <1>2, FatalTells, DisconnectsUntold, Joins DEF ReceiveThrows
<1>3. CASE ReceiveConnects
  <2>1. /\ state = "None" /\ state' = "Connected" /\ UNCHANGED <<replied, receiveData>>
        /\ incoming = <<>> /\ receiveData = <<>> /\ upgradeData = <<>>
    BY <1>3 DEF ReceiveConnects, Reading, CheckHandshake, Connects, FlowInv,
       NothingBeforeConnected
  <2>2. PICK n \in 0 .. 1 :
          /\ Opens(n)
          /\ IF check = "Sniffing" /\ n = 1
             THEN Sniff(nOpened + 1, "Connected") /\ AfterSniff
             ELSE /\ incoming' = incoming \o [i \in 1 .. n |-> nOpened + i]
                  /\ UNCHANGED <<check, upgradeData, added, calls, deferredData>>
    BY <1>3 DEF ReceiveConnects
  <2>3. nOpened' = nOpened + n
    BY <2>2, OpensBounds DEF FlowInv
  <2>4. CASE check = "Sniffing" /\ n = 1
    BY <2>1, <2>2, <2>3, <2>4, SniffDelivers
  <2>5. CASE ~(check = "Sniffing" /\ n = 1)
    <3>1. /\ UNCHANGED <<upgradeData, calls, deferredData>>
          /\ incoming' = <<>> \o UnitsFrom(nOpened, n)
      BY <2>1, <2>2, <2>5 DEF UnitsFrom
    <3>2. n \in Nat /\ UnitsFrom(nOpened, n) \in Seq(Units)
      <4>1. nOpened \in Nat /\ n \in Nat
        BY DEF LogTyped
      <4> QED  BY <4>1, UnitsFromTyped
    <3>3. PICK more \in Seq(Units) : more = UnitsFrom(nOpened, n)
      BY <3>2
    <3>4. incoming' = more
      BY <3>1, <3>3, Joins
    <3>5. Held = <<>> /\ Held' = more /\ <<>> \in Seq(Units)
      BY <2>1, <3>1, <3>4, HeldJoins, CatJoins
    <3>6. Tells(<<>>)
      BY <3>1, ToldTyped, Joins DEF Tells, Told
    <3>7. Cat(<<>>, more) = Cat(Held, more) /\ (Heard' => Heard)
      BY <2>1, <3>5 DEF Heard
    <3> QED  BY <2>3, <3>2, <3>3, <3>5, <3>6, <3>7, Advances
  <2> QED  BY <2>4, <2>5
<1>4. CASE ReceiveSniffed
  <2>1. /\ state \in {"Connected", "Disconnected"} /\ check = "Sniffing" /\ Opens(1)
        /\ Sniff(nOpened + 1, state) /\ UNCHANGED <<state, replied, receiveData>>
    BY <1>4 DEF ReceiveSniffed, CanRead, LogTyped
  <2>2. nOpened' = nOpened + 1
    BY <2>1, OpensBounds DEF FlowInv
  <2> QED  BY <2>1, <2>2, SniffDelivers
<1>5. CASE ReceiveDirect
  <2>1. /\ state = "Connected" /\ incoming = <<>> /\ Opens(1)
        /\ check # "Sniffing" /\ check # "Required"
        /\ UNCHANGED <<state, replied, incoming, upgradeData>>
    BY <1>5 DEF ReceiveDirect, CanRead, Reading, WaitsForUpgrade
  <2>2. /\ nOpened' = nOpened + 1 /\ nOpened + 1 \in Units
        /\ <<nOpened + 1>> = UnitsFrom(nOpened, 1)
    BY <2>1, OpensBounds, UnitsFromTyped DEF FlowInv, LogTyped
  <2>3. Heard => upgradeData = <<>>
    BY <2>1 DEF FlowInv, KindTyped, Buffers, Heard
  <2>4. PICK filled \in Seq(Units) : filled = Append(receiveData, nOpened + 1)
    <3>1. receiveData \in Seq(Units) /\ nOpened + 1 \in Units
      BY <2>2 DEF LogTyped
    <3> QED  BY <3>1, UnitsTyped
  <2>5. PICK more \in Seq(Units) :
          more = <<nOpened + 1>> /\ more = UnitsFrom(nOpened, 1) /\ filled = Cat(receiveData, more)
    <3>1. receiveData \in Seq(Units) /\ nOpened + 1 \in Units
      BY <2>2 DEF LogTyped
    <3>2. filled = Cat(receiveData, <<nOpened + 1>>) /\ <<nOpened + 1>> \in Seq(Units)
      BY <2>4, <3>1, CatJoins
    <3> QED  BY <2>2, <3>2
  <2>6. Heard => Cat(Held, more) = filled
    BY <2>1, <2>3, <2>5, HeldJoins, CatJoins DEF LogTyped
  <2>7. Heard' => Heard
    BY <2>1 DEF Heard
  <2>8. CASE HandleData(filled) /\ receiveData' = <<>>
    <3>1. Tells(filled)
      BY <2>1, <2>8, HandleDataTells
    <3>2. Heard => Held' = <<>>
      BY <2>1, <2>3, <2>8, HeldJoins, CatJoins
    <3>3. Heard => Cat(filled, <<>>) = Cat(Held, more)
      BY <2>6, CatJoins
    <3>4. <<>> \in Seq(Units) /\ (Heard' => Heard /\ <<>> = Held' /\ nOpened' = nOpened + 1)
      BY <2>2, <2>7, <3>2, CatJoins
    <3> QED  BY <2>1, <2>5, <3>1, <3>3, <3>4, Advances
  <2>9. CASE receiveData' = filled /\ UNCHANGED <<calls, deferredData>>
    <3>1. Tells(<<>>)
      BY <2>9, ToldTyped, Joins DEF Tells, Told
    <3>2. Heard => Held' = filled
      BY <2>1, <2>3, <2>9, HeldJoins, CatJoins
    <3>3. Heard => Cat(<<>>, filled) = Cat(Held, more)
      BY <2>6, CatJoins
    <3>4. <<>> \in Seq(Units) /\ (Heard' => Heard /\ filled = Held' /\ nOpened' = nOpened + 1)
      BY <2>2, <2>7, <3>2, CatJoins
    <3> QED  BY <2>5, <3>1, <3>3, <3>4, Advances
  <2> QED  BY <1>5, <2>4, <2>8, <2>9 DEF ReceiveDirect
<1>6. CASE ReceiveBuffered
  <2>1. /\ state \in {"Connected", "Disconnected"} /\ Opens(1)
        /\ state = "Connected" => incoming # <<>> /\ check # "Required"
        /\ check # "Sniffing"
        /\ UNCHANGED <<state, replied, receiveData, upgradeData>>
    BY <1>6 DEF ReceiveBuffered, CanRead, Reading, WaitsForUpgrade, LogTyped
  <2>2. /\ nOpened' = nOpened + 1 /\ nOpened + 1 \in Units
        /\ <<nOpened + 1>> = UnitsFrom(nOpened, 1)
    BY <2>1, OpensBounds, UnitsFromTyped DEF FlowInv, LogTyped
  <2>3. CASE state = "Disconnected"
    <3>1. Tells(<<>>)
      <4>1. HandleData(<<>>) \/ UNCHANGED <<calls, deferredData>>
        BY <1>6, <2>3 DEF ReceiveBuffered
      <4> QED  BY <4>1, HandleDataTells, ToldTyped, Joins DEF Tells, Told
    <3> QED  BY <2>1, <2>3, <3>1, DisconnectsUntold
  <2>4. CASE state = "Connected"
    <3>1. receiveData = <<>> /\ (Heard => upgradeData = <<>>)
      BY <2>1, <2>4 DEF FlowInv, KindTyped, Buffers, Heard
    <3>2. PICK filled \in Seq(Units) : filled = Append(incoming, nOpened + 1)
      <4>1. incoming \in Seq(Units) /\ nOpened + 1 \in Units
        BY <2>2 DEF LogTyped
      <4> QED  BY <4>1, UnitsTyped
    <3>3. PICK more \in Seq(Units) :
            more = <<nOpened + 1>> /\ more = UnitsFrom(nOpened, 1) /\ filled = Cat(incoming, more)
      <4>1. incoming \in Seq(Units) /\ nOpened + 1 \in Units
        BY <2>2 DEF LogTyped
      <4>2. filled = Cat(incoming, <<nOpened + 1>>) /\ <<nOpened + 1>> \in Seq(Units)
        BY <3>2, <4>1, CatJoins
      <4> QED  BY <2>2, <4>2
    <3>4. Heard => Cat(Held, more) = filled
      BY <3>1, <3>3, HeldJoins, CatJoins DEF LogTyped
    <3>5. Heard' => Heard
      BY <2>1 DEF Heard
    <3>6. CASE HandleData(filled) /\ incoming' = <<>>
      <4>1. Tells(filled)
        BY <2>4, <3>6, HandleDataTells
      <4>2. Heard => Held' = <<>>
        BY <2>1, <3>1, <3>6, HeldJoins, CatJoins
      <4>3. Heard => Cat(filled, <<>>) = Cat(Held, more)
        BY <3>4, CatJoins
      <4>4. <<>> \in Seq(Units) /\ (Heard' => Heard /\ <<>> = Held' /\ nOpened' = nOpened + 1)
        BY <2>2, <3>5, <4>2, CatJoins
      <4> QED  BY <2>4, <3>3, <4>1, <4>3, <4>4, Advances
    <3>7. CASE incoming' = filled /\ UNCHANGED <<calls, deferredData>>
      <4>1. Tells(<<>>)
        BY <3>7, ToldTyped, Joins DEF Tells, Told
      <4>2. Heard => Held' = filled
        BY <2>1, <3>1, <3>7, HeldJoins, CatJoins
      <4>3. Heard => Cat(<<>>, filled) = Cat(Held, more)
        BY <3>4, CatJoins
      <4>4. <<>> \in Seq(Units) /\ (Heard' => Heard /\ filled = Held' /\ nOpened' = nOpened + 1)
        BY <2>2, <3>5, <4>2, CatJoins
      <4> QED  BY <3>3, <4>1, <4>3, <4>4, Advances
    <3> QED  BY <1>6, <2>4, <3>2, <3>6, <3>7 DEF ReceiveBuffered
  <2> QED  BY <2>1, <2>3, <2>4
<1>7. CASE ReceiveNothing
  <2>1. UNCHANGED <<state, replied, upgradeData, nOpened>>
    BY <1>7 DEF ReceiveNothing
  <2>2. CASE ProcessIncoming /\ UNCHANGED receiveData
    BY <2>1, <2>2, ProcessIncomingDelivers
  <2>3. CASE /\ state = "Connected" /\ incoming = <<>>
             /\ HandleData(receiveData) /\ receiveData' = <<>> /\ UNCHANGED incoming
    <3>1. Tells(receiveData) /\ receiveData \in Seq(Units) /\ upgradeData \in Seq(Units)
      BY <2>3, HandleDataTells DEF LogTyped
    <3>2. Cat(receiveData, upgradeData) = Held /\ Held' = upgradeData
      BY <2>1, <2>3, <3>1, HeldJoins, CatJoins
    <3>3. Heard' => Heard
      BY <2>1 DEF Heard
    <3> QED  BY <2>1, <2>3, <3>1, <3>2, <3>3, Delivers
  <2> QED  BY <1>7, <2>2, <2>3 DEF ReceiveNothing
<1>8. CASE RemoteClosedState
  <2>1. /\ FlushBeforeClose /\ "Read" \notin added
        /\ FlushedUnits \in Seq(Units) /\ (FlushedUnits = <<>> \/ state = "Connected")
    BY <1>8, FlushKeeps DEF RemoteClosedState, AtClose, FlushedUnits
  <2>2. CASE state = "Disconnected"
    BY <1>8, <2>2, NothingMoves DEF RemoteClosedState, Heard
  <2>3. CASE state # "Disconnected"
    <3>1. Tells(FlushedUnits) /\ state' = "Disconnected"
      BY <1>8, <2>1, <2>3, FatalTells, GracefulTells DEF RemoteClosedState
    <3> QED  BY <2>1, <2>3, <3>1, FlushDelivers
  <2> QED  BY <2>2, <2>3
<1>9. CASE ClosedState
  <2>1. /\ FlushBeforeClose /\ "Read" \notin added
        /\ FlushedUnits \in Seq(Units) /\ (FlushedUnits = <<>> \/ state # "Disconnected")
    BY <1>9, FlushKeeps DEF ClosedState, AtClose, FlushedUnits
  <2>2. CASE state = "Disconnected"
    BY <1>9, <2>2, NothingMoves DEF ClosedState, Heard
  <2>3. CASE state # "Disconnected"
    <3>1. Tells(FlushedUnits) /\ state' = "Disconnected"
      BY <1>9, <2>1, <2>3, FatalTells DEF ClosedState
    <3> QED  BY <2>1, <2>3, <3>1, FlushDelivers
  <2> QED  BY <2>2, <2>3
<1>10. CASE WriteShutsDown
  <2>1. CASE DisconnectFatal(<<>>)
    BY <2>1, FatalTells, DisconnectsUntold, Joins
  <2>2. CASE ~DisconnectFatal(<<>>)
    BY <1>10, <2>2, NothingMoves DEF WriteShutsDown, Heard
  <2> QED  BY <2>1, <2>2
<1>11. CASE ReceiveSegment
  <2>1. /\ segments # <<>> /\ pc = "Idle" /\ StreamInput(Head(segments)) /\ UNCHANGED upgradeVars
    BY <1>11 DEF ReceiveSegment
  <2>2. state # "None" /\ check = "None"
    BY <2>1 DEF FlowInv, KindTyped, NothingBeforeConnected, QuietWhileChecked
  <2> QED  BY <2>1, <2>2, StreamDelivers
<1>12. CASE DrainHeldInput
  <2>1. /\ heldQueued /\ pc = "Idle" /\ StreamInput("Held") /\ UNCHANGED upgradeVars
    BY <1>12 DEF DrainHeldInput
  <2>2. state # "None" /\ check = "None"
    BY <2>1 DEF FlowInv, KindTyped, NothingBeforeConnected, QuietWhileChecked
  <2> QED  BY <2>1, <2>2, StreamDelivers
<1>13. CASE TimerFires
  BY <1>13, FatalTells, DisconnectsUntold, Joins DEF TimerFires
<1>14. CASE PollExpires
  BY <1>14, FatalTells, DisconnectsUntold, Joins DEF PollExpires
<1>15. CASE OutputSent
  <2>1. CASE DisconnectFatal(<<>>)
    BY <2>1, FatalTells, DisconnectsUntold, Joins
  <2>2. CASE ~DisconnectFatal(<<>>)
    BY <1>15, <2>2, NothingMoves DEF OutputSent, Heard
  <2> QED  BY <2>1, <2>2
<1>16. CASE DisconnectLocal
  <2>1. state # "Disconnected"
    BY <1>16 DEF DisconnectLocal, DisconnectTold
  <2> QED  BY <1>16, <2>1, FatalTells, GracefulTells, DisconnectsUntold, Joins
          DEF DisconnectLocal
<1>17. CASE Accept
  <2>1. /\ replied = "No" /\ state # "None" /\ calls = <<>> /\ replied' = "Accepted"
        /\ calls' = deferredData \o (IF closeCalled # "None" THEN <<CloseCall>> ELSE <<>>)
                       \o (IF state = "Connected" THEN incoming ELSE <<>>)
        /\ deferredData' = <<>> /\ incoming' = <<>>
        /\ UNCHANGED <<state, receiveData, upgradeData, nOpened>>
    BY <1>17 DEF Accept, DisconnectTold, RepliesFirst
  <2>2. Told = deferredData
    <3>1. UnitsOf(<<>>) = <<>>
      BY DEF UnitsOf
    <3> QED  BY <2>1, <3>1, Joins DEF Told, LogTyped
  <2> DEFINE units == IF state = "Connected" THEN incoming ELSE <<>>
  <2>3. units \in Seq(Units) /\ (units = <<>> \/ state # "Disconnected")
    BY Joins DEF LogTyped
  <2>4. UnitsOf(calls') = deferredData \o units
    <3>1. CASE closeCalled # "None"
      <4>1. state = "Disconnected" /\ units = <<>>
        BY <3>1 DEF LogInv, LogInOrder
      <4>2. calls' = Append(deferredData, CloseCall) /\ deferredData \o units = deferredData
        BY <2>1, <3>1, <4>1, Joins DEF LogTyped, CloseCall
      <4>3. ~HasClose(deferredData) /\ deferredData \in Seq(Nat)
        BY DEF LogTyped, Units, HasClose, CloseCall
      <4>4. CloseEnds(deferredData)
        BY <4>3 DEF HasClose, CloseEnds
      <4> QED  BY <4>2, <4>3, <4>4, UnitsOfLog
    <3>2. CASE closeCalled = "None"
      <4>1. calls' = deferredData \o units
        BY <2>1, <3>2, Joins DEF LogTyped
      <4>2. deferredData \o units \in Seq(Units)
        BY <2>3, Joins DEF LogTyped
      <4>3. PICK log \in Seq(Units) : log = deferredData \o units
        BY <4>2
      <4>4. ~HasClose(log) /\ log \in Seq(Nat)
        BY DEF Units, HasClose, CloseCall
      <4>5. CloseEnds(log)
        BY <4>4 DEF HasClose, CloseEnds
      <4>6. UnitsOf(log) = log
        BY <4>4, <4>5, UnitsOfLog
      <4> QED  BY <4>1, <4>3, <4>6
    <3> QED  BY <3>1, <3>2
  <2>5. Tells(units)
    <3>1. deferredData \o units \in Seq(Units)
      BY <2>3, Joins DEF LogTyped
    <3>2. Told' = (deferredData \o units) \o <<>>
      BY <2>1, <2>4 DEF Told
    <3>3. Told' = deferredData \o units
      BY <3>1, <3>2, Joins
    <3> QED  BY <2>1, <2>2, <3>3 DEF Tells
  <2>6. Heard' => Heard /\ units = incoming
    BY <2>1 DEF Heard, LogTyped
  <2> DEFINE rest == Cat(receiveData, upgradeData)
  <2>7. rest \in Seq(Units) /\ Cat(incoming, rest) = Held /\ Held' = rest
    BY <2>1, HeldJoins, CatJoins DEF LogTyped
  <2>8. Heard => units = incoming
    BY <2>1 DEF Heard, LogTyped
  <2> HIDE DEF rest, units
  <2> QED  BY <2>1, <2>3, <2>5, <2>6, <2>7, <2>8, Delivers
<1>18. CASE \/ Enter \/ Leave \/ DeferRead \/ HandshakeWaits \/ HandshakeFails \/ WriteConnects
            \/ WriteDoesNothing \/ SetSocket \/ StateAdded \/ TimerRegistered \/ TimerPolls
            \/ PollInTime \/ UpgradeProcesses \/ LingerRefused \/ LingerTimeout \/ Reject
            \/ Unsubscribe \/ SendData \/ SendWaits \/ SendBreaks \/ SendConnects
            \/ UpgradeSocket \/ CloseUser \/ CloseWithLinger
            \/ Destroy \/ ReceiveWindowResume \/ KernelSegment \/ PeerAnswersHandshake
            \/ PeerSends \/ PeerCloses \/ PeerResets \/ UNCHANGED vars
  <2>1. UNCHANGED <<calls, deferredData, incoming, receiveData, upgradeData, nOpened>>
    BY ONLY <1>18 DEF Enter, Leave, DeferRead, HandshakeWaits, HandshakeFails, WriteConnects,
       WriteDoesNothing, SetSocket, StateAdded, TimerRegistered, TimerPolls, PollInTime,
       UpgradeProcesses, LingerRefused, LingerTimeout, LingerEnds, Reject, Unsubscribe,
       SendData, SendWaits, SendBreaks, SendConnects, UpgradeSocket, CloseUser, CloseWithLinger,
       Destroy, ReceiveWindowResume, KernelSegment, PeerAnswersHandshake, PeerSends, PeerCloses,
       PeerResets, PeerStep
  <2>2. /\ replied' = replied \/ replied' \notin {"No", "Accepted"}
        /\ state' = state \/ state # "Disconnected"
    BY <1>18 DEF Enter, Leave, DeferRead, HandshakeWaits, HandshakeFails, WriteConnects,
       WriteDoesNothing, SetSocket, StateAdded, TimerRegistered, TimerPolls, PollInTime,
       UpgradeProcesses, LingerRefused, LingerTimeout, LingerEnds, Reject, Unsubscribe,
       SendData, SendWaits, SendBreaks, SendConnects, UpgradeSocket, MayUpgrade, CloseUser,
       CloseWithLinger, Destroy, ReceiveWindowResume, KernelSegment, PeerAnswersHandshake, PeerSends, PeerCloses,
       PeerResets, PeerStep
  <2> QED  BY SMTT(60), <2>1, <2>2, NothingMoves DEF Heard
<1> QED  BY <1>1, <1>2, <1>3, <1>4, <1>5, <1>6, <1>7, <1>8, <1>9, <1>10, <1>11, <1>12, <1>13,
    <1>14, <1>15, <1>16, <1>17, <1>18 DEF Next, Actor, Application, Environment, ProcessState

\* A connection starts with nothing received.
LEMMA InitFlow == Init => FlowInv /\ NothingMissing
<1> SUFFICES ASSUME Init PROVE FlowInv /\ NothingMissing
    OBVIOUS
<1>1. /\ calls = <<>> /\ deferredData = <<>> /\ upgradeData = <<>> /\ incoming = <<>>
      /\ receiveData = <<>> /\ state = "None" /\ upgrade = "None" /\ replied = "No"
      /\ nOpened = 0 /\ nHeld = 0
      /\ streamActive = FALSE /\ streamEnded = FALSE /\ heldQueued = FALSE
      /\ segments = <<>> /\ kernelStream = "None"
  BY DEF Init
<1>2. check \in {"None", "Sniffing"} /\ switch \in Nat /\ (switch # 0 => check = "Sniffing")
  BY LifecycleAssumption DEF Init
<1>3. FlowInv
  BY <1>1, <1>2 DEF FlowInv, KindTyped, NothingBeforeConnected, HandshakeFirst, RepliesFirst,
     Buffers, SwitchLast
<1>4. UnitsOf(<<>>) = <<>> /\ <<>> \in Seq(Units) /\ <<>> \o <<>> = <<>>
  BY Joins DEF UnitsOf
<1>5. Told = <<>> /\ Received = <<>>
  BY <1>1, <1>4 DEF Told, Received, Held
<1>6. FirstUnits(0) = <<>> /\ Len(<<>>) = 0
  BY DEF FirstUnits
<1>7. NothingMissing
  BY <1>1, <1>5, <1>6 DEF NothingMissing, Counts
<1> QED  BY <1>3, <1>7

\* InOrder: the application gets the units of the peer in order, none twice and none
\* skipped, through every buffer and on every path of fp_ProcessState and the
\* receive stream; none stays in a buffer between handlers; and the plain socket
\* is read no further than the request to upgrade.
THEOREM DataInOrder == Spec => []InOrder
<1>1. Init => DataInv
  BY InitIInv, InitLog, InitFlow DEF DataInv
<1>2. DataInv /\ [Next]_vars => DataInv'
  BY NextIInv, NextLog, NextFlow, NextMissing DEF DataInv
<1>3. DataInv => InOrder
  <2> SUFFICES ASSUME DataInv PROVE InOrder
      OBVIOUS
  <2>1. Told \in Seq(Units) /\ Told = FirstUnits(Len(Told))
    BY ToldTyped DEF DataInv, NothingMissing, Counts
  <2>2. \A i \in DOMAIN Told : Told[i] = i
    <3>1. PICK n \in Nat : n = Len(Told)
      BY <2>1
    <3>2. \A i \in DOMAIN FirstUnits(n) : FirstUnits(n)[i] = i
      BY DEF FirstUnits
    <3> QED  BY <2>1, <3>1, <3>2
  <2>3. pc = "Idle" /\ state = "Connected" => incoming = <<>> /\ receiveData = <<>>
    BY DEF DataInv, FlowInv, Buffers
  <2>4. switch # 0 /\ ~Tls /\ state = "Connected" /\ replied # "Dropped" => nOpened <= switch
    BY DEF DataInv, FlowInv, KindTyped, SwitchLast, LogInv, LogTyped
  <2> QED  BY <2>2, <2>3, <2>4 DEF InOrder
<1> QED  BY <1>1, <1>2, <1>3, PTL DEF Spec

-----------------------------------------------------------------------------
(***************************************************************************)
(* The way of the data from the peer to the actor.                         *)
(***************************************************************************)

\* The units among segments.
DataIn(q) == {i \in DOMAIN q : q[i] = "Data"}

\* Segments carry a number of units, none if none is data.
LEMMA DataCounts ==
  ASSUME NEW q \in Seq(Segments)
  PROVE  /\ IsFiniteSet(DataIn(q)) /\ Cardinality(DataIn(q)) \in Nat
         /\ q = <<>> => Cardinality(DataIn(q)) = 0
         /\ (\A i \in DOMAIN q : q[i] # "Data") => Cardinality(DataIn(q)) = 0
<1>1. IsFiniteSet(DataIn(q))
  <2>1. IsFiniteSet(1 .. Len(q)) /\ DataIn(q) \subseteq 1 .. Len(q)
    BY FS_Interval DEF DataIn
  <2> QED  BY <2>1, FS_Subset
<1>2. Cardinality(DataIn(q)) \in Nat
  BY <1>1, FS_CardinalityType
<1>3. (\A i \in DOMAIN q : q[i] # "Data") => DataIn(q) = {}
  BY DEF DataIn
<1>4. q = <<>> => DataIn(q) = {}
  BY DEF DataIn
<1> QED  BY <1>1, <1>2, <1>3, <1>4, FS_EmptySet

\* A segment posted adds its own.
LEMMA AppendCounts ==
  ASSUME NEW q \in Seq(Segments), NEW s \in Segments
  PROVE  Cardinality(DataIn(Append(q, s)))
           = Cardinality(DataIn(q)) + (IF s = "Data" THEN 1 ELSE 0)
<1>1. CASE s # "Data"
  <2>1. DataIn(Append(q, s)) = DataIn(q)
    BY <1>1 DEF DataIn
  <2> QED  BY <1>1, <2>1, DataCounts
<1>2. CASE s = "Data"
  <2>1. DataIn(Append(q, s)) = DataIn(q) \cup {Len(q) + 1} /\ Len(q) + 1 \notin DataIn(q)
    BY <1>2 DEF DataIn
  <2> QED  BY <1>2, <2>1, DataCounts, FS_AddElement
<1> QED  BY <1>1, <1>2

\* A segment taken leaves the others.
LEMMA TailCounts ==
  ASSUME NEW q \in Seq(Segments), q # <<>>
  PROVE  Cardinality(DataIn(q))
           = Cardinality(DataIn(Tail(q))) + (IF q[1] = "Data" THEN 1 ELSE 0)
<1>1. Tail(q) \in Seq(Segments) /\ Len(q) \in Nat \ {0}
      /\ DOMAIN Tail(q) = 1 .. Len(q) - 1 /\ DOMAIN q = 1 .. Len(q)
      /\ \A i \in 1 .. Len(q) - 1 : Tail(q)[i] = q[i + 1]
  BY HeadTailProperties
<1>2. IsFiniteSet(DataIn(Tail(q))) /\ IsFiniteSet(DataIn(q) \ {1})
  BY <1>1, DataCounts, FS_Subset
<1>3. Cardinality(DataIn(Tail(q))) = Cardinality(DataIn(q) \ {1})
  <2> DEFINE f == [i \in DataIn(Tail(q)) |-> i + 1]
  <2>1. f \in Bijection(DataIn(Tail(q)), DataIn(q) \ {1})
    <3>1. \A i \in DataIn(Tail(q)) : i + 1 \in DataIn(q) \ {1}
      BY <1>1 DEF DataIn
    <3>2. \A j \in DataIn(q) \ {1} : j - 1 \in DataIn(Tail(q)) /\ f[j - 1] = j
      BY <1>1 DEF DataIn
    <3>3. \A i, j \in DataIn(Tail(q)) : f[i] = f[j] => i = j
      BY <1>1 DEF DataIn
    <3>4. f \in [DataIn(Tail(q)) -> DataIn(q) \ {1}]
      BY <3>1
    <3>5. f \in Injection(DataIn(Tail(q)), DataIn(q) \ {1})
      BY <3>3, <3>4 DEF Injection, IsInjective
    <3>6. f \in Surjection(DataIn(Tail(q)), DataIn(q) \ {1})
      BY <3>2, <3>4 DEF Surjection
    <3> QED  BY <3>5, <3>6 DEF Bijection
  <2> HIDE DEF f
  <2> QED  BY <1>2, <2>1, FS_Bijection DEF ExistsBijection
<1>4. CASE q[1] = "Data"
  <2>1. 1 \in DataIn(q)
    BY <1>1, <1>4 DEF DataIn
  <2> QED  BY <1>2, <1>3, <1>4, <2>1, DataCounts, FS_RemoveElement
<1>5. CASE q[1] # "Data"
  <2>1. DataIn(q) \ {1} = DataIn(q)
    BY <1>5 DEF DataIn
  <2>2. Cardinality(DataIn(q)) \in Nat
    BY DataCounts
  <2> QED  BY SMTT(60), <1>3, <1>5, <2>1, <2>2
<1> QED  BY <1>4, <1>5

\* The receive stream runs or ended.
Stream == streamActive \/ streamEnded
\* The peer closed, and the transport gave the actor all it sent.
AllOpened == peer # "Open" /\ nOpened = nPeerSent

\* The actor connects, and looks at states, only with a socket.
SocketKept ==
  /\ socket = "Coming" => state # "Connected"
  /\ socket = "Gone" => state = "Disconnected" \/ destroyed
  /\ pc = "States" /\ added # {} /\ state # "Disconnected" => socket = "Set"

\* Only the receive stream has the platform read for it.
StreamKept == kernelStream # "None" \/ segments # <<>> => Stream

\* No unit leaves the kernel that the peer did not send.
Counted ==
  /\ ~Tls => nHeld = nOpened
  /\ nPosted <= nPeerSent

\* The platform ends the stream behind all that the peer sent.
LastSegments ==
  /\ \A i, j \in DOMAIN segments : i < j /\ segments[i] # "Data" => segments[j] # "Data"
  /\ \A i \in DOMAIN segments :
       /\ segments[i] \in {"End", "Notify"} /\ socket = "Set" =>
            peer # "Open" /\ nPosted = nPeerSent
       /\ segments[i] \in {"End", "Error"} => kernelStream = "Ended"

\* The close_notify of the peer, the end of the stream and a broken TLS layer come
\* behind all that the peer sent.
NotifiedAll == notified => peer # "Open" /\ nHeld = nPeerSent
EndedAll == streamEnded /\ state = "Connected" /\ ~destroyed => AllOpened
BrokenAll == layer = "Broken" /\ state = "Connected" => AllOpened

\* The account of what the peer sent, on its way to the actor.
TransferInv ==
  /\ SocketKept /\ StreamKept /\ Counted /\ LastSegments
  /\ NotifiedAll /\ EndedAll /\ BrokenAll

\* What was proved before.
Before == IInv /\ LogInv /\ FlowInv

\* The numbers of the transfer.
LEMMA NumbersTyped ==
  ASSUME Before, TransferInv
  PROVE  /\ nOpened \in Nat /\ nHeld \in Nat /\ nPeerSent \in Nat /\ nPosted \in Nat
         /\ nOpened <= nHeld /\ nHeld <= nPosted /\ nPosted <= nPeerSent
         /\ segments \in Seq(Segments) /\ nPosted = nHeld + Cardinality(DataIn(segments))
         /\ segments = <<>> => nPosted = nHeld
<1>1. /\ nOpened \in Nat /\ nHeld \in Nat /\ nPeerSent \in Nat /\ nOpened <= nHeld
      /\ nPosted <= nPeerSent /\ segments \in Seq(Segments)
  BY DEF Before, LogInv, LogTyped, FlowInv, KindTyped, TransferInv, Counted, IInv, TypeInv
<1>2. nPosted = nHeld + Cardinality(DataIn(segments))
  BY DEF nPosted, DataIn
<1>3. /\ Cardinality(DataIn(segments)) \in Nat
      /\ segments = <<>> => Cardinality(DataIn(segments)) = 0
  BY <1>1, DataCounts
<1> QED  BY <1>1, <1>2, <1>3

\* What left the kernel, by what the transport holds and the segments carry.
LEMMA PostedPrimed ==
  nPosted' = nHeld' + Cardinality(DataIn(segments'))
BY DEF nPosted, DataIn

LEMMA PostedKept ==
  ASSUME UNCHANGED <<nHeld, segments>> PROVE nPosted' = nPosted
BY DEF nPosted

\* What stream input does to the account.
LEMMA StreamNumbers ==
  ASSUME Before, TransferInv, state # "None", check = "None", NEW input, StreamInput(input),
         UNCHANGED upgradeVars
  PROVE  /\ socket = "Set" => /\ nHeld' = nHeld + (IF input = "Data" THEN 1 ELSE 0)
                              /\ nOpened' = nHeld'
         /\ socket # "Set" => UNCHANGED <<nHeld, nOpened, notified>>
         /\ socket = "Set" => (notified' => notified \/ input = "Notify")
         /\ state' \in {state, "Disconnected"} /\ layer' = layer
         /\ state' # "Disconnected" => socket' = socket
         /\ socket' = "Gone" => state' = "Disconnected" \/ socket = "Gone"
         /\ socket' = "Coming" => socket = "Coming"
         /\ socket' = "Set" => socket = "Set"
         /\ streamEnded' => \/ streamEnded \/ socket # "Set" \/ input = "End" \/ notified'
                            \/ state' = "Disconnected"
         /\ Stream => Stream'
<1>1. CASE socket # "Set"
  BY <1>1 DEF StreamInput, StreamInputWithoutSocket, connectionVars, dataVars, Stream
<1>2. CASE socket = "Set"
  <2>1. LastUnit(input) = nHeld + (IF input = "Data" THEN 1 ELSE 0)
    BY NumbersTyped DEF LastUnit, TransferInv, Counted
  <2>2. PICK told :
          /\ nOpened' = LastUnit(input) /\ nHeld' = LastUnit(input)
          /\ notified' => notified \/ input = "Notify"
          /\ streamActive' = (streamActive /\ ~(input \in {"End", "Error"}) /\ ~notified')
          /\ streamEnded' = (streamEnded \/ input \in {"End", "Error"} \/ notified')
          /\ DisconnectFatal(told) \/ UNCHANGED connectionVars
          /\ input = "Error" => DisconnectFatal(told)
    BY <1>2 DEF StreamInput, ReceiveStreamInput
  <2>3. DisconnectFatal(told) => state' = "Disconnected" /\ layer' = layer /\ socket' = "Gone"
    BY <1>2 DEF DisconnectFatal, ShutdownDone
  <2> QED  BY <1>2, <2>1, <2>2, <2>3 DEF connectionVars, Stream
<1> QED  BY <1>1, <1>2

\* A handler looks at states only while it has a socket; a socket is dropped by a
\* disconnect or as the actor is destroyed.
LEMMA SocketStays == Before /\ SocketKept /\ [Next]_vars => SocketKept'
<1> SUFFICES ASSUME Before, SocketKept, [Next]_vars PROVE SocketKept'
    OBVIOUS
<1>0. /\ IInv /\ TypeInv /\ DeferredCloseOwed
      /\ (state = "None" => ~streamActive /\ ~streamEnded /\ ~heldQueued /\ segments = <<>>
                            /\ check # "Required")
  BY DEF Before, IInv, FlowInv, NothingBeforeConnected
<1> USE <1>0 DEF SocketKept, Free, vars, upgradeVars, attemptVars, processVars, connectionVars,
        promiseVars, callbackVars, bufferVars, streamVars, latchVars, peerVars, dataVars,
        postVars
<1>1. CASE Enter \/ Leave
  BY <1>1 DEF Enter, Leave
<1>2. CASE LeaveReadinessReceive \/ DeferRead \/ HandshakeWaits \/ HandshakeFails
  BY <1>2 DEF LeaveReadinessReceive, DeferRead, HandshakeWaits, HandshakeFails, Handled, Reading
<1>3. CASE ReceiveThrows
  BY <1>3, FatalKeeps DEF ReceiveThrows
<1>4. CASE ReceiveConnects
  <2>1. /\ pc = "States" /\ added # {} /\ state = "None" /\ UNCHANGED <<pc, socket, destroyed>>
    BY <1>4 DEF ReceiveConnects, Reading
  <2> QED  BY <2>1
<1>5. CASE ReceiveSniffed \/ ReceiveDirect \/ ReceiveBuffered
  BY <1>5 DEF ReceiveSniffed, ReceiveDirect, ReceiveBuffered, CanRead, Reading, AfterSniff
<1>6. CASE ReceiveNothing
  BY <1>6 DEF ReceiveNothing, Handled, Reading
<1>7. CASE RemoteClosedState
  BY <1>7, FatalKeeps, GracefulKeeps DEF RemoteClosedState, AtClose, Handled
<1>8. CASE ClosedState
  BY <1>8, FatalKeeps, ShutdownDoneKeeps DEF ClosedState, AtClose
<1>9. CASE WriteConnects \/ WriteDoesNothing
  BY <1>9 DEF WriteConnects, WriteDoesNothing, AtWrite, Handled
<1>10. CASE WriteShutsDown
  BY <1>10, FatalKeeps DEF WriteShutsDown, AtWrite, Handled, ShutdownDue
<1>11. CASE SetSocket \/ StateAdded
  BY <1>11 DEF SetSocket, StateAdded, StartProcess
<1>12. CASE ReceiveSegment \/ DrainHeldInput
  <2>1. PICK input : StreamInput(input) /\ pc = "Idle" /\ destroyed' = destroyed
    BY <1>12 DEF ReceiveSegment, DrainHeldInput
  <2>2. pc' # "States"
    BY <2>1 DEF StreamInput, ReceiveStreamInput, StreamInputWithoutSocket, StartProcess
  <2>3. UNCHANGED connectionVars \/ \E told : DisconnectFatal(told)
    BY <2>1 DEF StreamInput, ReceiveStreamInput, StreamInputWithoutSocket
  <2>4. state # "None"
    BY <1>12 DEF ReceiveSegment, DrainHeldInput
  <2> QED  BY <2>1, <2>2, <2>3, <2>4, FatalKeeps
<1>13. CASE TimerRegistered \/ TimerPolls \/ PollInTime \/ UpgradeProcesses
  BY <1>13 DEF TimerRegistered, TimerPolls, PollInTime, UpgradeProcesses, StartProcess
<1>14. CASE TimerFires
  BY <1>14, FatalKeeps DEF TimerFires
<1>15. CASE PollExpires
  <2>1. DisconnectFatal(<<>>) /\ UNCHANGED <<pc, destroyed>> /\ pc = "Idle"
    BY <1>15 DEF PollExpires
  <2> QED  BY <2>1, FatalKeeps
<1>16. CASE OutputSent
  BY <1>16, FatalKeeps DEF OutputSent
<1>17. CASE DisconnectLocal
  BY <1>17, FatalKeeps, GracefulKeeps DEF DisconnectLocal
<1>18. CASE LingerRefused \/ LingerTimeout
  BY <1>18 DEF LingerRefused, LingerTimeout, LingerEnds
<1>19. CASE \/ Accept \/ Reject \/ Unsubscribe
            \/ SendData \/ SendWaits \/ SendBreaks \/ SendConnects
  BY <1>19 DEF Accept, Reject, Unsubscribe, SendData, SendWaits, SendBreaks, SendConnects,
     StartProcess
<1>20. CASE UpgradeSocket
  BY <1>20 DEF UpgradeSocket, MayUpgrade, StartProcess
<1>21. CASE CloseUser \/ CloseWithLinger
  BY <1>21 DEF CloseUser, CloseWithLinger, Close
<1>22. CASE Destroy \/ ReceiveWindowResume
  BY <1>22 DEF Destroy, ReceiveWindowResume
<1>23. CASE KernelSegment \/ PeerAnswersHandshake \/ PeerSends \/ PeerCloses \/ PeerResets
  BY <1>23 DEF KernelSegment, PeerAnswersHandshake, PeerSends, PeerCloses, PeerResets, PeerStep
<1>24. CASE UNCHANGED vars
  BY <1>24
<1> QED  BY <1>1, <1>2, <1>3, <1>4, <1>5, <1>6, <1>7, <1>8, <1>9, <1>10, <1>11, <1>12, <1>13,
    <1>14, <1>15, <1>16, <1>17, <1>18, <1>19, <1>20, <1>21, <1>22, <1>23, <1>24
    DEF Next, Actor, Application, Environment, ProcessState

\* A step that takes and gives no data keeps the account of it.
LEMMA QuietTransfer ==
  ASSUME Before, TransferInv, SocketKept',
         UNCHANGED <<kind, segments, kernelStream, notified, nHeld, nOpened, nPeerSent>>,
         peer # "Open" => peer' # "Open",
         Stream => Stream', streamEnded' => streamEnded,
         state' = "Connected" => state = "Connected",
         layer' = "Broken" => layer = "Broken" \/ state' # "Connected",
         socket' = "Set" => socket = "Set" \/ segments = <<>>, destroyed => destroyed'
  PROVE  TransferInv'
<1>1. nPosted' = nPosted
  BY PostedKept
<1>2. StreamKept' /\ NotifiedAll' /\ EndedAll' /\ BrokenAll'
  BY DEF TransferInv, StreamKept, NotifiedAll, EndedAll, BrokenAll, AllOpened
<1>3. Counted'
  BY <1>1 DEF TransferInv, Counted, Tls
<1>4. LastSegments'
  <2>1. segments' = segments /\ kernelStream' = kernelStream
    OBVIOUS
  <2> QED  BY <1>1, <2>1 DEF TransferInv, LastSegments
<1> QED  BY <1>2, <1>3, <1>4 DEF TransferInv

\* Without segments on their way, what left the kernel is held.
LEMMA PostedHeld ==
  ASSUME segments' = <<>>, nHeld' \in Nat
  PROVE  nPosted' = nHeld'
<1>1. PICK q : q = segments'
  OBVIOUS
<1>2. q \in Seq(Segments) /\ q = <<>>
  BY <1>1
<1>3. Cardinality(DataIn(q)) = 0
  BY <1>2, DataCounts
<1>4. nPosted' = nHeld' + Cardinality(DataIn(q))
  BY <1>1, PostedPrimed
<1>5. PICK n \in Nat : n = nHeld'
  OBVIOUS
<1>6. nPosted' = n + Cardinality(DataIn(q))
  BY <1>4, <1>5
<1>7. n + Cardinality(DataIn(q)) = n
  BY <1>3
<1> QED  BY <1>5, <1>6, <1>7

\* A step of a connection without stream input on its way.
LEMMA ReadTransfer ==
  ASSUME Before, TransferInv, SocketKept', segments = <<>>, segments' = <<>>,
         UNCHANGED <<nPeerSent, peer>>, nHeld' \in Nat, nHeld' <= nPeerSent,
         ~Tls' => ~Tls /\ nHeld' = nOpened',
         kernelStream' # "None" => Stream',
         notified' => peer # "Open" /\ nHeld' = nPeerSent,
         ~streamEnded', layer' = "Broken" /\ state' = "Connected" => AllOpened'
  PROVE  TransferInv'
<1>1. nPosted' = nHeld'
  BY PostedHeld
<1>2. StreamKept' /\ NotifiedAll' /\ EndedAll' /\ BrokenAll' /\ LastSegments'
  BY DEF StreamKept, NotifiedAll, EndedAll, BrokenAll, LastSegments
<1>3. Counted'
  BY <1>1 DEF Counted
<1> QED  BY <1>2, <1>3 DEF TransferInv

\* A read takes what the peer sent, and finds a close_notify behind all of it.
LEMMA OpensTransfer ==
  ASSUME Before, TransferInv, NEW n \in Nat, Opens(n), kind' = kind
  PROVE  /\ nHeld' \in Nat /\ nHeld' <= nPeerSent
         /\ ~Tls' => ~Tls /\ nHeld' = nOpened'
         /\ notified' => peer # "Open" /\ nHeld' = nPeerSent
<1>1. nHeld \in Nat /\ nPeerSent \in Nat
  BY NumbersTyped
<1>2. /\ nHeld' \in nHeld .. nPeerSent /\ (Tls \/ nHeld' = nOpened')
      /\ (notified' => notified \/ (peer = "Fin" /\ nHeld' = nPeerSent))
  BY DEF Opens
<1>3. notified => peer # "Open" /\ nHeld = nPeerSent
  BY DEF TransferInv, NotifiedAll
<1> QED  BY <1>1, <1>2, <1>3 DEF Tls

\* Without the receive stream nothing of it is on its way.
LEMMA Unstreamed ==
  ASSUME Before, TransferInv, ~Stream
  PROVE  segments = <<>> /\ kernelStream = "None" /\ ~streamEnded
BY DEF TransferInv, StreamKept, Stream

\* The platform posts what the stream finds next.
LEMMA KernelTransfer ==
  ASSUME Before, TransferInv, SocketKept', KernelSegment
  PROVE  TransferInv'
<1>1. /\ kernelStream = "Running" /\ socket = "Set" /\ NextInStream # "None"
      /\ segments' = Append(segments, NextInStream)
      /\ kernelStream' = IF NextInStream \in {"End", "Error"} THEN "Ended" ELSE kernelStream
      /\ UNCHANGED <<kind, nHeld, nOpened, nPeerSent, notified, peer, streamActive, streamEnded,
                     state, layer, socket, destroyed>>
  BY DEF KernelSegment, upgradeVars, dataVars, peerVars, streamVars, connectionVars, latchVars
<1>2. PICK s \in Segments : s = NextInStream
  BY <1>1 DEF NextInStream, Segments
<1>3. segments \in Seq(Segments) /\ nPosted \in Nat /\ nPeerSent \in Nat /\ nHeld \in Nat
      /\ nPosted = nHeld + Cardinality(DataIn(segments)) /\ Cardinality(DataIn(segments)) \in Nat
  BY NumbersTyped, DataCounts
<1>4. nPosted' = nPosted + (IF s = "Data" THEN 1 ELSE 0)
  <2>1. Cardinality(DataIn(Append(segments, s)))
          = Cardinality(DataIn(segments)) + (IF s = "Data" THEN 1 ELSE 0)
    BY <1>2, <1>3, AppendCounts
  <2>2. nPosted' = nHeld + Cardinality(DataIn(Append(segments, s)))
    BY <1>1, <1>2, PostedPrimed
  <2> QED  BY <1>3, <2>1, <2>2
<1>5. /\ s = "Data" => nPosted < nPeerSent
      /\ s \in {"End", "Notify"} => peer # "Open" /\ ~(nPosted < nPeerSent)
  BY <1>2 DEF NextInStream
<1>6. StreamKept' /\ NotifiedAll' /\ EndedAll' /\ BrokenAll'
  BY <1>1 DEF TransferInv, StreamKept, NotifiedAll, EndedAll, BrokenAll, AllOpened, Stream
<1>7. Counted'
  BY <1>1, <1>3, <1>4, <1>5 DEF TransferInv, Counted, Tls
<1>8. LastSegments'
  <2>1. /\ DOMAIN segments' = 1 .. Len(segments) + 1 /\ DOMAIN segments = 1 .. Len(segments)
        /\ \A i \in DOMAIN segments : segments'[i] = segments[i]
        /\ segments'[Len(segments) + 1] = s /\ Len(segments) \in Nat
    BY <1>1, <1>2, <1>3
  <2>2. \A i \in DOMAIN segments : segments[i] \notin {"End", "Error"}
    BY <1>1 DEF TransferInv, LastSegments
  <2>3. \A i \in DOMAIN segments : segments[i] \in {"End", "Notify"} =>
          peer # "Open" /\ nPosted = nPeerSent
    BY <1>1 DEF TransferInv, LastSegments
  <2>4. \A i \in DOMAIN segments : segments[i] \in Segments
    BY <1>3
  <2>5. s = "Data" => \A i \in DOMAIN segments : segments[i] = "Data"
    BY <1>3, <1>5, <2>2, <2>3, <2>4 DEF Segments
  <2>6. \A i, j \in DOMAIN segments' : i < j /\ segments'[i] # "Data" => segments'[j] # "Data"
    <3> SUFFICES ASSUME NEW i \in DOMAIN segments', NEW j \in DOMAIN segments', i < j,
                        segments'[i] # "Data"
                 PROVE  segments'[j] # "Data"
      OBVIOUS
    <3>1. i \in DOMAIN segments
      BY <2>1
    <3> QED  BY <2>1, <2>5, <3>1 DEF TransferInv, LastSegments
  <2>7. \A i \in DOMAIN segments' :
          segments'[i] \in {"End", "Notify"} => peer' # "Open" /\ nPosted' = nPeerSent'
    <3> SUFFICES ASSUME NEW i \in DOMAIN segments', segments'[i] \in {"End", "Notify"}
                 PROVE  peer' # "Open" /\ nPosted' = nPeerSent'
      OBVIOUS
    <3>1. s # "Data"
      BY <2>1, <2>5
    <3>2. nPosted' = nPosted
      BY <1>3, <1>4, <3>1
    <3>3. CASE i \in DOMAIN segments
      BY <1>1, <2>1, <2>3, <3>2, <3>3
    <3>4. CASE i \notin DOMAIN segments
      <4>1. s \in {"End", "Notify"}
        BY <2>1, <3>4
      <4>2. nPosted <= nPeerSent
        BY DEF TransferInv, Counted
      <4> QED  BY <1>1, <1>3, <1>5, <3>2, <4>1, <4>2
    <3> QED  BY <3>3, <3>4
  <2>8. \A i \in DOMAIN segments' : segments'[i] \in {"End", "Error"} => kernelStream' = "Ended"
    BY <1>1, <1>2, <2>1, <2>2
  <2> QED  BY <2>6, <2>7, <2>8 DEF LastSegments
<1> QED  BY <1>6, <1>7, <1>8 DEF TransferInv

\* The actor takes a segment, and opens all that the transport holds.
LEMMA SegmentTransfer ==
  ASSUME Before, TransferInv, SocketKept', ReceiveSegment
  PROVE  TransferInv'
<1> DEFINE input == Head(segments)
<1>1. /\ segments # <<>> /\ segments' = Tail(segments) /\ StreamInput(input)
      /\ UNCHANGED upgradeVars
      /\ UNCHANGED <<kind, peer, nPeerSent, kernelStream, destroyed>>
  BY DEF ReceiveSegment, upgradeVars, peerVars
<1>2. Stream /\ state # "None" /\ check = "None"
  BY <1>1 DEF Before, IInv, FlowInv, NothingBeforeConnected, QuietWhileChecked, TransferInv,
     StreamKept
<1>3. segments \in Seq(Segments) /\ nPosted \in Nat /\ nPeerSent \in Nat /\ nHeld \in Nat
      /\ nOpened \in Nat /\ nOpened <= nHeld /\ nPosted <= nPeerSent
      /\ nPosted = nHeld + Cardinality(DataIn(segments)) /\ Cardinality(DataIn(segments)) \in Nat
  BY NumbersTyped, DataCounts
<1>4. /\ input = segments[1] /\ input \in Segments /\ Tail(segments) \in Seq(Segments)
      /\ Len(segments) \in Nat \ {0} /\ DOMAIN segments = 1 .. Len(segments)
      /\ DOMAIN Tail(segments) = 1 .. Len(segments) - 1
      /\ \A i \in DOMAIN Tail(segments) :
           /\ i + 1 \in DOMAIN segments /\ i \in Nat /\ i >= 1
           /\ Tail(segments)[i] = segments[i + 1]
  BY <1>1, <1>3
<1>5. Cardinality(DataIn(segments))
        = Cardinality(DataIn(Tail(segments))) + (IF input = "Data" THEN 1 ELSE 0)
  BY <1>1, <1>3, <1>4, TailCounts
<1>6. Cardinality(DataIn(Tail(segments))) \in Nat
  BY <1>4, DataCounts
<1>7. nPosted' = nHeld' + Cardinality(DataIn(Tail(segments)))
  BY <1>1, PostedPrimed
<1> HIDE DEF input
<1>8. /\ socket = "Set" => /\ nHeld' = nHeld + (IF input = "Data" THEN 1 ELSE 0)
                           /\ nOpened' = nHeld'
      /\ socket # "Set" => UNCHANGED <<nHeld, nOpened, notified>>
      /\ socket = "Set" => (notified' => notified \/ input = "Notify")
      /\ state' \in {state, "Disconnected"} /\ layer' = layer
      /\ state' # "Disconnected" => socket' = socket
      /\ socket' = "Coming" => socket = "Coming"
      /\ socket' = "Set" => socket = "Set"
      /\ streamEnded' => \/ streamEnded \/ socket # "Set" \/ input = "End" \/ notified'
                         \/ state' = "Disconnected"
      /\ Stream'
  BY <1>1, <1>2, StreamNumbers
<1>9. socket = "Set" => nPosted' = nPosted
  BY <1>3, <1>5, <1>6, <1>7, <1>8
<1>10. nPosted' <= nPeerSent
  BY SMTT(60), <1>3, <1>5, <1>6, <1>7, <1>8
<1>11. Counted' /\ StreamKept'
  BY <1>1, <1>8, <1>10 DEF TransferInv, Counted, Tls, StreamKept
<1>12. LastSegments'
  <2>1. /\ \A i, j \in DOMAIN segments : i < j /\ segments[i] # "Data" => segments[j] # "Data"
        /\ \A i \in DOMAIN segments :
             /\ segments[i] \in {"End", "Notify"} /\ socket = "Set" =>
                  peer # "Open" /\ nPosted = nPeerSent
             /\ segments[i] \in {"End", "Error"} => kernelStream = "Ended"
    BY DEF TransferInv, LastSegments
  <2>2. \A i, j \in DOMAIN segments' : i < j /\ segments'[i] # "Data" => segments'[j] # "Data"
    BY <1>1, <1>4, <2>1
  <2>3. \A i \in DOMAIN segments' :
             /\ segments'[i] \in {"End", "Notify"} /\ socket' = "Set" =>
                  peer' # "Open" /\ nPosted' = nPeerSent'
             /\ segments'[i] \in {"End", "Error"} => kernelStream' = "Ended"
    <3> SUFFICES ASSUME NEW i \in DOMAIN segments'
                 PROVE  /\ segments'[i] \in {"End", "Notify"} /\ socket' = "Set" =>
                             peer' # "Open" /\ nPosted' = nPeerSent'
                        /\ segments'[i] \in {"End", "Error"} => kernelStream' = "Ended"
      OBVIOUS
    <3>1. i + 1 \in DOMAIN segments /\ segments'[i] = segments[i + 1]
      BY <1>1, <1>4
    <3> QED  BY <1>1, <1>8, <1>9, <2>1, <3>1
  <2> QED  BY <2>2, <2>3 DEF LastSegments
<1>13. socket = "Set" /\ input \in {"End", "Notify"} => peer # "Open" /\ nHeld' = nPeerSent
  <2> SUFFICES ASSUME socket = "Set", input \in {"End", "Notify"}
               PROVE  peer # "Open" /\ nHeld' = nPeerSent
    OBVIOUS
  <2>1. 1 \in DOMAIN segments
    BY <1>4
  <2>2. peer # "Open" /\ nPosted = nPeerSent
    BY <1>4, <2>1 DEF TransferInv, LastSegments
  <2>3. \A i \in DOMAIN segments : segments[i] # "Data"
    <3> SUFFICES ASSUME NEW i \in DOMAIN segments PROVE segments[i] # "Data"
      OBVIOUS
    <3>1. CASE i = 1
      BY <1>4, <3>1
    <3>2. CASE i # 1
      <4>1. 1 < i
        BY <1>4, <3>2
      <4> QED  BY <1>4, <2>1, <4>1 DEF TransferInv, LastSegments
    <3> QED  BY <3>1, <3>2
  <2>4. Cardinality(DataIn(segments)) = 0
    BY <1>3, <2>3, DataCounts
  <2> QED  BY <1>3, <1>8, <2>2, <2>4
<1>14. notified => peer # "Open" /\ nHeld = nPeerSent
  BY DEF TransferInv, NotifiedAll
<1>15. notified => nHeld' = nHeld
  <2>1. CASE socket # "Set" \/ input # "Data"
    <3>1. CASE socket # "Set"
      BY <1>8, <3>1
    <3>2. CASE socket = "Set"
      <4>1. input # "Data" /\ nHeld' = nHeld + (IF input = "Data" THEN 1 ELSE 0)
        BY <1>8, <2>1, <3>2
      <4> QED  BY <1>3, <4>1
    <3> QED  BY <3>1, <3>2
  <2>2. CASE input = "Data"
    <3>1. nPosted = nHeld + (Cardinality(DataIn(Tail(segments))) + 1)
      BY <1>3, <1>5, <2>2
    <3>2. nHeld < nPosted
      BY <1>3, <1>6, <3>1
    <3> QED  BY <1>3, <1>14, <3>2
  <2> QED  BY <2>1, <2>2
<1>16. NotifiedAll'
  BY <1>1, <1>8, <1>13, <1>14, <1>15 DEF NotifiedAll
<1>17. EndedAll'
  <2> SUFFICES ASSUME streamEnded', state' = "Connected", ~destroyed' PROVE AllOpened'
    BY DEF EndedAll
  <2>1. state = "Connected" /\ ~destroyed /\ socket = "Set"
    <3>1. state = "Connected" /\ ~destroyed
      BY <1>1, <1>8
    <3> QED  BY <3>1 DEF TransferInv, SocketKept, Before, IInv, TypeInv
  <2>2. streamEnded => peer # "Open" /\ nOpened = nPeerSent
    BY <2>1 DEF TransferInv, EndedAll, AllOpened
  <2>3. streamEnded => nOpened' = nPeerSent
    BY <1>3, <1>5, <1>6, <1>8, <2>1, <2>2
  <2>4. input = "End" \/ input = "Notify" \/ notified => peer # "Open" /\ nOpened' = nPeerSent
    BY <1>8, <1>13, <1>14, <1>15, <2>1
  <2> QED  BY <1>1, <1>8, <2>1, <2>2, <2>3, <2>4 DEF AllOpened
<1>18. BrokenAll'
  <2> SUFFICES ASSUME layer' = "Broken", state' = "Connected" PROVE AllOpened'
    BY DEF BrokenAll
  <2>1. state = "Connected" /\ peer # "Open" /\ nOpened = nPeerSent
    BY <1>8 DEF TransferInv, BrokenAll, AllOpened
  <2>2. nOpened' = nPeerSent
    BY <1>3, <1>5, <1>6, <1>8, <2>1
  <2> QED  BY <1>1, <2>1, <2>2 DEF AllOpened
<1> QED  BY <1>11, <1>12, <1>16, <1>17, <1>18 DEF TransferInv

\* So does the drain of what the transport held as the stream started.
LEMMA DrainTransfer ==
  ASSUME Before, TransferInv, SocketKept', DrainHeldInput
  PROVE  TransferInv'
<1>1. /\ heldQueued /\ StreamInput("Held") /\ UNCHANGED upgradeVars
      /\ UNCHANGED <<kind, peer, nPeerSent, kernelStream, destroyed, segments>>
  BY DEF DrainHeldInput, upgradeVars, peerVars
<1>2. state # "None" /\ check = "None"
  BY <1>1 DEF Before, IInv, FlowInv, NothingBeforeConnected, QuietWhileChecked
<1>3. nPosted \in Nat /\ nPeerSent \in Nat /\ nHeld \in Nat
      /\ nOpened \in Nat /\ nOpened <= nHeld /\ nPosted <= nPeerSent /\ nHeld <= nPosted
  BY NumbersTyped
<1>4. PICK input : input = "Held"
  OBVIOUS
<1>5. /\ socket = "Set" => nHeld' = nHeld + (IF input = "Data" THEN 1 ELSE 0) /\ nOpened' = nHeld'
      /\ socket # "Set" => UNCHANGED <<nHeld, nOpened, notified>>
      /\ socket = "Set" => (notified' => notified \/ input = "Notify")
      /\ state' \in {state, "Disconnected"} /\ layer' = layer
      /\ state' # "Disconnected" => socket' = socket
      /\ socket' = "Set" => socket = "Set"
      /\ streamEnded' => \/ streamEnded \/ socket # "Set" \/ input = "End" \/ notified'
                         \/ state' = "Disconnected"
      /\ Stream => Stream'
  BY <1>1, <1>2, <1>4, StreamNumbers
<1>6. nHeld' = nHeld /\ (notified' => notified)
      /\ (socket = "Set" => nOpened' = nHeld) /\ (socket # "Set" => nOpened' = nOpened)
  BY <1>3, <1>4, <1>5
<1>7. nPosted' = nPosted
  BY <1>1, <1>6, PostedKept
<1>8. StreamKept' /\ NotifiedAll' /\ Counted'
  BY <1>1, <1>5, <1>6, <1>7 DEF TransferInv, StreamKept, NotifiedAll, Counted, Tls
<1>9. LastSegments'
  <2>1. segments' = segments /\ kernelStream' = kernelStream /\ nPosted' = nPosted
        /\ (socket' = "Set" => socket = "Set") /\ UNCHANGED <<peer, nPeerSent>>
    BY <1>1, <1>5, <1>7
  <2> QED  BY <2>1 DEF TransferInv, LastSegments
<1>10. EndedAll'
  <2> SUFFICES ASSUME streamEnded', state' = "Connected", ~destroyed' PROVE AllOpened'
    BY DEF EndedAll
  <2>1. state = "Connected" /\ ~destroyed /\ socket = "Set"
    <3>1. state = "Connected" /\ ~destroyed
      BY <1>1, <1>5
    <3> QED  BY <3>1 DEF TransferInv, SocketKept, Before, IInv, TypeInv
  <2>2. streamEnded \/ notified
    BY <1>4, <1>5, <1>6, <2>1
  <2>3. peer # "Open" /\ nHeld = nPeerSent
    BY <1>3, <2>1, <2>2 DEF TransferInv, EndedAll, AllOpened, NotifiedAll
  <2> QED  BY <1>1, <1>6, <2>1, <2>3 DEF AllOpened
<1>11. BrokenAll'
  <2> SUFFICES ASSUME layer' = "Broken", state' = "Connected" PROVE AllOpened'
    BY DEF BrokenAll
  <2>1. peer # "Open" /\ nOpened = nPeerSent
    BY <1>5 DEF TransferInv, BrokenAll, AllOpened
  <2> QED  BY <1>1, <1>3, <1>6, <2>1 DEF AllOpened
<1> QED  BY <1>8, <1>9, <1>10, <1>11 DEF TransferInv

\* Every step keeps the account of what the peer sent.
LEMMA NextTransfer == Before /\ TransferInv /\ [Next]_vars => TransferInv'
<1> SUFFICES ASSUME Before, TransferInv, [Next]_vars PROVE TransferInv'
    OBVIOUS
<1>0. SocketKept'
  BY SocketStays DEF TransferInv
<1>00. /\ TypeInv /\ DeferredCloseOwed /\ QuietWhileChecked /\ QuietBeforeSocket
       /\ NothingBeforeConnected /\ nOpened <= nHeld /\ LogTyped
  BY DEF Before, IInv, FlowInv, KindTyped, LogInv
<1> USE <1>0, <1>00 DEF Stream, Free, vars, upgradeVars, attemptVars, processVars,
        connectionVars, promiseVars, callbackVars, bufferVars, streamVars, latchVars, peerVars,
        dataVars, postVars
<1>1. CASE Enter
  <2>1. UNCHANGED <<kind, segments, kernelStream, nHeld, nOpened, nPeerSent, peer, state, layer,
                    socket, destroyed, notified, streamActive, streamEnded>>
    BY <1>1 DEF Enter
  <2> QED  BY <2>1, QuietTransfer
<1>2. CASE Leave \/ DeferRead \/ HandshakeWaits \/ WriteDoesNothing \/ StateAdded
  <2>1. UNCHANGED <<kind, segments, kernelStream, nHeld, nOpened, nPeerSent, peer, state, layer,
                    socket, destroyed, notified, streamActive, streamEnded>>
    BY <1>2 DEF Leave, DeferRead, HandshakeWaits, WriteDoesNothing, StateAdded
  <2> QED  BY <2>1, QuietTransfer
<1>3. CASE LeaveReadinessReceive
  <2>1. /\ StartStream(TRUE)
        /\ UNCHANGED <<kind, segments, nHeld, nOpened, nPeerSent, peer, state, layer,
                       socket, destroyed, notified>>
    BY <1>3 DEF LeaveReadinessReceive
  <2>2. CASE Stream
    <3>1. UNCHANGED <<kernelStream, streamActive, streamEnded>>
      BY <2>1, <2>2 DEF StartStream
    <3> QED  BY <2>1, <3>1, QuietTransfer
  <2>3. CASE ~Stream
    <3>1. segments = <<>> /\ ~streamEnded
      BY <2>3, Unstreamed
    <3>2. Stream' /\ ~streamEnded'
      BY <2>1, <2>3 DEF StartStream
    <3>3. /\ nHeld' \in Nat /\ nHeld' <= nPeerSent /\ (~Tls' => ~Tls /\ nHeld' = nOpened')
          /\ (notified' => peer # "Open" /\ nHeld' = nPeerSent)
          /\ (layer' = "Broken" /\ state' = "Connected" => AllOpened')
      <4>1. UNCHANGED <<kind, nHeld, nOpened, nPeerSent, peer, state, layer, notified>>
        BY <2>1
      <4>2. nHeld \in Nat /\ nPeerSent \in Nat /\ nHeld <= nPeerSent
        BY NumbersTyped
      <4> QED  BY <4>1, <4>2 DEF TransferInv, Counted, NotifiedAll, BrokenAll, AllOpened, Tls
    <3> QED  BY <2>1, <3>1, <3>2, <3>3, ReadTransfer
  <2> QED  BY <2>2, <2>3
<1>4. CASE ReceiveThrows \/ TimerFires \/ PollExpires
  <2>1. DisconnectFatal(<<>>)
        /\ UNCHANGED <<kind, segments, kernelStream, nHeld, nOpened, nPeerSent, peer, destroyed,
                       notified, streamActive, streamEnded>>
    BY <1>4 DEF ReceiveThrows, TimerFires, PollExpires
  <2>2. state' = "Disconnected" /\ socket' # "Set"
    BY <2>1, FatalKeeps
  <2> QED  BY <2>1, <2>2, QuietTransfer
<1>5. CASE ReceiveConnects
  <2>1. /\ state = "None" /\ layer' = "Open" /\ StartStream(MayActivate(kind))
        /\ UNCHANGED <<kind, segments, nPeerSent, peer>>
    BY <1>5 DEF ReceiveConnects, CheckHandshake, Connects
  <2>2. PICK n \in Nat : Opens(n)
    BY <1>5 DEF ReceiveConnects
  <2>3. ~Stream /\ segments = <<>> /\ kernelStream = "None"
    BY <2>1 DEF NothingBeforeConnected
  <2>4. ~streamEnded' /\ (kernelStream' # "None" => Stream')
    BY <2>1, <2>3 DEF StartStream
  <2>5. /\ nHeld' \in Nat /\ nHeld' <= nPeerSent /\ (~Tls' => ~Tls /\ nHeld' = nOpened')
        /\ (notified' => peer # "Open" /\ nHeld' = nPeerSent)
    BY <2>1, <2>2, OpensTransfer
  <2> QED  BY <2>1, <2>3, <2>4, <2>5, ReadTransfer
<1>6. CASE HandshakeFails
  <2>1. state' = "None"
        /\ UNCHANGED <<kind, segments, kernelStream, nHeld, nOpened, nPeerSent, peer,
                       socket, destroyed, notified, streamActive, streamEnded>>
    BY <1>6 DEF HandshakeFails
  <2> QED  BY <2>1, QuietTransfer
<1>7. CASE ReceiveSniffed \/ ReceiveDirect \/ ReceiveBuffered
  <2>1. /\ Reading /\ layer = "Open" /\ Opens(1)
        /\ UNCHANGED <<kind, segments, nPeerSent, peer, layer, kernelStream, streamEnded>>
    BY <1>7 DEF ReceiveSniffed, ReceiveDirect, ReceiveBuffered, CanRead
  <2>2. ~Stream /\ segments = <<>> /\ kernelStream = "None"
    BY <2>1, Unstreamed DEF Reading, LeavesReadiness
  <2>3. /\ nHeld' \in Nat /\ nHeld' <= nPeerSent /\ (~Tls' => ~Tls /\ nHeld' = nOpened')
        /\ (notified' => peer # "Open" /\ nHeld' = nPeerSent)
    BY <2>1, OpensTransfer
  <2> QED  BY <2>1, <2>2, <2>3, ReadTransfer
<1>8. CASE ReceiveNothing
  <2>1. /\ Reading
        /\ ReadsNothing \/ nOpened = nPeerSent
        /\ notified' = (notified \/ (Tls /\ ~ReadsNothing /\ peer = "Fin"))
        /\ layer' = layer \/ (~ReadsNothing /\ peer = "Truncated")
        /\ UNCHANGED <<kind, segments, nHeld, nOpened, nPeerSent, peer, state, kernelStream,
                       streamEnded>>
    BY <1>8 DEF ReceiveNothing
  <2>2. ~Stream /\ segments = <<>> /\ kernelStream = "None"
    BY <2>1, Unstreamed DEF Reading, LeavesReadiness
  <2>3. nHeld \in Nat /\ nPeerSent \in Nat /\ nHeld <= nPeerSent /\ nOpened <= nHeld
        /\ nOpened \in Nat
    BY NumbersTyped
  <2>4. nHeld' \in Nat /\ nHeld' <= nPeerSent /\ (~Tls' => ~Tls /\ nHeld' = nOpened')
    BY <2>1, <2>3 DEF TransferInv, Counted, Tls
  <2>5. notified' => peer # "Open" /\ nHeld' = nPeerSent
    <3>1. notified => peer # "Open" /\ nHeld = nPeerSent
      BY DEF TransferInv, NotifiedAll
    <3>2. ~ReadsNothing => nHeld = nPeerSent
      BY <2>1, <2>3
    <3>3. nHeld' = nHeld
      BY <2>1
    <3> QED  BY <2>1, <3>1, <3>2, <3>3
  <2>6. layer' = "Broken" /\ state' = "Connected" => AllOpened'
    <3>1. UNCHANGED <<nOpened, nPeerSent, peer, state>>
      BY <2>1
    <3> QED  BY <2>1, <3>1 DEF TransferInv, BrokenAll, AllOpened
  <2> QED  BY <2>1, <2>2, <2>4, <2>5, <2>6, ReadTransfer
<1>9. CASE RemoteClosedState
  <2>1. UNCHANGED <<kind, segments, kernelStream, nHeld, nOpened, nPeerSent, peer, destroyed,
                    notified, streamActive, streamEnded>>
    BY <1>9 DEF RemoteClosedState
  <2>2. state' = "Disconnected" /\ (socket' = "Set" => socket = "Set")
    BY <1>9, FatalKeeps, GracefulKeeps DEF RemoteClosedState
  <2> QED  BY <2>1, <2>2, QuietTransfer
<1>10. CASE ClosedState
  <2>1. UNCHANGED <<kind, segments, kernelStream, nHeld, nOpened, nPeerSent, peer, destroyed,
                    notified, streamActive, streamEnded>>
    BY <1>10 DEF ClosedState
  <2>2. state' = "Disconnected" /\ socket' # "Set"
    BY <1>10, FatalKeeps, ShutdownDoneKeeps DEF ClosedState
  <2> QED  BY <2>1, <2>2, QuietTransfer
<1>11. CASE WriteConnects
  <2>1. /\ state = "None" /\ layer' = "Open" /\ StartStream(MayActivate(kind))
        /\ UNCHANGED <<kind, segments, nPeerSent, peer, nHeld, nOpened, notified>>
    BY <1>11 DEF WriteConnects, CheckHandshake, Connects
  <2>2. ~Stream /\ segments = <<>> /\ kernelStream = "None"
    BY <2>1 DEF NothingBeforeConnected
  <2>3. ~streamEnded' /\ (kernelStream' # "None" => Stream')
    BY <2>1, <2>2 DEF StartStream
  <2>4. nHeld \in Nat /\ nPeerSent \in Nat /\ nHeld <= nPeerSent
    BY NumbersTyped
  <2>5. /\ nHeld' \in Nat /\ nHeld' <= nPeerSent /\ (~Tls' => ~Tls /\ nHeld' = nOpened')
        /\ (notified' => peer # "Open" /\ nHeld' = nPeerSent)
    <3>1. UNCHANGED <<kind, nHeld, nOpened, notified>>
      BY <2>1
    <3> QED  BY <2>4, <3>1 DEF TransferInv, Counted, Tls, NotifiedAll
  <2> QED  BY <2>1, <2>2, <2>3, <2>5, ReadTransfer
<1>12. CASE WriteShutsDown
  <2>1. UNCHANGED <<kind, segments, kernelStream, nHeld, nOpened, nPeerSent, peer, destroyed,
                    notified, streamActive, streamEnded>>
    BY <1>12 DEF WriteShutsDown
  <2>2. state' = "Disconnected" /\ (socket' = "Set" => socket = "Set")
    BY <1>12, FatalKeeps DEF WriteShutsDown, ShutdownDue
  <2> QED  BY <2>1, <2>2, QuietTransfer
<1>13. CASE SetSocket
  <2>1. socket = "Coming"
        /\ UNCHANGED <<kind, segments, kernelStream, nHeld, nOpened, nPeerSent, peer, state, layer,
                       destroyed, notified, streamActive, streamEnded>>
    BY <1>13 DEF SetSocket
  <2> QED  BY <2>1, QuietTransfer DEF QuietBeforeSocket
<1>14. CASE ReceiveSegment
  BY <1>14, SegmentTransfer
<1>15. CASE DrainHeldInput
  BY <1>15, DrainTransfer
<1>16. CASE TimerRegistered \/ TimerPolls \/ PollInTime \/ UpgradeProcesses
  <2>1. UNCHANGED <<kind, segments, kernelStream, nHeld, nOpened, nPeerSent, peer, state, layer,
                    socket, destroyed, notified, streamActive, streamEnded>>
    BY <1>16 DEF TimerRegistered, TimerPolls, PollInTime, UpgradeProcesses
  <2> QED  BY <2>1, QuietTransfer
<1>17. CASE OutputSent
  <2>1. UNCHANGED <<kind, segments, kernelStream, nHeld, nOpened, nPeerSent, peer, destroyed,
                    notified, streamActive, streamEnded>>
    BY <1>17 DEF OutputSent
  <2>2. \/ state' = "Disconnected" /\ socket' # "Set"
        \/ UNCHANGED <<state, layer, socket>>
    BY <1>17, FatalKeeps DEF OutputSent
  <2> QED  BY <2>1, <2>2, QuietTransfer
<1>18. CASE DisconnectLocal
  <2>1. UNCHANGED <<kind, segments, kernelStream, nHeld, nOpened, nPeerSent, peer, destroyed,
                    notified, streamActive, streamEnded>>
    BY <1>18 DEF DisconnectLocal
  <2>2. state' = "Disconnected" /\ (socket' = "Set" => socket = "Set")
    BY <1>18, FatalKeeps, GracefulKeeps DEF DisconnectLocal
  <2> QED  BY <2>1, <2>2, QuietTransfer
<1>19. CASE LingerRefused \/ LingerTimeout
  <2>1. UNCHANGED <<kind, segments, kernelStream, nHeld, nOpened, nPeerSent, peer, state, layer,
                    socket, destroyed, notified, streamActive, streamEnded>>
    BY <1>19 DEF LingerRefused, LingerTimeout, LingerEnds
  <2> QED  BY <2>1, QuietTransfer
<1>20. CASE Accept \/ Reject \/ Unsubscribe \/ SendData \/ SendWaits
  <2>1. UNCHANGED <<kind, segments, kernelStream, nHeld, nOpened, nPeerSent, peer, state, layer,
                    socket, destroyed, notified, streamActive, streamEnded>>
    BY <1>20 DEF Accept, Reject, Unsubscribe, SendData, SendWaits
  <2> QED  BY <2>1, QuietTransfer
<1>21. CASE UpgradeSocket
  <2>1. /\ check = "Required" /\ kind' \in {"TlsReadiness", "TlsStream"}
        /\ UNCHANGED <<segments, nPeerSent, peer, nHeld, nOpened, notified>>
        /\ layer' = layer \/ state' = "None"
        /\ UNCHANGED state \/ state' = "None"
        /\ StartStream(kind' = "TlsStream") \/ UNCHANGED <<streamVars, kernelStream>>
    BY <1>21 DEF UpgradeSocket, MayUpgrade
  <2>2. ~Stream /\ segments = <<>> /\ kernelStream = "None" /\ layer = "Open"
    BY <2>1 DEF QuietWhileChecked
  <2>3. ~streamEnded' /\ (kernelStream' # "None" => Stream')
    BY <2>1, <2>2 DEF StartStream
  <2>4. nHeld \in Nat /\ nPeerSent \in Nat /\ nHeld <= nPeerSent
    BY NumbersTyped
  <2>5. /\ nHeld' \in Nat /\ nHeld' <= nPeerSent
        /\ (notified' => peer # "Open" /\ nHeld' = nPeerSent)
    <3>1. UNCHANGED <<nHeld, nOpened, notified>>
      BY <2>1
    <3> QED  BY <2>4, <3>1 DEF TransferInv, NotifiedAll
  <2>6. Tls'
    BY <2>1 DEF Tls
  <2> QED  BY <2>1, <2>2, <2>3, <2>5, <2>6, ReadTransfer
<1>22. CASE CloseUser \/ CloseWithLinger
  <2>1. UNCHANGED <<kind, segments, kernelStream, nHeld, nOpened, nPeerSent, peer, state, layer,
                    socket, destroyed, notified, streamActive, streamEnded>>
    BY <1>22 DEF CloseUser, CloseWithLinger
  <2> QED  BY <2>1, QuietTransfer
<1>23. CASE Destroy
  <2>1. /\ destroyed' /\ socket' = "Gone" /\ segments' = <<>>
        /\ UNCHANGED <<kind, nHeld, nOpened, nPeerSent, peer, state, layer, notified, kernelStream,
                       streamActive, streamEnded>>
    BY <1>23 DEF Destroy
  <2>2. nHeld \in Nat /\ nPeerSent \in Nat /\ nHeld <= nPeerSent
    BY NumbersTyped
  <2>3. nPosted' = nHeld'
    <3>1. nHeld' \in Nat /\ segments' = <<>>
      BY <2>1, <2>2
    <3> QED  BY <3>1, PostedHeld
  <2>4. Counted'
    BY <2>1, <2>2, <2>3 DEF TransferInv, Counted, Tls
  <2>5. StreamKept' /\ NotifiedAll' /\ EndedAll' /\ BrokenAll' /\ LastSegments'
    BY <2>1 DEF TransferInv, StreamKept, NotifiedAll, EndedAll, BrokenAll, AllOpened, LastSegments
  <2> QED  BY <2>4, <2>5 DEF TransferInv
<1>24. CASE ReceiveWindowResume \/ PeerAnswersHandshake
  <2>1. UNCHANGED <<kind, segments, kernelStream, nHeld, nOpened, nPeerSent, peer, state, layer,
                    socket, destroyed, notified, streamActive, streamEnded>>
    BY <1>24 DEF ReceiveWindowResume, PeerAnswersHandshake, PeerStep
  <2> QED  BY <2>1, QuietTransfer
<1>25. CASE PeerCloses \/ PeerResets
  <2>1. peer' # "Open"
        /\ UNCHANGED <<kind, segments, kernelStream, nHeld, nOpened, nPeerSent, state, layer,
                       socket, destroyed, notified, streamActive, streamEnded>>
    BY <1>25 DEF PeerCloses, PeerResets, PeerStep
  <2> QED  BY <2>1, QuietTransfer
<1>26. CASE PeerSends
  <2>1. /\ peer = "Open" /\ nPeerSent' = nPeerSent + 1
        /\ UNCHANGED <<kind, segments, kernelStream, nHeld, nOpened, peer, state, layer,
                       socket, destroyed, notified, streamActive, streamEnded>>
    BY <1>26 DEF PeerSends, PeerStep
  <2>2. nPosted' = nPosted
    BY <2>1, PostedKept
  <2>3. nPosted \in Nat /\ nPeerSent \in Nat /\ nPosted <= nPeerSent
    BY NumbersTyped
  <2>4. Counted'
    BY <2>1, <2>2, <2>3 DEF TransferInv, Counted, Tls
  <2>5. StreamKept' /\ NotifiedAll' /\ EndedAll' /\ BrokenAll'
    BY <2>1 DEF TransferInv, StreamKept, NotifiedAll, EndedAll, BrokenAll, AllOpened
  <2>6. LastSegments'
    <3>1. UNCHANGED <<segments, kernelStream, socket, peer>> /\ peer = "Open"
      BY <2>1
    <3> QED  BY <3>1 DEF TransferInv, LastSegments
  <2> QED  BY <2>4, <2>5, <2>6 DEF TransferInv
<1>27. CASE KernelSegment
  BY <1>27, KernelTransfer
<1>28. CASE SendBreaks
  <2>1. /\ state = "None"
        /\ UNCHANGED <<kind, segments, kernelStream, nHeld, nOpened, nPeerSent, peer, state,
                       socket, destroyed, notified, streamActive, streamEnded>>
    BY <1>28 DEF SendBreaks
  <2> QED  BY <2>1, QuietTransfer
<1>29. CASE SendConnects
  <2>1. /\ state = "None" /\ layer' = "Open" /\ StartStream(MayActivate(kind))
        /\ UNCHANGED <<kind, segments, nPeerSent, peer, nHeld, nOpened, notified>>
    BY <1>29 DEF SendConnects, Connects
  <2>2. ~Stream /\ segments = <<>> /\ kernelStream = "None"
    BY <2>1 DEF NothingBeforeConnected
  <2>3. ~streamEnded' /\ (kernelStream' # "None" => Stream')
    BY <2>1, <2>2 DEF StartStream
  <2>4. nHeld \in Nat /\ nPeerSent \in Nat /\ nHeld <= nPeerSent
    BY NumbersTyped
  <2>5. /\ nHeld' \in Nat /\ nHeld' <= nPeerSent /\ (~Tls' => ~Tls /\ nHeld' = nOpened')
        /\ (notified' => peer # "Open" /\ nHeld' = nPeerSent)
    <3>1. UNCHANGED <<kind, nHeld, nOpened, notified>>
      BY <2>1
    <3> QED  BY <2>4, <3>1 DEF TransferInv, Counted, Tls, NotifiedAll
  <2> QED  BY <2>1, <2>2, <2>3, <2>5, ReadTransfer
<1>30. CASE UNCHANGED vars
  <2>1. UNCHANGED <<kind, segments, kernelStream, nHeld, nOpened, nPeerSent, peer, state, layer,
                    socket, destroyed, notified, streamActive, streamEnded>>
    BY <1>30
  <2> QED  BY <2>1, QuietTransfer
<1> QED  BY <1>1, <1>2, <1>3, <1>4, <1>5, <1>6, <1>7, <1>8, <1>9, <1>10, <1>11, <1>12, <1>13,
    <1>14, <1>15, <1>16, <1>17, <1>18, <1>19, <1>20, <1>21, <1>22, <1>23, <1>24, <1>25, <1>26,
    <1>27, <1>28, <1>29, <1>30 DEF Next, Actor, Application, Environment, ProcessState

-----------------------------------------------------------------------------
(***************************************************************************)
(* The close of the peer.                                                  *)
(***************************************************************************)

\* The sets of states that wait as reports.
SetsOf(q) == {q[i] : i \in DOMAIN q}

\* The peer closed, and a read comes first or the receive stream does.
Justified(states) == "RemoteClosed" \in states => peer # "Open" /\ ("Read" \in states \/ Stream)

\* Wherever a close of the peer waits, the peer closed, and what it sent before is
\* read first or comes by the receive stream.
RemoteJustified ==
  /\ Justified(pending) /\ Justified(before) /\ Justified(deferredClose)
  /\ \A states \in SetsOf(reports) : Justified(states)
  /\ pc = "Enter" => Justified(added)
  /\ "RemoteClosed" \in added => peer # "Open"

\* The process that looks at the close of the peer has read everything before.
ClosesLast ==
  pc = "States" /\ "RemoteClosed" \in added /\ state = "Connected" /\ ~heldQueued =>
    /\ ~(streamActive /\ ~streamEnded)
    /\ "Read" \in added \/ check = "Required" \/ AllOpened

\* An upgrade is required only by the request of the peer.
RequiredSwitch == check = "Required" => switch # 0

\* The reply of the application to the connection.
ReplyTyped == replied \in {"No", "Accepted", "Rejected", "Dropped"}

\* The inductive invariant behind OrderlyCloseKeepsData.
CloseInv ==
  DataInv /\ TransferInv /\ RemoteJustified /\ ClosesLast /\ RequiredSwitch /\ ReplyTyped

\* A report posted adds the set of its states.
LEMMA PostAdds ==
  ASSUME NEW states \in SUBSET NetStates, reports \in Seq(SUBSET NetStates), Post(states)
  PROVE  SetsOf(reports') \subseteq SetsOf(reports) \cup {states}
BY DEF Post, SetsOf

\* A report taken is one of those that waited.
LEMMA TakesReport ==
  ASSUME reports \in Seq(SUBSET NetStates), reports # <<>>
  PROVE  Head(reports) \in SetsOf(reports) /\ SetsOf(Tail(reports)) \subseteq SetsOf(reports)
<1>1. /\ Head(reports) = reports[1] /\ 1 \in DOMAIN reports
      /\ \A i \in DOMAIN Tail(reports) :
           i + 1 \in DOMAIN reports /\ Tail(reports)[i] = reports[i + 1]
  OBVIOUS
<1> QED  BY <1>1 DEF SetsOf

\* The peer does not open again, and a receive stream ends but does not go.
LEMMA Lasts ==
  ASSUME [Next]_vars
  PROVE  (peer # "Open" => peer' # "Open") /\ (Stream => Stream')
<1> USE DEF Stream, vars, upgradeVars, attemptVars, processVars,
        connectionVars, promiseVars, callbackVars, bufferVars, streamVars, latchVars, peerVars,
        dataVars, postVars
<1>1. CASE LeaveReadinessReceive \/ ReceiveConnects \/ WriteConnects \/ SendConnects
  <2>1. UNCHANGED peer
    BY <1>1 DEF LeaveReadinessReceive, ReceiveConnects, WriteConnects, SendConnects
  <2>2. \E may : StartStream(may)
    BY <1>1 DEF LeaveReadinessReceive, ReceiveConnects, WriteConnects, SendConnects,
       CheckHandshake, Connects
  <2>3. Stream => Stream'
    BY <2>2 DEF StartStream
  <2> QED  BY <2>1, <2>3
<1>2. CASE \/ Enter \/ Leave \/ DeferRead \/ ReceiveThrows \/ HandshakeWaits \/ HandshakeFails
           \/ ReceiveSniffed \/ ReceiveDirect \/ ReceiveBuffered \/ ReceiveNothing
           \/ RemoteClosedState \/ ClosedState \/ WriteShutsDown \/ WriteDoesNothing
  <2>1. UNCHANGED <<peer, streamActive, streamEnded>>
    BY <1>2 DEF Enter, Leave, DeferRead, ReceiveThrows, HandshakeWaits, HandshakeFails,
       ReceiveSniffed, ReceiveDirect, ReceiveBuffered, ReceiveNothing, RemoteClosedState,
       ClosedState, WriteShutsDown, WriteDoesNothing
  <2> QED  BY <2>1
<1>3. CASE \/ SetSocket \/ StateAdded \/ TimerRegistered \/ TimerFires \/ TimerPolls
           \/ PollExpires \/ PollInTime \/ OutputSent \/ DisconnectLocal \/ UpgradeProcesses
           \/ LingerRefused \/ LingerTimeout
  <2>1. UNCHANGED <<peer, streamActive, streamEnded>>
    BY <1>3 DEF SetSocket, StateAdded, TimerRegistered, TimerFires, TimerPolls, PollExpires,
       PollInTime, OutputSent, DisconnectLocal, UpgradeProcesses, LingerRefused, LingerTimeout,
       LingerEnds
  <2> QED  BY <2>1
<1>4. CASE ReceiveSegment \/ DrainHeldInput
  <2>1. UNCHANGED peer
    BY <1>4 DEF ReceiveSegment, DrainHeldInput
  <2>2. PICK input : StreamInput(input)
    BY <1>4 DEF ReceiveSegment, DrainHeldInput
  <2>3. CASE socket = "Set"
    <3>1. PICK opens :
            /\ streamActive' = (streamActive /\ ~(input \in {"End", "Error"}) /\ ~notified')
            /\ streamEnded' = (streamEnded \/ input \in {"End", "Error"} \/ notified')
      BY <2>2, <2>3 DEF StreamInput, ReceiveStreamInput
    <3> QED  BY <2>1, <3>1
  <2>4. CASE socket # "Set"
    BY <2>1, <2>2, <2>4 DEF StreamInput, StreamInputWithoutSocket
  <2> QED  BY <2>3, <2>4
<1>5. CASE UpgradeSocket
  <2>1. UNCHANGED peer /\ (UNCHANGED streamVars \/ \E may : StartStream(may))
    BY <1>5 DEF UpgradeSocket
  <2> QED  BY <2>1 DEF StartStream
<1>6. CASE \/ Accept \/ Reject \/ Unsubscribe \/ SendData \/ SendWaits \/ SendBreaks
           \/ CloseUser \/ CloseWithLinger \/ Destroy \/ ReceiveWindowResume
  <2>1. UNCHANGED <<peer, streamActive, streamEnded>>
    BY <1>6 DEF Accept, Reject, Unsubscribe, SendData, SendWaits, SendBreaks, CloseUser, CloseWithLinger, Destroy,
       ReceiveWindowResume
  <2> QED  BY <2>1
<1>7. CASE KernelSegment \/ PeerAnswersHandshake \/ PeerSends \/ PeerCloses \/ PeerResets
  <2>1. UNCHANGED <<streamActive, streamEnded>>
    BY <1>7 DEF KernelSegment, PeerAnswersHandshake, PeerSends, PeerCloses, PeerResets, PeerStep
  <2>2. peer # "Open" => peer' # "Open"
    BY <1>7 DEF KernelSegment, PeerAnswersHandshake, PeerSends, PeerCloses, PeerResets
  <2> QED  BY <2>1, <2>2
<1>8. CASE UNCHANGED vars
  BY <1>8
<1> QED  BY <1>1, <1>2, <1>3, <1>4, <1>5, <1>6, <1>7, <1>8 DEF Next, Actor, Application,
    Environment, ProcessState

\* The socket says that the peer closed with a read before it.
LEMMA GetStateJustified ==
  /\ Justified(GetState)
  /\ GetState \in SUBSET NetStates
  /\ "RemoteClosed" \in GetState => peer # "Open" /\ "Read" \in GetState
BY DEF GetState, Justified, NetStates, CloseStates

\* What reports the end of the connection justifies it.
LEMMA ShutdownAdds ==
  ASSUME reports \in Seq(SUBSET NetStates), Shutdown
  PROVE  \E states \in SUBSET NetStates :
           "RemoteClosed" \notin states /\ SetsOf(reports') \subseteq SetsOf(reports) \cup {states}
<1> DEFINE states == {s \in {"Closed"} : ~shutdownCalled /\ peer # "Open"}
<1>1. states \in SUBSET NetStates /\ "RemoteClosed" \notin states
  BY DEF NetStates, CloseStates
<1>2. Post(states)
  BY DEF Shutdown
<1> HIDE DEF states
<1> QED  BY <1>1, <1>2, PostAdds

\* Every step keeps the close of the peer justified.
LEMMA NextJustified ==
  Before /\ TransferInv /\ RemoteJustified /\ [Next]_vars => RemoteJustified'
<1> SUFFICES ASSUME Before, TransferInv, RemoteJustified, [Next]_vars PROVE RemoteJustified'
    OBVIOUS
<1>0. (peer # "Open" => peer' # "Open") /\ (Stream => Stream')
  BY Lasts
<1>00. /\ reports \in Seq(SUBSET NetStates)
       /\ deferredClose # {} => Stream
  BY DEF Before, IInv, TypeInv, DeferredCloseOwed, Stream
<1> USE <1>0, <1>00 DEF RemoteJustified, Justified, Free, vars, upgradeVars, attemptVars,
        processVars, connectionVars, promiseVars, callbackVars, bufferVars, streamVars, latchVars,
        peerVars, dataVars, postVars
<1>1. CASE Enter
  <2>1. /\ pc' = "States" /\ UNCHANGED <<pending, before, reports, peer>>
        /\ added' \subseteq added
        /\ deferredClose' = deferredClose \/ (deferredClose' \subseteq deferredClose \cup added
                                              /\ streamActive)
    BY <1>1 DEF Enter, MustDefer
  <2> QED  BY <2>1 DEF Stream
<1>2. CASE Leave
  BY <1>2 DEF Leave
<1>3. CASE LeaveReadinessReceive \/ DeferRead \/ HandshakeWaits \/ ReceiveThrows
  <2>1. /\ pc' # "Enter" /\ UNCHANGED <<pending, before, reports>>
        /\ added' \subseteq added
        /\ deferredClose' \in {deferredClose, {}}
    BY <1>3 DEF LeaveReadinessReceive, DeferRead, HandshakeWaits, ReceiveThrows, Handled, Reading,
       DisconnectFatal
  <2> QED  BY <2>1
<1>4. CASE ReceiveConnects \/ WriteConnects
  <2>1. /\ pc' # "Enter" /\ UNCHANGED <<before, deferredClose>>
        /\ added' \subseteq added /\ CheckHandshake
    BY <1>4 DEF ReceiveConnects, WriteConnects, Handled, Reading, AfterSniff, AtWrite
  <2>2. pending' = pending \cup GetState
    BY <2>1 DEF CheckHandshake
  <2>3. PICK states \in SUBSET NetStates : "RemoteClosed" \notin states /\ Post(states)
    <3> DEFINE posted == {s \in {"Read", "Write"} : layer = "Handshake"}
    <3>1. posted \in SUBSET NetStates /\ "RemoteClosed" \notin posted
      BY DEF NetStates
    <3>2. Post(posted)
      BY <2>1 DEF CheckHandshake, Connects
    <3> QED  BY <3>1, <3>2
  <2>4. SetsOf(reports') \subseteq SetsOf(reports) \cup {states}
    BY <2>3, PostAdds
  <2> QED  BY <2>1, <2>2, <2>3, <2>4, GetStateJustified
<1>5. CASE ReceiveSniffed \/ ReceiveDirect \/ ReceiveBuffered
  <2>1. /\ pc' # "Enter" /\ UNCHANGED <<pending, before, reports, deferredClose>>
        /\ added' \subseteq added
    BY <1>5 DEF ReceiveSniffed, ReceiveDirect, ReceiveBuffered, CanRead, Reading, AfterSniff
  <2> QED  BY <2>1
<1>6. CASE HandshakeFails \/ ReceiveNothing
  <2>1. /\ pc' # "Enter" /\ UNCHANGED <<pending, before, deferredClose>>
        /\ added' \subseteq added
        /\ reports' = reports \/ Post({"Closed"})
    BY <1>6 DEF HandshakeFails, ReceiveNothing, Handled, Reading
  <2>2. {"Closed"} \in SUBSET NetStates
    BY DEF NetStates, CloseStates
  <2>3. SetsOf(reports') \subseteq SetsOf(reports) \cup {{"Closed"}}
    BY <2>1, <2>2, PostAdds
  <2> QED  BY <2>1, <2>3
<1>7. CASE RemoteClosedState
  <2>1. /\ pc' # "Enter" /\ before' = before /\ added' \subseteq added
        /\ pending' = pending \/ pending' = pending \cup deferredClose
        /\ deferredClose' \in {deferredClose, {}}
        /\ reports' = reports \/ Shutdown
    BY <1>7 DEF RemoteClosedState, AtClose, Handled, DisconnectFatal, DisconnectGraceful
  <2>2. \E states \in SUBSET NetStates :
          "RemoteClosed" \notin states /\ SetsOf(reports') \subseteq SetsOf(reports) \cup {states}
    BY ZenonT(60), <2>1, ShutdownAdds
  <2> QED  BY <2>1, <2>2
<1>8. CASE ClosedState
  <2>1. /\ pc' # "Enter" /\ UNCHANGED <<pending, before, reports>> /\ added' = {}
        /\ deferredClose' \in {deferredClose, {}}
    BY <1>8 DEF ClosedState, AtClose, DisconnectFatal
  <2> QED  BY <2>1
<1>9. CASE WriteShutsDown \/ OutputSent \/ WriteDoesNothing
  <2>1. /\ pc' = pc /\ UNCHANGED <<pending, before>> /\ added' \subseteq added
        /\ pc = "Enter" => added' = added
        /\ deferredClose' \in {deferredClose, {}}
        /\ reports' = reports \/ Shutdown
    BY <1>9 DEF WriteShutsDown, OutputSent, WriteDoesNothing, AtWrite, Handled, DisconnectFatal
  <2>2. \E states \in SUBSET NetStates :
          "RemoteClosed" \notin states /\ SetsOf(reports') \subseteq SetsOf(reports) \cup {states}
    BY <2>1, ShutdownAdds
  <2> QED  BY <2>1, <2>2
<1>10. CASE SetSocket
  <2>1. /\ UNCHANGED <<pending, reports, deferredClose>> /\ before' = {}
        /\ UNCHANGED <<pc, added>> \/ added' = GetState \cup before
    BY <1>10 DEF SetSocket, StartProcess
  <2> QED  BY <2>1, GetStateJustified
<1>11. CASE StateAdded
  <2>1. /\ UNCHANGED <<pending, deferredClose>> /\ reports' = Tail(reports) /\ reports # <<>>
        /\ before' = before \/ before' = before \cup Head(reports)
        /\ UNCHANGED <<pc, added>> \/ added' = Head(reports)
    BY <1>11 DEF StateAdded, StartProcess
  <2>2. Head(reports) \in SetsOf(reports) /\ SetsOf(reports') \subseteq SetsOf(reports)
    BY <2>1, TakesReport
  <2> QED  BY <2>1, <2>2
<1>12. CASE ReceiveSegment \/ DrainHeldInput
  <2>1. /\ UNCHANGED <<pending, before, reports>>
        /\ UNCHANGED <<pc, added>> \/ added' = deferredClose
        /\ deferredClose' \in {deferredClose, {}}
    <3>1. UNCHANGED <<pending, before, reports>> /\ \E input : StreamInput(input)
      BY <1>12 DEF ReceiveSegment, DrainHeldInput
    <3>2. deferredClose' \in {deferredClose, {}}
      BY ZenonT(60), <3>1 DEF StreamInput, ReceiveStreamInput, StreamInputWithoutSocket, DisconnectFatal
    <3>3. UNCHANGED <<pc, added>> \/ added' = deferredClose
      BY ZenonT(60), <3>1 DEF StreamInput, ReceiveStreamInput, StreamInputWithoutSocket, StartProcess
    <3> QED  BY <3>1, <3>2, <3>3
  <2> QED  BY <2>1
<1>13. CASE TimerFires \/ PollExpires
  <2>1. /\ UNCHANGED <<pc, added, pending, before, reports>>
        /\ deferredClose' \in {deferredClose, {}}
    BY <1>13 DEF TimerFires, PollExpires, DisconnectFatal
  <2> QED  BY <2>1
<1>14. CASE TimerRegistered \/ PollInTime \/ LingerRefused \/ LingerTimeout
  <2>1. UNCHANGED <<pc, added, pending, before, reports, deferredClose>>
    BY <1>14 DEF TimerRegistered, PollInTime, LingerRefused, LingerTimeout, LingerEnds
  <2> QED  BY <2>1
<1>15. CASE TimerPolls \/ UpgradeProcesses
  <2>1. /\ UNCHANGED <<pending, before, reports, deferredClose>>
        /\ UNCHANGED <<pc, added>> \/ added' \in {GetState, {"Read"}}
    BY <1>15 DEF TimerPolls, UpgradeProcesses, StartProcess
  <2> QED  BY <2>1, GetStateJustified
<1>16. CASE DisconnectLocal
  <2>1. /\ pc' = "Idle" \/ added' = deferredClose
        /\ added' \in {added, deferredClose}
        /\ UNCHANGED <<pending, before>>
        /\ deferredClose' \in {deferredClose, {}}
        /\ reports' = reports \/ Shutdown
    <3>1. \/ DisconnectFatal(<<>>) /\ pc' = "Idle" /\ UNCHANGED <<added, reports>>
          \/ DisconnectGraceful("Local", <<>>) /\ added' = deferredClose
      BY <1>16 DEF DisconnectLocal
    <3>2. UNCHANGED <<pending, before>>
      BY <1>16 DEF DisconnectLocal
    <3>3. DisconnectFatal(<<>>) => deferredClose' \in {deferredClose, {}}
      BY DEF DisconnectFatal
    <3>4. DisconnectGraceful("Local", <<>>) =>
            deferredClose' = {} /\ (reports' = reports \/ Shutdown)
      BY DEF DisconnectGraceful
    <3> QED  BY <3>1, <3>2, <3>3, <3>4
  <2>2. \E states \in SUBSET NetStates :
          "RemoteClosed" \notin states /\ SetsOf(reports') \subseteq SetsOf(reports) \cup {states}
    <3>1. CASE reports' = reports
      <4>1. {} \in SUBSET NetStates /\ "RemoteClosed" \notin {}
        OBVIOUS
      <4>2. SetsOf(reports') \subseteq SetsOf(reports) \cup {{}}
        BY <3>1
      <4> QED  BY <4>1, <4>2
    <3>2. CASE Shutdown
      BY <3>2, ShutdownAdds
    <3> QED  BY <2>1, <3>1, <3>2
  <2>3. /\ Justified(pending)' /\ Justified(before)' /\ Justified(deferredClose)'
        /\ \A states \in SetsOf(reports)' : Justified(states)'
    BY <2>1, <2>2
  <2>4. (pc' = "Enter" => Justified(added)') /\ ("RemoteClosed" \in added' => peer' # "Open")
    <3>1. CASE added' = deferredClose
      BY <3>1
    <3>2. CASE pc' = "Idle" /\ added' = added
      BY <3>2
    <3> QED  BY <2>1, <3>1, <3>2
  <2> QED  BY <2>3, <2>4
<1>17. CASE \/ Accept \/ Reject \/ Unsubscribe \/ SendData \/ SendWaits
            \/ CloseUser \/ CloseWithLinger
  <2>1. /\ UNCHANGED <<added, pending, before, reports, deferredClose>>
        /\ pc' = pc \/ pc' = "Closing"
    BY <1>17 DEF Accept, Reject, Unsubscribe, SendData, SendWaits, CloseUser, CloseWithLinger,
       Close
  <2> QED  BY <2>1
<1>18. CASE UpgradeSocket
  <2>1. /\ UNCHANGED <<pending, before, deferredClose>>
        /\ UNCHANGED <<pc, added>> \/ added' = GetState
    BY <1>18 DEF UpgradeSocket, StartProcess
  <2>2. \E states \in SUBSET NetStates : "RemoteClosed" \notin states /\ Post(states)
    <3>1. /\ {"Read", "Write"} \in SUBSET NetStates
          /\ \A broken \in BOOLEAN : {s \in {"Closed"} : broken} \in SUBSET NetStates
      BY DEF NetStates, CloseStates
    <3>2. Post({"Read", "Write"}) \/ \E broken \in BOOLEAN : Post({s \in {"Closed"} : broken})
      BY <1>18 DEF UpgradeSocket
    <3> QED  BY <3>1, <3>2
  <2>3. \E states \in SUBSET NetStates :
          "RemoteClosed" \notin states /\ SetsOf(reports') \subseteq SetsOf(reports) \cup {states}
    BY <2>2, PostAdds
  <2> QED  BY <2>1, <2>3, GetStateJustified
<1>19. CASE Destroy
  <2>1. UNCHANGED <<pc, added, pending, before, deferredClose>> /\ SetsOf(reports') = {}
    BY <1>19 DEF Destroy, SetsOf
  <2> QED  BY <2>1
<1>20. CASE ReceiveWindowResume \/ KernelSegment
  <2>1. UNCHANGED <<pc, added, pending, before, reports, deferredClose>>
    BY <1>20 DEF ReceiveWindowResume, KernelSegment
  <2> QED  BY <2>1
<1>21. CASE PeerAnswersHandshake \/ PeerSends \/ PeerResets
  <2>1. /\ UNCHANGED <<pc, added, pending, before, deferredClose>>
        /\ \E states \in {{"Read"}, {}, {"Closed"}} : Post(states)
    BY <1>21 DEF PeerAnswersHandshake, PeerSends, PeerResets, PeerStep, ReadEdge
  <2>2. \A states \in {{"Read"}, {}, {"Closed"}} :
          states \in SUBSET NetStates /\ "RemoteClosed" \notin states
    BY DEF NetStates, CloseStates
  <2>3. \E states \in SUBSET NetStates :
          "RemoteClosed" \notin states /\ SetsOf(reports') \subseteq SetsOf(reports) \cup {states}
    BY <2>1, <2>2, PostAdds
  <2> QED  BY <2>1, <2>3
<1>22. CASE PeerCloses
  <2> DEFINE states == {"RemoteClosed"} \cup ReadEdge \cup {s \in {"Closed"} : shutdownCalled}
  <2>1. /\ UNCHANGED <<pc, added, pending, before, deferredClose>>
        /\ peer' # "Open" /\ Post(states)
    BY <1>22 DEF PeerCloses, PeerStep
  <2>2. states \in SUBSET NetStates /\ ("Read" \in states \/ Stream)
    BY DEF NetStates, CloseStates, ReadEdge, TransferInv, StreamKept
  <2>3. PICK posted \in SUBSET NetStates : posted = states
    BY <2>2
  <2>4. SetsOf(reports') \subseteq SetsOf(reports) \cup {posted}
    BY <2>1, <2>3, PostAdds
  <2> HIDE DEF states
  <2> QED  BY <2>1, <2>2, <2>3, <2>4
<1>23. CASE SendBreaks
  <2>1. UNCHANGED <<pc, added, pending, before, deferredClose>> /\ Post({"Closed"})
    BY <1>23 DEF SendBreaks
  <2>2. {"Closed"} \in SUBSET NetStates
    BY DEF NetStates, CloseStates
  <2>3. SetsOf(reports') \subseteq SetsOf(reports) \cup {{"Closed"}}
    BY <2>1, <2>2, PostAdds
  <2> QED  BY <2>1, <2>3
<1>24. CASE SendConnects
  <2>1. /\ UNCHANGED <<pending, before, deferredClose>>
        /\ UNCHANGED <<pc, added>> \/ added' = GetState
    BY <1>24 DEF SendConnects, StartProcess
  <2>2. PICK states \in SUBSET NetStates : "RemoteClosed" \notin states /\ Post(states)
    <3> DEFINE posted == {s \in {"Read", "Write"} : layer = "Handshake"}
    <3>1. posted \in SUBSET NetStates /\ "RemoteClosed" \notin posted
      BY DEF NetStates
    <3>2. Post(posted)
      BY <1>24 DEF SendConnects, Connects
    <3> QED  BY <3>1, <3>2
  <2>3. SetsOf(reports') \subseteq SetsOf(reports) \cup {states}
    BY <2>2, PostAdds
  <2> QED  BY <2>1, <2>2, <2>3, GetStateJustified
<1>25. CASE UNCHANGED vars
  <2>1. UNCHANGED <<pc, added, pending, before, reports, deferredClose>>
    BY <1>25
  <2> QED  BY <2>1
<1> QED  BY <1>1, <1>2, <1>3, <1>4, <1>5, <1>6, <1>7, <1>8, <1>9, <1>10, <1>11, <1>12, <1>13,
    <1>14, <1>15, <1>16, <1>17, <1>18, <1>19, <1>20, <1>21, <1>22, <1>23, <1>24, <1>25
    DEF Next, Actor, Application, Environment, ProcessState

\* All the peer sent stays opened once it closed, while the process looks at it.
LEMMA OpenedStays ==
  ASSUME Before, RemoteJustified, "RemoteClosed" \in added, UNCHANGED <<nOpened, nPeerSent>>,
         peer # "Open" => peer' # "Open", AllOpened
  PROVE  AllOpened'
BY DEF AllOpened

\* Every step keeps the order of the close of the peer behind what it sent.
LEMMA NextClosesLast ==
  Before /\ TransferInv /\ RemoteJustified /\ ClosesLast /\ [Next]_vars => ClosesLast'
<1> SUFFICES ASSUME Before, TransferInv, RemoteJustified, ClosesLast, [Next]_vars,
                    pc' = "States", "RemoteClosed" \in added', state' = "Connected", ~heldQueued'
             PROVE  /\ ~(streamActive' /\ ~streamEnded')
                    /\ "Read" \in added' \/ check' = "Required" \/ AllOpened'
    BY DEF ClosesLast
<1>0. (peer # "Open" => peer' # "Open") /\ (Stream => Stream')
  BY Lasts
<1>00. /\ pc = "States" => ~destroyed
       /\ layer = "Handshake" => state # "Connected"
       /\ shutdownCalled => state = "Disconnected"
       /\ pc = "Enter" => Justified(added)
       /\ "RemoteClosed" \in added => peer # "Open"
       /\ state = "None" => ~streamActive /\ ~streamEnded
  BY DEF Before, LogInv, DisconnectTold, FlowInv, HandshakeFirst, IInv, ShutDrained,
     RemoteJustified, NothingBeforeConnected
<1> USE <1>0, <1>00 DEF Stream, Free, vars, upgradeVars, attemptVars, processVars,
        connectionVars, promiseVars, callbackVars, bufferVars, streamVars, latchVars, peerVars,
        dataVars, postVars
<1>1. CASE Enter
  <2>1. /\ pc = "Enter" /\ UNCHANGED <<streamActive, streamEnded, state, nOpened, nPeerSent, peer,
                                       destroyed>>
        /\ added' \in {added, {}, added \ CloseStates}
        /\ MustDefer /\ socket = "Set" => added' = added \ CloseStates
    BY <1>1 DEF Enter
  <2>2. added' = added /\ ~MustDefer
    BY <2>1, <1>1 DEF CloseStates, Enter
  <2>3. ~(streamActive /\ ~streamEnded)
    BY <2>1, <2>2 DEF MustDefer
  <2>4. "Read" \in added \/ streamEnded
    BY <2>1, <2>2, <2>3 DEF Justified
  <2>5. streamEnded => AllOpened
    <3>1. ~destroyed
      BY <2>1 DEF Before, LogInv, DisconnectTold
    <3> QED  BY <2>1, <3>1 DEF TransferInv, EndedAll
  <2>6. AllOpened => AllOpened'
    BY <2>1 DEF AllOpened
  <2> QED  BY <2>1, <2>2, <2>3, <2>4, <2>5, <2>6
<1>2. CASE LeaveReadinessReceive
  <2>1. /\ StartStream(TRUE) /\ pc = "States" /\ "RemoteClosed" \in added
        /\ UNCHANGED <<state, nOpened, nPeerSent, peer, check, destroyed>>
    BY <1>2 DEF LeaveReadinessReceive, Handled
  <2>2. UNCHANGED <<streamActive, streamEnded, heldQueued>> /\ Stream
    BY <2>1 DEF StartStream
  <2>3. streamEnded /\ ~(streamActive /\ ~streamEnded)
    BY <2>1, <2>2 DEF ClosesLast
  <2>4. AllOpened
    BY <2>1, <2>3 DEF TransferInv, EndedAll
  <2>5. AllOpened'
    BY <2>1, <2>4 DEF AllOpened
  <2> QED  BY <2>2, <2>3, <2>5
<1>3. CASE DeferRead
  <2>1. check' = "Required" /\ ~Stream /\ UNCHANGED <<streamActive, streamEnded>>
    BY <1>3 DEF DeferRead, WaitsForUpgrade, LeavesReadiness
  <2> QED  BY <2>1
<1>4. CASE ReceiveConnects
  <2>1. /\ state = "None" /\ StartStream(MayActivate(kind)) /\ "Read" \in added
    BY <1>4 DEF ReceiveConnects, CheckHandshake, Connects, Reading
  <2>2. ~streamActive'
    BY <2>1 DEF StartStream
  <2>3. "Read" \in added' \/ check' = "Required"
    BY <1>4, <2>1 DEF ReceiveConnects, AfterSniff
  <2> QED  BY <2>2, <2>3
<1>5. CASE ReceiveSniffed \/ ReceiveDirect \/ ReceiveBuffered
  <2>1. /\ Reading /\ UNCHANGED <<streamActive, streamEnded>>
        /\ added' = added \/ AfterSniff
    BY <1>5 DEF ReceiveSniffed, ReceiveDirect, ReceiveBuffered, CanRead
  <2>2. ~Stream /\ "Read" \in added
    BY <2>1 DEF Reading, LeavesReadiness
  <2> QED  BY <2>1, <2>2 DEF AfterSniff
<1>6. CASE HandshakeWaits \/ HandshakeFails
  <2>1. layer = "Handshake" /\ state' = state
    BY <1>6 DEF HandshakeWaits, HandshakeFails
  <2> QED  BY <2>1
<1>7. CASE ReceiveNothing
  <2>1. /\ Reading /\ UNCHANGED <<streamActive, streamEnded, state, nOpened, nPeerSent, peer>>
        /\ ReadsNothing \/ nOpened = nPeerSent
        /\ added' = added \ {"Read"}
    BY <1>7 DEF ReceiveNothing, Handled
  <2>2. ~Stream /\ peer # "Open"
    BY <2>1 DEF Reading, LeavesReadiness
  <2>3. AllOpened
    BY <2>1, <2>2 DEF AllOpened, ReadsNothing, TransferInv, BrokenAll
  <2>4. AllOpened'
    BY <2>1, <2>3 DEF AllOpened
  <2> QED  BY <2>1, <2>2, <2>4
<1>8. CASE RemoteClosedState \/ ClosedState \/ WriteShutsDown \/ WriteDoesNothing \/ WriteConnects
  <2>1. "RemoteClosed" \notin added'
    BY <1>8 DEF RemoteClosedState, ClosedState, WriteShutsDown, WriteDoesNothing, WriteConnects,
       AtClose, AtWrite, Handled
  <2> QED  BY <2>1
<1>9. CASE \/ SetSocket \/ StateAdded \/ TimerRegistered \/ TimerFires \/ TimerPolls
           \/ PollExpires \/ PollInTime \/ DisconnectLocal \/ UpgradeProcesses
  <2>1. pc' # "States"
    BY <1>9 DEF SetSocket, StateAdded, TimerRegistered, TimerFires, TimerPolls, PollExpires,
       PollInTime, DisconnectLocal, UpgradeProcesses, StartProcess
  <2> QED  BY <2>1
<1>10. CASE ReceiveThrows \/ OutputSent
  <2>1. DisconnectFatal(<<>>) \/ pc' # "States"
    BY <1>10 DEF ReceiveThrows, OutputSent
  <2> QED  BY <2>1, FatalKeeps DEF Before, IInv
<1>11. CASE ReceiveSegment \/ DrainHeldInput
  <2>1. pc = "Idle" /\ \E input : StreamInput(input)
    BY <1>11 DEF ReceiveSegment, DrainHeldInput
  <2>2. pc' # "States"
    BY <2>1 DEF StreamInput, ReceiveStreamInput, StreamInputWithoutSocket, StartProcess
  <2> QED  BY <2>2
<1>12. CASE \/ Accept \/ Reject \/ Unsubscribe \/ SendData \/ SendWaits \/ SendBreaks
            \/ SendConnects \/ UpgradeSocket \/ CloseUser \/ CloseWithLinger \/ Destroy \/ Leave
  <2>1. pc' # "States"
    BY <1>12 DEF Accept, Reject, Unsubscribe, SendData, SendWaits, SendBreaks, SendConnects,
       MaySend, UpgradeSocket, CloseUser, CloseWithLinger, Destroy, Close, StartProcess, Leave
  <2> QED  BY <2>1
<1>13. CASE \/ LingerRefused \/ LingerTimeout \/ ReceiveWindowResume \/ KernelSegment
            \/ PeerAnswersHandshake \/ PeerCloses \/ PeerResets \/ UNCHANGED vars
  <2>1. UNCHANGED <<pc, added, state, heldQueued, streamActive, streamEnded, check, nOpened,
                    nPeerSent>>
    BY <1>13 DEF LingerRefused, LingerTimeout, LingerEnds, ReceiveWindowResume, KernelSegment,
       PeerAnswersHandshake, PeerCloses, PeerResets, PeerStep
  <2>2. AllOpened => AllOpened'
    BY <2>1 DEF AllOpened
  <2> QED  BY <2>1, <2>2 DEF ClosesLast
<1>14. CASE PeerSends
  <2>1. peer = "Open" /\ added' = added
    BY <1>14 DEF PeerSends, PeerStep
  <2> QED  BY <2>1
<1> QED  BY <1>1, <1>2, <1>3, <1>4, <1>5, <1>6, <1>7, <1>8, <1>9, <1>10, <1>11, <1>12, <1>13,
    <1>14 DEF Next, Actor, Application, Environment, ProcessState

\* Every step keeps the request that an upgrade is required by.
LEMMA NextRequired == Before /\ RequiredSwitch /\ [Next]_vars => RequiredSwitch'
<1> SUFFICES ASSUME Before, RequiredSwitch, [Next]_vars PROVE RequiredSwitch'
    OBVIOUS
<1>0. nOpened \in Nat
  BY DEF Before, LogInv, LogTyped
<1> USE DEF RequiredSwitch, vars, upgradeVars, peerVars
<1>1. CASE ReceiveConnects \/ ReceiveSniffed
  <2>1. switch' = switch
    BY <1>1 DEF ReceiveConnects, ReceiveSniffed
  <2>2. check' = check \/ \E now : Sniff(nOpened + 1, now)
    BY <1>1 DEF ReceiveConnects, ReceiveSniffed
  <2>3. check' \in {check, "None"} \/ (nOpened + 1 = switch)
    BY <2>2 DEF Sniff
  <2> QED  BY <1>0, <2>1, <2>3
<1>2. CASE RemoteClosedState \/ ClosedState \/ Unsubscribe \/ UpgradeSocket
  <2>1. switch' = switch /\ check' \in {check, "None"}
    BY <1>2 DEF RemoteClosedState, ClosedState, Unsubscribe, UpgradeSocket, FlushBeforeClose
  <2> QED  BY <2>1
<1>3. CASE ~(\/ ReceiveConnects \/ ReceiveSniffed \/ RemoteClosedState \/ ClosedState
             \/ Unsubscribe \/ UpgradeSocket)
  <2>1. UNCHANGED <<switch, check>>
    BY <1>3 DEF Next, Actor, Application, Environment, ProcessState, Enter, Leave,
       LeaveReadinessReceive, DeferRead, ReceiveThrows, HandshakeWaits, HandshakeFails,
       ReceiveDirect, ReceiveBuffered, ReceiveNothing, WriteConnects, WriteShutsDown,
       WriteDoesNothing, SetSocket, StateAdded, ReceiveSegment, DrainHeldInput,
       TimerRegistered, TimerFires, TimerPolls, PollExpires, PollInTime, OutputSent,
       DisconnectLocal, UpgradeProcesses, LingerRefused, LingerTimeout, LingerEnds, Accept,
       Reject, SendData, SendWaits, SendBreaks, SendConnects, CloseUser, CloseWithLinger,
       Destroy, ReceiveWindowResume, KernelSegment, PeerAnswersHandshake, PeerSends, PeerCloses, PeerResets, PeerStep
  <2> QED  BY <2>1
<1> QED  BY <1>1, <1>2, <1>3

\* Every step keeps the reply one of those the application can give.
LEMMA NextReplied == ReplyTyped /\ [Next]_vars => ReplyTyped'
<1> SUFFICES ASSUME ReplyTyped, [Next]_vars PROVE ReplyTyped'
    OBVIOUS
<1> USE DEF ReplyTyped, vars, callbackVars
<1>1. CASE Accept \/ Reject \/ Unsubscribe
  BY <1>1 DEF Accept, Reject, Unsubscribe
<1>2. CASE ReceiveSegment \/ DrainHeldInput
  <2>1. \E input : StreamInput(input)
    BY <1>2 DEF ReceiveSegment, DrainHeldInput
  <2>2. UNCHANGED replied
    BY ZenonT(60), <2>1 DEF StreamInput, ReceiveStreamInput, StreamInputWithoutSocket, DisconnectFatal
  <2> QED  BY <2>2
<1>3. CASE \/ ReceiveThrows \/ TimerFires \/ PollExpires \/ OutputSent \/ WriteShutsDown
           \/ ClosedState \/ RemoteClosedState \/ DisconnectLocal
  <2>1. \/ UNCHANGED replied \/ \E units : DisconnectFatal(units)
        \/ \E status, units : DisconnectGraceful(status, units)
    BY <1>3 DEF ReceiveThrows, TimerFires, PollExpires, OutputSent, WriteShutsDown, ClosedState,
       RemoteClosedState, DisconnectLocal
  <2>2. UNCHANGED replied
    BY <2>1 DEF DisconnectFatal, DisconnectGraceful
  <2> QED  BY <2>2
<1>4. CASE ~(\/ Accept \/ Reject \/ Unsubscribe \/ ReceiveSegment \/ DrainHeldInput
             \/ ReceiveThrows \/ TimerFires \/ PollExpires \/ OutputSent \/ WriteShutsDown
             \/ ClosedState \/ RemoteClosedState \/ DisconnectLocal)
  <2>1. UNCHANGED replied
    BY <1>4 DEF Next, Actor, Application, Environment, ProcessState, Enter, Leave,
       LeaveReadinessReceive, DeferRead, ReceiveConnects, HandshakeWaits, HandshakeFails,
       ReceiveSniffed, ReceiveDirect, ReceiveBuffered, ReceiveNothing, WriteConnects,
       WriteDoesNothing, SetSocket, StateAdded, TimerRegistered, TimerPolls, PollInTime,
       UpgradeProcesses, LingerRefused, LingerTimeout, LingerEnds, SendData, SendWaits,
       SendBreaks, SendConnects, UpgradeSocket, CloseUser, CloseWithLinger, Destroy, ReceiveWindowResume, KernelSegment,
       PeerAnswersHandshake, PeerSends, PeerCloses, PeerResets, PeerStep
  <2> QED  BY <2>1
<1> QED  BY <1>1, <1>2, <1>3, <1>4

\* A connection starts without close, stream or upgrade.
LEMMA InitClose ==
  Init => TransferInv /\ RemoteJustified /\ ClosesLast /\ RequiredSwitch /\ ReplyTyped
<1> SUFFICES ASSUME Init
             PROVE  TransferInv /\ RemoteJustified /\ ClosesLast /\ RequiredSwitch /\ ReplyTyped
    OBVIOUS
<1>1. /\ socket = "Coming" /\ state = "None" /\ pc = "Idle" /\ kernelStream = "None"
      /\ segments = <<>> /\ nHeld = 0 /\ nOpened = 0 /\ nPeerSent = 0 /\ notified = FALSE
      /\ streamEnded = FALSE /\ added = {} /\ pending = {} /\ before = {} /\ deferredClose = {}
      /\ reports = <<>> /\ replied = "No"
  BY DEF Init
<1>11. check \in {"None", "Sniffing"}
  BY LifecycleAssumption DEF Init
<1>2. nPosted = 0
  <2>1. segments \in Seq(Segments)
    BY <1>1
  <2>2. Cardinality(DataIn(segments)) = 0
    BY <1>1, <2>1, DataCounts
  <2>3. nPosted = nHeld + Cardinality(DataIn(segments))
    BY DEF nPosted, DataIn
  <2> QED  BY <1>1, <2>2, <2>3
<1>3. TransferInv
  BY <1>1, <1>2 DEF TransferInv, SocketKept, StreamKept, Counted, LastSegments, NotifiedAll,
     EndedAll, BrokenAll
<1>4. RemoteJustified /\ ClosesLast /\ RequiredSwitch /\ ReplyTyped
  BY <1>1, <1>11 DEF ReplyTyped, RemoteJustified, Justified, SetsOf, ClosesLast, RequiredSwitch
<1> QED  BY <1>3, <1>4

\* An orderly close is told by the process that looks at the close of the peer,
\* with all that the buffers still hold.
LEMMA CloseTellsAll ==
  ASSUME CloseInv, [Next]_vars, closeCalled = "None", closeCalled' = "Normal", ~heldQueued
  PROVE  AllTold'
<1>0. /\ IInv /\ LogInv /\ FlowInv /\ NothingMissing /\ Before
      /\ ClosesLast /\ RequiredSwitch /\ QuietWhileChecked
  BY DEF CloseInv, DataInv, Before, IInv
<1>1. RemoteClosedState /\ state = "Connected" /\ DisconnectGraceful("Normal", FlushedUnits)
  <2> USE DEF vars, callbackVars
  <2>1. ASSUME NEW units PROVE DisconnectFatal(units) => closeCalled' # "Normal"
    BY DEF DisconnectFatal
  <2>2. DisconnectGraceful("Local", <<>>) => closeCalled' # "Normal"
    BY DEF DisconnectGraceful
  <2>3. CASE RemoteClosedState
    <3>1. \/ state = "Disconnected" /\ UNCHANGED callbackVars
          \/ DisconnectFatal(FlushedUnits)
          \/ DisconnectGraceful("Normal", FlushedUnits)
      BY <2>3 DEF RemoteClosedState, promiseVars
    <3>2. DisconnectGraceful("Normal", FlushedUnits)
      BY <2>1, <3>1
    <3>3. state = "Connected"
      BY <3>2 DEF DisconnectGraceful
    <3> QED  BY <2>3, <3>2, <3>3
  <2>4. CASE \/ ReceiveThrows \/ TimerFires \/ PollExpires \/ OutputSent
             \/ WriteShutsDown \/ ClosedState
    <3>1. UNCHANGED closeCalled \/ \E units : DisconnectFatal(units)
      BY <2>4 DEF ReceiveThrows, TimerFires, PollExpires, OutputSent, WriteShutsDown, ClosedState,
         promiseVars
    <3> QED  BY <2>1, <3>1
  <2>5. CASE DisconnectLocal
    BY <2>1, <2>2, <2>5 DEF DisconnectLocal
  <2>6. CASE ReceiveSegment \/ DrainHeldInput
    <3>1. UNCHANGED closeCalled \/ \E units : DisconnectFatal(units)
      BY <2>6 DEF ReceiveSegment, DrainHeldInput, StreamInput, ReceiveStreamInput,
         StreamInputWithoutSocket
    <3> QED  BY <2>1, <3>1
  <2>7. CASE ~(\/ RemoteClosedState \/ ReceiveThrows \/ TimerFires \/ PollExpires \/ OutputSent
               \/ WriteShutsDown \/ ClosedState \/ DisconnectLocal \/ ReceiveSegment
               \/ DrainHeldInput)
    <3>1. UNCHANGED closeCalled
      BY <2>7 DEF Next, Actor, Application, Environment, ProcessState, Enter, Leave,
         LeaveReadinessReceive, DeferRead, ReceiveConnects, HandshakeWaits, HandshakeFails,
         ReceiveSniffed, ReceiveDirect, ReceiveBuffered, ReceiveNothing, WriteConnects,
         WriteDoesNothing, SetSocket, StateAdded, TimerRegistered, TimerPolls, PollInTime,
         UpgradeProcesses, LingerRefused, LingerTimeout, LingerEnds, Accept, Reject, Unsubscribe,
         SendData, SendWaits, SendBreaks, SendConnects, UpgradeSocket, CloseUser,
         CloseWithLinger, Destroy, ReceiveWindowResume, KernelSegment, PeerAnswersHandshake, PeerSends, PeerCloses, PeerResets, PeerStep
    <3> QED  BY <3>1
  <2> QED  BY <2>3, <2>4, <2>5, <2>6, <2>7
<1>2. /\ pc = "States" /\ "RemoteClosed" \in added /\ "Read" \notin added
      /\ FlushBeforeClose /\ UNCHANGED <<switch, replied, nPeerSent>>
  BY <1>1 DEF RemoteClosedState, AtClose, DisconnectGraceful, peerVars
<1>3. FlushedUnits \in Seq(Units)
  BY <1>0, <1>1, FlushKeeps DEF RemoteClosedState, FlushedUnits
<1>4. Tells(FlushedUnits)
  BY <1>0, <1>1, <1>3, GracefulTells DEF FlowInv
<1>5. CASE replied \notin {"No", "Accepted"}
  <2>1. replied \in {"Rejected", "Dropped"}
    BY <1>5 DEF CloseInv, ReplyTyped
  <2> QED  BY <1>2, <2>1 DEF AllTold
<1>6. CASE replied \in {"No", "Accepted"}
  <2>1. Heard
    BY <1>1, <1>6 DEF Heard
  <2>2. incoming = <<>> /\ receiveData = <<>>
        /\ (check = "Required" \/ check = "None" => upgradeData = <<>>)
    BY <1>0, <1>1, <1>2, <1>6 DEF FlowInv, Buffers
  <2>3. upgradeData \in Seq(Units) /\ check \in {"None", "Sniffing", "Required"}
    BY <1>0 DEF LogInv, LogTyped, FlowInv, KindTyped
  <2>4. Held = upgradeData /\ FlushedUnits = upgradeData
    <3>1. Held = upgradeData
      BY <2>2, <2>3, Joins DEF Held
    <3>2. FlushedUnits = upgradeData
      <4>1. SniffedOut = upgradeData
        BY <2>2, <2>3 DEF SniffedOut
      <4> QED  BY <1>1, <2>2, <2>3, <4>1, Joins DEF FlushedUnits
    <3> QED  BY <3>1, <3>2
  <2>5. Told' = FirstUnits(nOpened)
    BY <1>0, <1>4, <1>6, <2>1, <2>4 DEF Tells, NothingMissing, Received
  <2>6. Len(Told') = nOpened /\ nOpened \in Nat
    <3>1. nOpened \in Nat
      BY <1>0 DEF LogInv, LogTyped
    <3> QED  BY <2>5, <3>1, FirstUnitsGrow
  <2>7. check' = IF check = "Sniffing" THEN "None" ELSE check
    BY <1>1, <1>2 DEF FlushBeforeClose
  <2>8. check = "Required" \/ AllOpened
    BY <1>0, <1>1, <1>2 DEF ClosesLast
  <2>9. Owed' = nOpened
    <3>1. CASE check = "Required"
      <4>1. nOpened = switch
        BY <1>0, <1>1, <1>6, <3>1 DEF RequiredSwitch, QuietWhileChecked, FlowInv, SwitchLast
      <4> QED  BY <1>2, <2>7, <3>1, <4>1 DEF Owed
    <3>2. CASE check # "Required"
      <4>1. check' # "Required" /\ nOpened = nPeerSent
        BY <2>7, <2>8, <3>2 DEF AllOpened
      <4> QED  BY <1>2, <4>1 DEF Owed
    <3> QED  BY <3>1, <3>2
  <2>10. PICK told \in Seq(Units) : told = Told'
    BY <2>5, <2>6, FirstUnitsGrow
  <2> QED  BY <2>6, <2>9 DEF AllTold
<1> QED  BY <1>5, <1>6

\* OrderlyCloseKeepsData: an orderly close of the peer is told after all it sent.
THEOREM OrderlyCloseKeepsAll == Spec => OrderlyCloseKeepsData
<1>1. Init => CloseInv
  BY InitIInv, InitLog, InitFlow, InitClose DEF CloseInv, DataInv
<1>2. CloseInv /\ [Next]_vars => CloseInv'
  BY NextIInv, NextLog, NextFlow, NextMissing, NextTransfer, NextJustified, NextClosesLast,
     NextRequired, NextReplied DEF CloseInv, DataInv, Before
<1>3. CloseInv /\ [Next]_vars =>
        [closeCalled = "None" /\ closeCalled' = "Normal" /\ ~heldQueued => AllTold']_vars
  BY CloseTellsAll
<1> QED  BY <1>1, <1>2, <1>3, PTL DEF Spec, OrderlyCloseKeepsData
=============================================================================

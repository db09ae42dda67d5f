------------------------ MODULE AsyncSocketLifecycle ------------------------
(***************************************************************************)
(* The life of a connection in CAsyncSocketActor: the hand-over of the     *)
(* socket, the handshake, the reply of the application, receives on        *)
(* readiness and as a stream, state reports and their deferral, graceful   *)
(* and fatal disconnects, close with linger, the upgrade of a socket, the  *)
(* inactivity timer and destruction.  The send side is two numbers here,   *)
(* the messages that wait for a handshake and those written to the output  *)
(* and not yet sent; AsyncSocketSend models it.                            *)
(*                                                                         *)
(* The peer sends units of data numbered 1, 2, ...; a unit is a TLS record *)
(* or what one read of a plain socket returns.  State reports and stream   *)
(* segments are posted from other threads, each kind in order, the two     *)
(* kinds in any order relative to each other.                              *)
(*                                                                         *)
(* A handler of the actor is one step, except fp_ProcessState and a local  *)
(* fp_Disconnect: pc says what the running handler does next, and no other *)
(* handler starts before it is "Idle" again.                               *)
(***************************************************************************)
EXTENDS Naturals, Sequences, FiniteSets

CONSTANTS
  Kinds,        \* plain or TLS sockets, which receive on readiness or as a stream
  Checks,       \* whether plain connections start with an upgrade check
  Timers,       \* initial states of the inactivity timer
  BufferUnits,  \* units that fill a buffer of received data
  Limit,        \* segments the receive window admits, m_nLimitBytes
  Unsubscribes, \* bound: whether the application may drop its subscription
  MaxData,      \* bound: units the peer sends
  MaxOutput     \* bound: messages queued at once, written or not

ASSUME LifecycleAssumption ==
  /\ Kinds \subseteq {"PlainReadiness", "PlainStream", "TlsReadiness", "TlsStream"}
  /\ Checks \subseteq {"None", "Sniffing"} /\ "None" \in Checks
  /\ Timers \subseteq {"Off", "Registering"}
  /\ BufferUnits \in Nat \ {0}
  /\ Limit \in Nat \ {0}
  /\ Unsubscribes \in BOOLEAN
  /\ MaxData \in Nat
  /\ MaxOutput \in Nat

VARIABLES
  kind,                \* of the socket
  switch,              \* the unit in which the peer asks to go on with TLS, or 0
  check,               \* "Sniffing" with an m_fCheckUpgrade, m_bUpgradeRequired
  upgradeData,         \* m_UpgradeCheckData
  deferredRead,        \* m_DeferredTCPState
  pc,                  \* where the running handler is
  added,               \* what is left of _StateAdded of fp_ProcessStateNow
  pending,             \* m_PendingProcessState
  caller,              \* who called fp_ProcessState and goes on after it
  socket,              \* m_pSocket: not handed over yet, set, dropped
  layer,               \* mp_State of the transport
  state,               \* m_State
  shutdownCalled,      \* m_bShutdownCalled
  nUnwritten,          \* m_PendingMessages: queued before the handshake is done
  nOutput,             \* messages written to the output and not yet sent
  lost,                \* history: written messages were dropped
  timer,               \* the inactivity timer
  finish,              \* m_FinishConnectionPromise
  upgrade,             \* m_UpgradeSocketPromise
  closePromise,        \* m_ClosePromise
  linger,              \* outcome of f_CloseWithLinger
  refused,             \* its f_Close answered with an error, not handled yet
  replied,             \* the reply to the connection; "No" is m_bDeferringCallbacks
  deferredData,        \* m_DeferredOnReciveData
  closeCalled,         \* m_bOnCloseCalled, with the status it was called with
  calls,               \* history: the callbacks called, units and CloseCall
  incoming,            \* m_IncomingData
  receiveData,         \* m_ReceiveData
  streamActive,        \* m_bReceiveStreamActive
  streamEnded,         \* m_bReceiveStreamEnded
  heldQueued,          \* an fp_DrainHeldInput is queued
  deferredClose,       \* m_DeferredCloseStates
  before,              \* m_StateBeforeSocket
  destroyed,
  peer,                \* what the peer did to its side of the connection
  peerHandshake,
  nPeerSent,           \* units the peer sent
  nHeld,               \* units the transport holds or held
  nOpened,             \* units the transport gave the actor
  notified,            \* the transport has the close_notify of the peer
  reports,             \* state reports on their way to the actor
  segments,            \* stream segments on their way to the actor
  kernelStream,        \* the receive operation of the platform
  retained             \* delivered segments whose buffer the application keeps

upgradeVars == <<kind, switch, check, upgradeData, deferredRead>>
attemptVars == <<finish, upgrade>>
processVars == <<pc, added, pending, caller>>
connectionVars ==
  <<socket, layer, state, shutdownCalled, nUnwritten, nOutput, lost, timer>>
promiseVars == <<attemptVars, closePromise, linger, refused>>
callbackVars == <<replied, deferredData, closeCalled, calls>>
bufferVars == <<incoming, receiveData>>
streamVars == <<streamActive, streamEnded, heldQueued>>
latchVars == <<deferredClose, before, destroyed>>
peerVars == <<peer, peerHandshake, nPeerSent>>
dataVars == <<nHeld, nOpened, notified>>
postVars == <<reports, segments, kernelStream, retained>>
vars == <<upgradeVars, processVars, connectionVars, promiseVars, callbackVars, bufferVars,
          streamVars, latchVars, peerVars, dataVars, postVars>>

CloseStates == {"RemoteClosed", "Closed"}
NetStates == {"Read", "Write"} \cup CloseStates
CloseCall == 0

Tls == kind \in {"TlsReadiness", "TlsStream"}

Init ==
  /\ kind \in Kinds
  /\ check \in IF Tls THEN {"None"} ELSE Checks
  /\ switch \in IF check = "Sniffing" THEN 0 .. MaxData ELSE {0}
  /\ upgradeData = <<>> /\ deferredRead = FALSE /\ upgrade = "None"
  /\ pc = "Idle" /\ added = {} /\ pending = {} /\ caller = "None"
  /\ socket = "Coming"
  /\ layer = IF Tls THEN "Handshake" ELSE "Open"
  /\ state = "None" /\ shutdownCalled = FALSE
  /\ nUnwritten = 0 /\ nOutput = 0 /\ lost = FALSE
  /\ timer \in Timers
  /\ finish = "Pending" /\ closePromise = "None" /\ linger = "None" /\ refused = FALSE
  /\ replied = "No" /\ deferredData = <<>> /\ closeCalled = "None" /\ calls = <<>>
  /\ incoming = <<>> /\ receiveData = <<>>
  /\ streamActive = FALSE /\ streamEnded = FALSE /\ heldQueued = FALSE
  /\ deferredClose = {} /\ before = {} /\ destroyed = FALSE
  /\ peer = "Open"
  /\ peerHandshake = IF Tls THEN "Pending" ELSE "Good"
  /\ nPeerSent = 0 /\ nHeld = 0 /\ nOpened = 0 /\ notified = FALSE
  /\ reports = <<>> /\ segments = <<>> /\ kernelStream = "None" /\ retained = 0

-----------------------------------------------------------------------------
(***************************************************************************)
(* What the handlers share.                                                *)
(***************************************************************************)

\* A handler of the actor may start.
Free == pc = "Idle" /\ caller = "None" /\ ~destroyed

\* A report posted to the actor; read edges that wait already are merged.
Post(states) ==
  reports' = IF \/ states = {}
                \/ socket = "Gone"
                \/ states = {"Read"} /\ \E i \in DOMAIN reports : "Read" \in reports[i]
             THEN reports
             ELSE Append(reports, states)

\* Units that left the kernel.
nPosted == nHeld + Cardinality({i \in DOMAIN segments : segments[i] = "Data"})

\* The level states of the socket.
GetState ==
  {"Write"}
    \cup {s \in {"Read"} : nPosted < nPeerSent \/ peer # "Open" \/ layer = "Handshake"}
    \cup {s \in {"RemoteClosed"} : peer \in {"Fin", "Truncated"}}
    \cup {s \in {"Closed"} : \/ peer = "Reset"
                             \/ layer = "Broken"
                             \/ shutdownCalled /\ peer # "Open"}

\* MUTANT of OutputDrained: a close that looks at the operations in flight only.
NothingToDrain == TRUE

\* Nothing is queued and nothing on its way.
OutputDrained == nOutput = 0

\* Where units handed to the application go.
ToCalls(units) == IF replied = "Accepted" THEN calls \o units ELSE calls
ToDeferred(units) == IF replied = "No" THEN deferredData \o units ELSE deferredData

HandleData(units) ==
  /\ calls' = ToCalls(units)
  /\ deferredData' = ToDeferred(units)

\* All of m_IncomingData is one message.
ProcessIncomingMessage ==
  /\ HandleData(incoming)
  /\ incoming' = <<>>

\* A handshake that still runs keeps the data, a disconnected socket drops it.
ProcessIncoming ==
  IF state = "Connected"
  THEN ProcessIncomingMessage
  ELSE /\ incoming' = IF state = "None" THEN incoming ELSE <<>>
       /\ UNCHANGED <<calls, deferredData>>

\* MUTANT of NotifyClose: without the test of m_bOnCloseCalled.
NotifyCloseAgain(log, told) ==
  IF replied # "Accepted" THEN log ELSE Append(log, CloseCall)

\* The log of callbacks after the close callback; told says it was called before.
NotifyClose(log, told) ==
  IF told \/ replied # "Accepted" THEN log ELSE Append(log, CloseCall)

\* m_OnShutdown: the only entry is the one of f_CloseWithLinger.
OnShutdown(outcome) == linger' = IF linger = "Waiting" THEN outcome ELSE linger

\* f_StopTimeout.  A registration of the timer that is still under way survives.
StopTimeout == timer' = IF timer = "Installed" THEN "Off" ELSE timer

\* m_pSocket.f_Clear and f_ShutdownDone.
ShutdownDone(outcome) ==
  /\ socket' = IF socket = "Coming" THEN "Coming" ELSE "Gone"
  /\ nUnwritten' = 0
  /\ nOutput' = 0
  /\ lost' = (lost \/ nOutput > 0)
  /\ receiveData' = <<>>
  /\ StopTimeout
  /\ OnShutdown(outcome)

ResolveClose ==
  closePromise' = IF closePromise = "Pending" THEN "Resolved" ELSE closePromise

\* MUTANT of FailAttempts: a disconnect forgets the upgrade that is under way.
ForgetUpgrade ==
  /\ finish' = IF state = "None" /\ finish = "Pending" THEN "Error" ELSE finish
  /\ UNCHANGED upgrade

FailAttempts ==
  /\ finish' = IF state = "None" /\ finish = "Pending" THEN "Error" ELSE finish
  /\ upgrade' = IF state = "None" /\ upgrade = "Pending" THEN "Failed" ELSE upgrade

\* A fatal fp_Disconnect after units were handed over.  It calls f_NotifyClose
\* twice when connected.  States deferred until now are processed without a
\* socket, which does nothing.
DisconnectFatal(units) ==
  /\ ShutdownDone("Unclean")
  /\ state' = "Disconnected"
  /\ FailAttempts
  /\ deferredData' = ToDeferred(units)
  /\ IF state = "Disconnected"
     THEN /\ calls' = ToCalls(units)
          /\ UNCHANGED <<closePromise, closeCalled, deferredClose>>
     ELSE /\ ResolveClose
          /\ closeCalled' = IF closeCalled = "None" THEN "Abnormal" ELSE closeCalled
          /\ LET log == NotifyClose(ToCalls(units), closeCalled # "None")
             IN calls' = IF state = "Connected" THEN NotifyClose(log, TRUE) ELSE log
          /\ deferredClose' = {}
  /\ UNCHANGED <<layer, shutdownCalled, refused, replied>>

\* fp_Shutdown; the platform reports a connection that is closed on both sides.
Shutdown ==
  /\ shutdownCalled' = TRUE
  /\ Post({s \in {"Closed"} : ~shutdownCalled /\ peer # "Open"})

\* fp_Shutdown throws on a connection that was reset.
ShutdownFails == ~shutdownCalled /\ peer = "Reset"

\* A graceful fp_Disconnect that finds the actor not disconnected.  Messages that
\* wait for the handshake are dropped.  The caller processes the states deferred
\* until now.
DisconnectGraceful(status, units) ==
  /\ state' = "Disconnected"
  /\ deferredData' = ToDeferred(units)
  /\ IF state = "Connected"
     THEN /\ IF OutputDrained THEN Shutdown ELSE UNCHANGED <<shutdownCalled, reports>>
          /\ IF status = "Normal" THEN ResolveClose ELSE UNCHANGED closePromise
          /\ closeCalled' = IF closeCalled = "None" THEN status ELSE closeCalled
          /\ calls' = NotifyClose(ToCalls(units), closeCalled # "None")
     ELSE UNCHANGED <<shutdownCalled, reports, closePromise, closeCalled, calls>>
  /\ FailAttempts
  /\ IF OutputDrained THEN StopTimeout ELSE UNCHANGED timer
  /\ nUnwritten' = 0
  /\ deferredClose' = {}
  /\ UNCHANGED <<socket, layer, nOutput, lost, linger, refused, replied, receiveData>>

\* MUTANT of MayActivate: completion transfers do not wait for an upgrade.
ActivateBeforeUpgrade(k) == k \in {"PlainStream", "TlsStream"} /\ check # "Sniffing"

\* fp_TryActivateCompletionIo of a connected socket of kind k: its operations
\* would pin a transport that an upgrade replaces.
MayActivate(k) == k \in {"PlainStream", "TlsStream"} /\ check = "None"

\* f_GetCompletionIoReceive, once the activation was tried.
CompletionReceive == state = "Connected" /\ MayActivate(kind)

\* The receive stream starts with completion transfers, which need a connection.
StartStream(may) ==
  IF may /\ ~streamActive /\ ~streamEnded
  THEN /\ streamActive' = TRUE
       /\ heldQueued' = TRUE
       /\ kernelStream' = "Running"
       /\ UNCHANGED streamEnded
  ELSE UNCHANGED <<streamVars, kernelStream>>

\* f_WriteQueuedMessages in the fp_UpdateSend of fp_CheckHandshake.
WriteQueuedMessages == nOutput + nUnwritten

\* The socket finds its handshake done: a connected transport, which then takes
\* n messages that waited for it.
HandshakeDone == layer = "Open" \/ (layer = "Handshake" /\ peerHandshake = "Good")

Connects(n) ==
  /\ state' = "Connected"
  /\ layer' = "Open"
  /\ nUnwritten' = 0
  /\ nOutput' = n
  /\ IF upgrade = "Pending"
     THEN upgrade' = "Done" /\ UNCHANGED finish
     ELSE finish' = (IF finish = "Pending" THEN "Success" ELSE finish) /\ UNCHANGED upgrade
  /\ StartStream(MayActivate(kind))
  /\ Post({s \in {"Read", "Write"} : layer = "Handshake"})

\* fp_CheckHandshake of a handshake that is done, inside fp_ProcessStateNow.
CheckHandshake ==
  /\ Connects(WriteQueuedMessages)
  /\ pending' = pending \cup GetState

-----------------------------------------------------------------------------
(***************************************************************************)
(* fp_ProcessState.  added holds the states still to be looked at, in the  *)
(* order Read, RemoteClosed, Closed, Write.                                *)
(***************************************************************************)

StartProcess(states) ==
  IF states = {} THEN UNCHANGED <<pc, added>> ELSE pc' = "Enter" /\ added' = states

\* MUTANT of MustDefer: close states are processed as they are reported.
NeverDefer == FALSE

\* MUTANT of MustDefer: without the test that the terminal segment is to come.
DeferAfterEnd == (streamActive \/ streamEnded) /\ state # "Disconnected"

\* Close states wait for the terminal segment of a receive stream.
MustDefer == streamActive /\ ~streamEnded /\ state # "Disconnected"

Enter ==
  /\ pc = "Enter"
  /\ pc' = "States"
  /\ IF socket # "Set"
     THEN added' = {} /\ UNCHANGED deferredClose
     ELSE IF MustDefer
     THEN /\ added' = added \ CloseStates
          /\ deferredClose' = deferredClose \cup (added \cap CloseStates)
     ELSE UNCHANGED <<added, deferredClose>>
  /\ UNCHANGED <<upgradeVars, pending, caller, connectionVars, promiseVars, callbackVars,
                 bufferVars, streamVars, before, destroyed, peerVars, dataVars, postVars>>

\* The loop of fp_ProcessState: what was reported meanwhile comes next.
Leave ==
  /\ pc = "States" /\ added = {}
  /\ pc' = IF pending = {} THEN "Idle" ELSE "Enter"
  /\ added' = pending
  /\ pending' = {}
  /\ UNCHANGED <<upgradeVars, caller, connectionVars, promiseVars, callbackVars, bufferVars,
                 streamVars, latchVars, peerVars, dataVars, postVars>>

Handled(s) == added' = added \ {s} /\ UNCHANGED pc

\* fLeaveReadinessReceive, and the activation before it.
LeavesReadiness ==
  streamActive \/ streamEnded \/ CompletionReceive

LeaveReadinessReceive ==
  /\ pc = "States" /\ "Read" \in added
  /\ LeavesReadiness
  /\ StartStream(TRUE)
  /\ ProcessIncoming
  /\ Handled("Read")
  /\ UNCHANGED <<upgradeVars, pending, caller, connectionVars, promiseVars, replied, closeCalled,
                 receiveData, latchVars, peerVars, dataVars, reports, segments, retained>>

\* What is left in the socket after the request to upgrade is for the new one.
WaitsForUpgrade == state = "Connected" /\ check = "Required"

DeferRead ==
  /\ pc = "States" /\ "Read" \in added
  /\ ~LeavesReadiness /\ WaitsForUpgrade
  /\ deferredRead' = TRUE
  /\ Handled("Read")
  /\ UNCHANGED <<kind, switch, check, upgradeData, pending, caller, connectionVars, promiseVars,
                 callbackVars, bufferVars, streamVars, latchVars, peerVars, dataVars, postVars>>

Reading == pc = "States" /\ "Read" \in added /\ ~LeavesReadiness /\ ~WaitsForUpgrade

\* f_Receive throws.
ReceiveThrows ==
  /\ Reading
  /\ peer = "Reset" /\ ~(Tls /\ (shutdownCalled \/ layer = "Broken"))
  /\ DisconnectFatal(<<>>)
  /\ added' = {}
  /\ UNCHANGED <<upgradeVars, pc, pending, caller, incoming, streamVars, before, destroyed,
                 peerVars, dataVars, postVars>>

\* What one f_Receive takes from the kernel to give the actor n units: TLS may
\* take more, up to the close_notify.
Opens(n) ==
  /\ nOpened + n <= nPeerSent
  /\ nOpened' = nOpened + n
  /\ nHeld' \in {h \in nHeld .. nPeerSent : h >= nOpened + n /\ (Tls \/ h = nOpened + n)}
  /\ notified' \in {notified, notified \/ (Tls /\ peer = "Fin" /\ nHeld' = nPeerSent)}

\* The upgrade check looks at the data it has, one more unit at a time: the
\* request to upgrade is the unit switch, and then it takes everything; before,
\* it takes some of it and wants more, or gives up.  What it takes goes to the
\* application of a connection in state now.
Sniff(unit, now) ==
  \E taken \in 0 .. Len(upgradeData) + 1, ended \in BOOLEAN :
    LET data == Append(upgradeData, unit)
        ready == incoming \o SubSeq(data, 1, taken)
    IN /\ unit = switch => ended
       /\ ended => taken = Len(data) /\ switch \in {0, unit}
       /\ check' = IF ~ended THEN check ELSE IF unit = switch THEN "Required" ELSE "None"
       /\ upgradeData' = SubSeq(data, taken + 1, Len(data))
       /\ HandleData(IF now = "Connected" THEN ready ELSE <<>>)
       /\ incoming' = IF now = "None" THEN ready ELSE <<>>

\* A request to upgrade ends the reads.
AfterSniff == added' = IF check' = "Required" THEN added \ {"Read"} ELSE added

\* f_Receive finds the handshake done; fp_CheckHandshake runs before its data is
\* added to m_IncomingData.
ReceiveConnects ==
  /\ Reading
  /\ state = "None" /\ HandshakeDone /\ peer # "Reset"
  /\ \E n \in 0 .. 1 :
       /\ Tls \/ n = 1 \/ nOpened = nPeerSent
       /\ Opens(n)
       /\ IF check = "Sniffing" /\ n = 1
          THEN Sniff(nOpened + 1, "Connected") /\ AfterSniff
          ELSE /\ incoming' = incoming \o [i \in 1 .. n |-> nOpened + i]
               /\ UNCHANGED <<check, upgradeData, added, calls, deferredData>>
  /\ CheckHandshake
  /\ UNCHANGED <<kind, switch, deferredRead, pc, caller, socket, shutdownCalled, lost, timer,
                 closePromise, linger, refused, replied, closeCalled, receiveData, latchVars,
                 peerVars, segments, retained>>

\* A TLS socket that broke or was shut down reads nothing more.
ReadsNothing == Tls /\ (shutdownCalled \/ layer = "Broken")
CanRead == Reading /\ layer = "Open" /\ state # "None" /\ ~ReadsNothing /\ peer # "Reset"

\* With an upgrade check the socket is read one byte at a time.
ReceiveSniffed ==
  /\ CanRead
  /\ check = "Sniffing"
  /\ Opens(1)
  /\ Sniff(nOpened + 1, state)
  /\ AfterSniff
  /\ UNCHANGED <<kind, switch, deferredRead, pc, pending, caller, connectionVars, promiseVars,
                 replied, closeCalled, receiveData, streamVars, latchVars, peerVars, postVars>>

\* The handshake waits for the peer.  Once disconnected it is not followed.
HandshakeWaits ==
  /\ Reading
  /\ layer = "Handshake" /\ (peer # "Reset" \/ shutdownCalled)
  /\ peerHandshake = "Pending" \/ state = "Disconnected"
  /\ Handled("Read")
  /\ UNCHANGED <<upgradeVars, pending, caller, connectionVars, promiseVars, callbackVars,
                 bufferVars, streamVars, latchVars, peerVars, dataVars, postVars>>

\* The transport gives up, in a read or in the empty send of fp_CheckHandshake.
HandshakeFails ==
  /\ \/ Reading /\ Handled("Read")
     \/ /\ pc = "States" /\ added = {"Write"} /\ socket = "Set"
        /\ Handled("Write")
  /\ state = "None" /\ layer = "Handshake" /\ peerHandshake = "Bad" /\ peer # "Reset"
  /\ layer' = "Broken"
  /\ Post({"Closed"})
  /\ UNCHANGED <<upgradeVars, pending, caller, socket, state, shutdownCalled, nUnwritten, nOutput,
                 lost, timer, promiseVars, callbackVars, bufferVars, streamVars, latchVars, peerVars,
                 dataVars, segments, kernelStream, retained>>

\* Straight into the delivery buffer, when nothing older waits.
ReceiveDirect ==
  /\ CanRead
  /\ check # "Sniffing" /\ state = "Connected" /\ incoming = <<>>
  /\ Opens(1)
  /\ LET filled == Append(receiveData, nOpened + 1)
     IN IF Len(filled) >= BufferUnits
        THEN HandleData(filled) /\ receiveData' = <<>>
        ELSE receiveData' = filled /\ UNCHANGED <<calls, deferredData>>
  /\ UNCHANGED <<upgradeVars, processVars, connectionVars, promiseVars, replied, closeCalled,
                 incoming, streamVars, latchVars, peerVars, postVars>>

\* Through m_IncomingData.
ReceiveBuffered ==
  /\ CanRead
  /\ check # "Sniffing" /\ (state # "Connected" \/ incoming # <<>>)
  /\ Opens(1)
  /\ LET more == Append(incoming, nOpened + 1)
     IN IF Len(more) >= BufferUnits
        THEN /\ HandleData(IF state = "Connected" THEN more ELSE <<>>)
             /\ incoming' = <<>>
        ELSE incoming' = more /\ UNCHANGED <<calls, deferredData>>
  /\ UNCHANGED <<upgradeVars, processVars, connectionVars, promiseVars, replied, closeCalled,
                 receiveData, streamVars, latchVars, peerVars, postVars>>

\* f_Receive returns nothing: what was buffered is delivered.  The end of the
\* connection without a close_notify breaks TLS.
ReceiveNothing ==
  /\ Reading
  /\ layer # "Handshake" /\ (state # "None" \/ ReadsNothing)
  /\ ReadsNothing \/ (nOpened = nPeerSent /\ peer # "Reset")
  /\ IF state = "Connected" /\ incoming = <<>>
     THEN HandleData(receiveData) /\ receiveData' = <<>> /\ UNCHANGED incoming
     ELSE ProcessIncoming /\ UNCHANGED receiveData
  /\ notified' = (notified \/ (Tls /\ ~ReadsNothing /\ peer = "Fin"))
  /\ IF Tls /\ ~ReadsNothing /\ peer = "Truncated"
     THEN layer' = "Broken" /\ Post({"Closed"})
     ELSE UNCHANGED <<layer, reports>>
  /\ Handled("Read")
  /\ UNCHANGED <<upgradeVars, pending, caller, socket, state, shutdownCalled, nUnwritten, nOutput,
                 lost, timer, promiseVars, replied, closeCalled, streamVars, latchVars, peerVars,
                 nHeld, nOpened, segments, kernelStream, retained>>

\* The process looks at close state s next.
AtClose(s) ==
  /\ pc = "States" /\ s \in added
  /\ "Read" \notin added /\ (s = "Closed" => "RemoteClosed" \notin added)

\* fFlushIncomingBeforeClose: the upgrade will not come any more.
SniffedOut == IF check = "Sniffing" THEN upgradeData ELSE <<>>
FlushedUnits == IF state = "Connected" THEN incoming \o SniffedOut ELSE <<>>
FlushBeforeClose ==
  IF state = "Connected"
  THEN /\ incoming' = <<>>
       /\ check' = IF check = "Sniffing" THEN "None" ELSE check
       /\ upgradeData' = IF check = "Sniffing" THEN <<>> ELSE upgradeData
  ELSE UNCHANGED <<incoming, check, upgradeData>>

RemoteClosedState ==
  /\ AtClose("RemoteClosed")
  /\ Handled("RemoteClosed")
  /\ FlushBeforeClose
  /\ IF state = "Disconnected"
     THEN UNCHANGED <<pending, connectionVars, promiseVars, callbackVars, receiveData,
                      deferredClose, reports>>
     ELSE IF state = "Connected" /\ OutputDrained /\ ShutdownFails
     THEN DisconnectFatal(FlushedUnits) /\ UNCHANGED <<pending, reports>>
     ELSE DisconnectGraceful("Normal", FlushedUnits) /\ pending' = pending \cup deferredClose
  /\ UNCHANGED <<kind, switch, deferredRead, caller, streamVars, before, destroyed, peerVars,
                 dataVars, segments, kernelStream, retained>>

\* A closed state ends the process; when disconnected it drops the socket.
ClosedState ==
  /\ AtClose("Closed")
  /\ added' = {}
  /\ FlushBeforeClose
  /\ IF state # "Disconnected"
     THEN DisconnectFatal(FlushedUnits)
     ELSE /\ ShutdownDone("Clean")
          /\ UNCHANGED <<layer, state, shutdownCalled, attemptVars, closePromise, refused,
                         callbackVars, deferredClose>>
  /\ UNCHANGED <<kind, switch, deferredRead, pc, pending, caller, streamVars, before, destroyed,
                 peerVars, dataVars, postVars>>

\* fp_UpdateSend of a write state; OutputSent sends what is queued.
AtWrite == pc = "States" /\ added = {"Write"}
ShutdownDue == socket = "Set" /\ state = "Disconnected" /\ OutputDrained

\* The empty send of fp_CheckHandshake leaves the handshake where it is.
HandshakeStands ==
  \/ peer = "Reset" \/ layer = "Broken"
  \/ layer = "Handshake" /\ peerHandshake = "Pending"

WriteConnects ==
  /\ AtWrite
  /\ socket = "Set" /\ state = "None" /\ HandshakeDone /\ peer # "Reset"
  /\ Handled("Write")
  /\ CheckHandshake
  /\ UNCHANGED <<upgradeVars, caller, socket, shutdownCalled, lost, timer, closePromise, linger,
                 refused, callbackVars, bufferVars, latchVars, peerVars, dataVars, segments,
                 retained>>

WriteShutsDown ==
  /\ AtWrite
  /\ ShutdownDue
  /\ Handled("Write")
  /\ IF ShutdownFails
     THEN DisconnectFatal(<<>>) /\ UNCHANGED reports
     ELSE /\ Shutdown
          /\ UNCHANGED <<socket, layer, state, nUnwritten, nOutput, lost, timer, promiseVars,
                         callbackVars, receiveData, deferredClose>>
  /\ UNCHANGED <<upgradeVars, pending, caller, incoming, streamVars, before, destroyed, peerVars,
                 dataVars, segments, kernelStream, retained>>

WriteDoesNothing ==
  /\ AtWrite
  /\ ~ShutdownDue
  /\ (socket = "Set" /\ state = "None") => HandshakeStands
  /\ Handled("Write")
  /\ UNCHANGED <<upgradeVars, pending, caller, connectionVars, promiseVars, callbackVars,
                 bufferVars, streamVars, latchVars, peerVars, dataVars, postVars>>

ProcessState ==
  \/ Enter \/ Leave
  \/ LeaveReadinessReceive \/ DeferRead \/ ReceiveThrows \/ ReceiveConnects
  \/ HandshakeWaits \/ HandshakeFails \/ ReceiveSniffed \/ ReceiveDirect \/ ReceiveBuffered \/ ReceiveNothing
  \/ RemoteClosedState \/ ClosedState
  \/ WriteConnects \/ WriteShutsDown \/ WriteDoesNothing

-----------------------------------------------------------------------------
(***************************************************************************)
(* Handlers that start state processing.                                   *)
(***************************************************************************)

SetSocket ==
  /\ Free
  /\ socket = "Coming"
  /\ socket' = "Set"
  /\ StartProcess(GetState \cup before)
  /\ before' = {}
  /\ UNCHANGED <<upgradeVars, pending, caller, layer, state, shutdownCalled, nUnwritten, nOutput,
                 lost, timer, promiseVars, callbackVars, bufferVars, streamVars, deferredClose,
                 destroyed, peerVars, dataVars, postVars>>

StateAdded ==
  /\ Free
  /\ reports # <<>>
  /\ reports' = Tail(reports)
  /\ IF socket # "Set"
     THEN before' = before \cup Head(reports) /\ UNCHANGED <<pc, added>>
     ELSE StartProcess(Head(reports)) /\ UNCHANGED before
  /\ UNCHANGED <<upgradeVars, pending, caller, connectionVars, promiseVars, callbackVars,
                 bufferVars, streamVars, deferredClose, destroyed, peerVars, dataVars, segments,
                 kernelStream, retained>>

\* The last unit the transport can give once it has the input.
LastUnit(input) ==
  (IF Tls THEN nHeld ELSE nOpened) + (IF input = "Data" THEN 1 ELSE 0)

\* MUTANT of KeepsBuffer: without the half-window rule.
KeepsEveryBuffer == ~Tls

\* A delivery is copied, and its buffer not retained, once buffers hold half of
\* the window.
KeepsBuffer == ~Tls /\ 2 * (retained + Len(segments)) < Limit

\* fp_ReceiveStreamInput.  input is a segment, or "Held" for fp_DrainHeldInput.
\* TLS opens every record it holds; after its shutdown completed (not opens) it
\* clears them.  Data is dropped when disconnected.
ReceiveStreamInput(input) ==
  \E opens \in (IF Tls /\ shutdownCalled THEN BOOLEAN ELSE {TRUE}) :
    LET last == LastUnit(input)
        units == [i \in 1 .. last - nOpened |-> nOpened + i]
        told == IF state = "Connected" /\ units # <<>> THEN incoming \o receiveData \o units ELSE <<>>
        closed == notified \/ (opens /\ input = "Notify")
        terminal == input \in {"End", "Error"}
        failed == input = "Error" \/ (Tls /\ opens /\ input = "End" /\ ~closed)
    IN /\ nOpened' = last
       /\ nHeld' = last
       /\ notified' = closed
       /\ incoming' = IF told = <<>> THEN incoming ELSE <<>>
       /\ streamActive' = (streamActive /\ ~terminal /\ ~closed)
       /\ streamEnded' = (streamEnded \/ terminal \/ closed)
       /\ IF failed
          THEN DisconnectFatal(told) /\ UNCHANGED <<pc, added, retained>>
          ELSE /\ HandleData(told)
               /\ receiveData' = IF told = <<>> THEN receiveData ELSE <<>>
               /\ retained' \in {retained} \cup {n \in {retained + 1} : KeepsBuffer /\ told # <<>>}
               /\ IF terminal \/ closed
                  THEN deferredClose' = {} /\ StartProcess(deferredClose)
                  ELSE UNCHANGED <<deferredClose, pc, added>>
               /\ UNCHANGED <<connectionVars, promiseVars, replied, closeCalled>>

\* Without a socket only the flags of a terminal segment are kept.
StreamInputWithoutSocket(input) ==
  /\ streamActive' = (streamActive /\ input \notin {"End", "Error"})
  /\ streamEnded' = (streamEnded \/ input \in {"End", "Error"})
  /\ deferredClose' = {}
  /\ StartProcess(deferredClose)
  /\ UNCHANGED <<connectionVars, promiseVars, callbackVars, bufferVars, dataVars, retained>>

StreamInput(input) ==
  IF socket = "Set" THEN ReceiveStreamInput(input) ELSE StreamInputWithoutSocket(input)

ReceiveSegment ==
  /\ Free
  /\ segments # <<>>
  /\ segments' = Tail(segments)
  /\ StreamInput(Head(segments))
  /\ UNCHANGED <<upgradeVars, pending, caller, heldQueued, before, destroyed, peerVars, reports,
                 kernelStream>>

DrainHeldInput ==
  /\ Free
  /\ heldQueued
  /\ heldQueued' = FALSE
  /\ StreamInput("Held")
  /\ UNCHANGED <<upgradeVars, pending, caller, before, destroyed, peerVars, reports, segments,
                 kernelStream>>

\* The registration of the timer completes, perhaps after f_StopTimeout.
TimerRegistered ==
  /\ Free
  /\ timer = "Registering"
  /\ timer' = "Installed"
  /\ UNCHANGED <<upgradeVars, processVars, socket, layer, state, shutdownCalled, nUnwritten,
                 nOutput, lost, promiseVars, callbackVars, bufferVars, streamVars, latchVars,
                 peerVars, dataVars, postVars>>

\* f_UpdateTimeout when connected, and too long without data.
TimerFires ==
  /\ Free
  /\ timer = "Installed" /\ state = "Connected"
  /\ DisconnectFatal(<<>>)
  /\ UNCHANGED <<upgradeVars, processVars, incoming, streamVars, before, destroyed, peerVars,
                 dataVars, postVars>>

\* f_UpdateTimeout otherwise: it looks at the socket first ...
TimerPolls ==
  /\ Free
  /\ timer = "Installed"
  /\ state = "None" \/ (state = "Disconnected" /\ ~OutputDrained)
  /\ caller' = "Timer"
  /\ StartProcess(IF socket = "Set" THEN GetState ELSE {})
  /\ UNCHANGED <<upgradeVars, pending, connectionVars, promiseVars, callbackVars, bufferVars,
                 streamVars, latchVars, peerVars, dataVars, postVars>>

\* ... and gives up if it was too long without progress.
PollExpires ==
  /\ caller = "Timer" /\ pc = "Idle" /\ ~destroyed
  /\ caller' = "None"
  /\ DisconnectFatal(<<>>)
  /\ UNCHANGED <<upgradeVars, pc, added, pending, incoming, streamVars, before, destroyed, peerVars,
                 dataVars, postVars>>

PollInTime ==
  /\ caller = "Timer" /\ pc = "Idle" /\ ~destroyed
  /\ caller' = "None"
  /\ UNCHANGED <<upgradeVars, pc, added, pending, connectionVars, promiseVars, callbackVars,
                 bufferVars, streamVars, latchVars, peerVars, dataVars, postVars>>

-----------------------------------------------------------------------------
(***************************************************************************)
(* The application.                                                        *)
(***************************************************************************)

\* fp_AcceptConnection: fp_StopDeferring, then what was buffered.
Accept ==
  /\ Free
  /\ finish = "Success" /\ replied = "No"
  /\ replied' = "Accepted"
  /\ calls' = deferredData \o (IF closeCalled # "None" THEN <<CloseCall>> ELSE <<>>)
                 \o (IF state = "Connected" THEN incoming ELSE <<>>)
  /\ deferredData' = <<>>
  /\ incoming' = <<>>
  /\ UNCHANGED <<upgradeVars, processVars, connectionVars, promiseVars, closeCalled, receiveData,
                 streamVars, latchVars, peerVars, dataVars, postVars>>

\* fp_RejectConnection, also when the handle is dropped.
Reject ==
  /\ Free
  /\ finish = "Success" /\ replied = "No"
  /\ replied' = "Rejected"
  /\ IF state = "Disconnected" THEN UNCHANGED pc ELSE pc' = "Closing"
  /\ UNCHANGED <<upgradeVars, added, pending, caller, connectionVars, promiseVars, deferredData,
                 closeCalled, calls, bufferVars, streamVars, latchVars, peerVars, dataVars,
                 postVars>>

\* f_SendData refuses a connection that is disconnected, and no other.
MaySend == Free /\ replied = "Accepted" /\ nUnwritten + nOutput < MaxOutput

SendData ==
  /\ MaySend
  /\ state = "Connected"
  /\ nOutput' = nOutput + 1
  /\ UNCHANGED <<upgradeVars, processVars, socket, layer, state, shutdownCalled, nUnwritten, lost,
                 timer, promiseVars, callbackVars, bufferVars, streamVars, latchVars, peerVars,
                 dataVars, postVars>>

\* During the handshake of an upgrade the message waits, and the fp_CheckHandshake
\* of fp_UpdateSend looks at the transport ...
SendWaits ==
  /\ MaySend
  /\ state = "None" /\ (socket = "Set" => HandshakeStands)
  /\ nUnwritten' = nUnwritten + 1
  /\ UNCHANGED <<upgradeVars, processVars, socket, layer, state, shutdownCalled, nOutput, lost,
                 timer, promiseVars, callbackVars, bufferVars, streamVars, latchVars, peerVars,
                 dataVars, postVars>>

\* ... which gives up,
SendBreaks ==
  /\ MaySend
  /\ socket = "Set" /\ state = "None"
  /\ layer = "Handshake" /\ peerHandshake = "Bad" /\ peer # "Reset"
  /\ nUnwritten' = nUnwritten + 1
  /\ layer' = "Broken"
  /\ Post({"Closed"})
  /\ UNCHANGED <<upgradeVars, processVars, socket, state, shutdownCalled, nOutput, lost, timer,
                 promiseVars, callbackVars, bufferVars, streamVars, latchVars, peerVars, dataVars,
                 segments, kernelStream, retained>>

\* ... or finds the handshake done, and the messages that waited are written.
SendConnects ==
  /\ MaySend
  /\ socket = "Set" /\ state = "None" /\ HandshakeDone /\ peer # "Reset"
  /\ Connects(WriteQueuedMessages + 1)
  /\ StartProcess(GetState)
  /\ UNCHANGED <<upgradeVars, pending, caller, socket, shutdownCalled, lost, timer, closePromise,
                 linger, refused, callbackVars, bufferVars, latchVars, peerVars, dataVars, segments,
                 retained>>

\* MUTANT of LastOutput: looks at the queue before the message left it.
QueueWasEmpty == nOutput = 0 /\ state = "Disconnected"

\* A queued message left; the last one lets a waiting disconnect shut down.
LastOutput == nOutput = 1 /\ state = "Disconnected"

OutputSent ==
  /\ Free
  /\ socket = "Set" /\ nOutput > 0
  /\ IF peer = "Reset"
     THEN DisconnectFatal(<<>>) /\ UNCHANGED reports
     ELSE /\ nOutput' = nOutput - 1
          /\ IF LastOutput
             THEN Shutdown
             ELSE UNCHANGED <<shutdownCalled, reports>>
          /\ UNCHANGED <<socket, layer, state, nUnwritten, lost, timer, promiseVars, callbackVars,
                         receiveData, deferredClose>>
  /\ UNCHANGED <<upgradeVars, processVars, incoming, streamVars, before, destroyed, peerVars,
                 dataVars, segments, kernelStream, retained>>

\* The body of f_Close once it is not refused.
Close ==
  IF socket # "Set" \/ state = "Disconnected"
  THEN UNCHANGED <<closePromise, pc>>
  ELSE closePromise' = "Pending" /\ pc' = "Closing"

CloseUser ==
  /\ Free
  /\ replied = "Accepted"
  /\ closePromise # "Pending"
  /\ Close
  /\ UNCHANGED <<upgradeVars, added, pending, caller, connectionVars, attemptVars, linger, refused,
                 callbackVars, bufferVars, streamVars, latchVars, peerVars, dataVars, postVars>>

\* The subscription of the callbacks is dropped, and with it the upgrade check.
Unsubscribe ==
  /\ Free
  /\ replied = "Accepted" /\ Unsubscribes
  /\ replied' = "Dropped"
  /\ check' = IF check = "Sniffing" THEN "None" ELSE check
  /\ UNCHANGED <<kind, switch, upgradeData, deferredRead, processVars, connectionVars, promiseVars,
                 deferredData, closeCalled, calls, bufferVars, streamVars, latchVars, peerVars,
                 dataVars, postVars>>

\* f_UpgradeSocket, once the check found the request and nothing is buffered: a
\* TLS socket adopts the connection and starts its handshake.  A read deferred
\* until now is processed after it.
MayUpgrade ==
  /\ socket = "Set" /\ state = "Connected" /\ check = "Required"
  /\ incoming = <<>> /\ upgradeData = <<>> /\ receiveData = <<>>
  /\ OutputDrained /\ nUnwritten = 0

UpgradeSocket ==
  /\ Free
  /\ replied = "Accepted" /\ MayUpgrade
  /\ kind' \in Kinds \cap {"TlsReadiness", "TlsStream"}
  /\ check' = "None"
  /\ deferredRead' = FALSE
  /\ caller' = IF deferredRead THEN "Upgrade" ELSE caller
  /\ IF peerHandshake = "Good" /\ peer # "Reset"
     THEN /\ upgrade' = "Done"
          /\ StartStream(kind' = "TlsStream")
          /\ StartProcess(GetState)
          /\ Post({"Read", "Write"})
          /\ UNCHANGED <<layer, state>>
     ELSE /\ upgrade' = "Pending"
          /\ state' = "None"
          /\ LET broken == peerHandshake = "Bad" /\ peer # "Reset"
             IN /\ layer' = IF broken THEN "Broken" ELSE "Handshake"
                /\ Post({s \in {"Closed"} : broken})
          /\ UNCHANGED <<pc, added, streamVars, kernelStream>>
  /\ UNCHANGED <<switch, upgradeData, pending, socket, shutdownCalled, nUnwritten, nOutput, lost,
                 timer, finish, closePromise, linger, refused, callbackVars, bufferVars, latchVars,
                 peerVars, dataVars, segments, retained>>

UpgradeProcesses ==
  /\ caller = "Upgrade" /\ pc = "Idle" /\ ~destroyed
  /\ caller' = "None"
  /\ StartProcess({"Read"})
  /\ UNCHANGED <<upgradeVars, pending, connectionVars, promiseVars, callbackVars, bufferVars,
                 streamVars, latchVars, peerVars, dataVars, postVars>>

\* f_CloseWithLinger waits for f_ShutdownDone; its f_Close may be refused.
CloseWithLinger ==
  /\ Free
  /\ replied = "Accepted" /\ linger = "None"
  /\ linger' = IF socket = "Set" THEN "Waiting" ELSE "AlreadyClosed"
  /\ refused' = (socket = "Set" /\ closePromise = "Pending")
  /\ IF refused' THEN UNCHANGED <<closePromise, pc>> ELSE Close
  /\ UNCHANGED <<upgradeVars, added, pending, caller, connectionVars, attemptVars, callbackVars,
                 bufferVars, streamVars, latchVars, peerVars, dataVars, postVars>>

\* The fp_Disconnect of f_Close, f_CloseWithLinger and fp_RejectConnection.
DisconnectLocal ==
  /\ pc = "Closing"
  /\ IF state = "Connected" /\ OutputDrained /\ ShutdownFails
     THEN DisconnectFatal(<<>>) /\ pc' = "Idle" /\ UNCHANGED <<added, reports>>
     ELSE /\ DisconnectGraceful("Local", <<>>)
          /\ pc' = IF deferredClose = {} THEN "Idle" ELSE "Enter"
          /\ added' = deferredClose
  /\ UNCHANGED <<upgradeVars, pending, caller, incoming, streamVars, before, destroyed, peerVars,
                 dataVars, segments, kernelStream, retained>>

\* On the processing actor, at any time: the answer of f_Close, the timeout.
LingerEnds(outcome) ==
  /\ linger = "Waiting" /\ ~destroyed
  /\ linger' = outcome
  /\ UNCHANGED <<upgradeVars, processVars, connectionVars, attemptVars, closePromise, refused,
                 callbackVars, bufferVars, streamVars, latchVars, peerVars, dataVars, postVars>>

LingerRefused == refused /\ LingerEnds("Refused")
LingerTimeout == LingerEnds("TimedOut")

\* f_Destroy by the owner, or as f_CloseWithLinger ends; fp_Destroy.  What is
\* still on its way to the actor finds it destroyed and does nothing.
Destroy ==
  /\ Free
  /\ destroyed' = TRUE
  /\ socket' = "Gone"
  /\ nUnwritten' = 0
  /\ nOutput' = 0
  /\ lost' = (lost \/ nOutput > 0)
  /\ closePromise' = IF closePromise = "Pending" THEN "Abandoned" ELSE closePromise
  /\ finish' = IF finish = "Pending" THEN "Abandoned" ELSE finish
  /\ upgrade' = IF upgrade = "Pending" THEN "Abandoned" ELSE upgrade
  /\ OnShutdown("Destroyed")
  /\ timer' = "Off"
  /\ refused' = FALSE /\ heldQueued' = FALSE
  /\ reports' = <<>> /\ segments' = <<>>
  /\ UNCHANGED <<upgradeVars, processVars, layer, state, shutdownCalled, callbackVars, bufferVars,
                 streamActive, streamEnded, deferredClose, before, peerVars, dataVars,
                 kernelStream, retained>>

\* The application lets go of a buffer of the receive stream; the resume it
\* triggers needs no state.
ReceiveWindowResume ==
  /\ retained > 0 /\ ~destroyed
  /\ retained' = retained - 1
  /\ UNCHANGED <<upgradeVars, processVars, connectionVars, promiseVars, callbackVars, bufferVars,
                 streamVars, latchVars, peerVars, dataVars, reports, segments, kernelStream>>

-----------------------------------------------------------------------------
(***************************************************************************)
(* The platform and the peer.                                              *)
(***************************************************************************)

\* What a receive stream finds next in the connection.
NextInStream ==
  IF peer = "Reset" THEN "Error"
  ELSE IF nPosted < nPeerSent THEN "Data"
  ELSE IF peer = "Open" THEN "None"
  ELSE IF Tls /\ peer = "Fin" /\ ~notified /\ \A i \in DOMAIN segments : segments[i] # "Notify"
  THEN "Notify"
  ELSE "End"

KernelSegment ==
  /\ kernelStream = "Running" /\ socket = "Set" /\ ~destroyed
  /\ retained + Len(segments) < Limit
  /\ NextInStream # "None"
  /\ segments' = Append(segments, NextInStream)
  /\ kernelStream' = IF NextInStream \in {"End", "Error"} THEN "Ended" ELSE kernelStream
  /\ UNCHANGED <<upgradeVars, processVars, connectionVars, promiseVars, callbackVars, bufferVars,
                 streamVars, latchVars, peerVars, dataVars, reports, retained>>

ReadEdge == {s \in {"Read"} : kernelStream = "None"}

PeerStep ==
  /\ socket # "Gone"
  /\ UNCHANGED <<upgradeVars, processVars, connectionVars, promiseVars, callbackVars, bufferVars,
                 streamVars, latchVars, dataVars, segments, kernelStream, retained>>

PeerAnswersHandshake ==
  /\ PeerStep
  /\ peer = "Open" /\ peerHandshake = "Pending"
  /\ peerHandshake' \in {"Good", "Bad"}
  /\ Post({"Read"})
  /\ UNCHANGED <<peer, nPeerSent>>

PeerSends ==
  /\ PeerStep
  /\ peer = "Open" /\ peerHandshake = "Good" /\ nPeerSent < MaxData
  /\ nPeerSent' = nPeerSent + 1
  /\ peerHandshake' = IF nPeerSent' = switch THEN "Pending" ELSE peerHandshake
  /\ Post(ReadEdge)
  /\ UNCHANGED peer

PeerSpeaksTls == Tls \/ (switch # 0 /\ nPeerSent >= switch)

\* The peer closes its side, TLS with a close_notify or truncating the stream.
PeerCloses ==
  /\ PeerStep
  /\ peer = "Open"
  /\ peer' \in IF PeerSpeaksTls THEN {"Truncated"} \cup {p \in {"Fin"} : peerHandshake = "Good"} ELSE {"Fin"}
  /\ Post({"RemoteClosed"} \cup ReadEdge \cup {s \in {"Closed"} : shutdownCalled})
  /\ UNCHANGED <<peerHandshake, nPeerSent>>

PeerResets ==
  /\ PeerStep
  /\ peer # "Reset"
  /\ peer' = "Reset"
  /\ Post({"Closed"})
  /\ UNCHANGED <<peerHandshake, nPeerSent>>

Actor ==
  \/ ProcessState \/ SetSocket \/ StateAdded \/ ReceiveSegment \/ DrainHeldInput
  \/ TimerRegistered \/ TimerFires \/ TimerPolls \/ PollExpires \/ PollInTime
  \/ OutputSent \/ DisconnectLocal \/ UpgradeProcesses \/ LingerRefused \/ LingerTimeout

Application ==
  \/ Accept \/ Reject \/ Unsubscribe \/ SendData \/ SendWaits \/ SendBreaks \/ SendConnects
  \/ UpgradeSocket \/ CloseUser \/ CloseWithLinger \/ Destroy \/ ReceiveWindowResume

Environment ==
  KernelSegment \/ PeerAnswersHandshake \/ PeerSends \/ PeerCloses \/ PeerResets

Next == Actor \/ Application \/ Environment

(***************************************************************************)
(* Fairness.  The mailbox is served and a handler runs to its end, the     *)
(* platform reports what it has, sends go on while the connection stands,  *)
(* and a timer that keeps polling finds no progress in the end.  The       *)
(* application and the peer owe nothing.                                   *)
(***************************************************************************)
Fairness ==
  /\ WF_vars(ProcessState \/ DisconnectLocal \/ UpgradeProcesses)
  /\ WF_vars(SetSocket) /\ WF_vars(StateAdded) /\ WF_vars(ReceiveSegment)
  /\ WF_vars(OutputSent) /\ WF_vars(KernelSegment)
  /\ WF_vars(TimerRegistered) /\ WF_vars(TimerPolls)
  /\ SF_vars(PollExpires)

Spec == Init /\ [][Next]_vars
FairSpec == Spec /\ Fairness

-----------------------------------------------------------------------------
(***************************************************************************)
(* Properties.                                                             *)
(***************************************************************************)

\* The units the application was told of, or will be once it accepts.
UnitsOf(log) ==
  IF log # <<>> /\ log[Len(log)] = CloseCall THEN SubSeq(log, 1, Len(log) - 1) ELSE log
Told == UnitsOf(calls) \o deferredData
Owed == IF check = "Required" THEN switch ELSE nPeerSent
AllTold == Len(Told) = Owed \/ replied \in {"Rejected", "Dropped"}

\* The application gets the units of the peer in order, none twice and none
\* skipped, through every buffer and on every path; nothing received stays in a
\* buffer of the actor between handlers, where no later event would deliver it;
\* and what the peer sent after its request to upgrade is left to the new socket.
InOrder ==
  /\ \A i \in DOMAIN Told : Told[i] = i
  /\ pc = "Idle" /\ state = "Connected" => incoming = <<>> /\ receiveData = <<>>
  /\ switch # 0 /\ ~Tls /\ state = "Connected" /\ replied # "Dropped" => nOpened <= switch

\* The close callback comes last and once, and an application that accepted a
\* connection that ended gets it, unless the error of its upgrade told it.
CloseToldLast ==
  /\ \A i \in DOMAIN calls : calls[i] = CloseCall => i = Len(calls)
  /\ replied = "Accepted" /\ state = "Disconnected" =>
       upgrade = "Failed" \/ CloseCall \in {calls[i] : i \in DOMAIN calls}

\* Close states are held back only while a segment that replays them is to come.
DeferredCloseOwed ==
  deferredClose # {} => streamActive /\ ~streamEnded /\ state # "Disconnected"

\* An orderly close by the peer is told after everything it sent, except where
\* the process that sees it also starts the stream (heldQueued): see
\* NothingLostBeforeClose.
OrderlyCloseKeepsData ==
  [][closeCalled = "None" /\ closeCalled' = "Normal" /\ ~heldQueued => AllTold']_vars

\* "Poll close state can overtake stream bytes; defer until terminal delivery":
\* an orderly close by the peer is told after everything it sent.
NothingLostBeforeClose ==
  [][closeCalled = "None" /\ closeCalled' = "Normal" => AllTold']_vars

\* Output once written is dropped only if the peer reset or truncated the connection,
\* on a timeout or by destruction: an orderly close of either side drains it.  What
\* was queued during the handshake of an upgrade is written, all of it, by whoever
\* finds the handshake done, or dropped by the disconnect that ends it ("Messages
\* that were queued but not yet written can never be sent after a disconnect"), and
\* none of it waits on a connection that is down.
OrderlyCloseKeepsOutput ==
  [][/\ lost' /\ ~lost => peer \in {"Reset", "Truncated"} \/ timer = "Installed" \/ destroyed'
     /\ nUnwritten' < nUnwritten =>
          \/ state' = "Connected" /\ nOutput' >= nOutput + nUnwritten
          \/ state' = "Disconnected" \/ destroyed'
     /\ nUnwritten' > 0 => state' = "None"]_vars

\* "A disconnected socket can still be draining before shutdown [...].  Destroying
\* it now would reset queued output": f_CloseWithLinger destroys before the output
\* drained only on its timeout.
LingerDrains ==
  [][destroyed' /\ ~destroyed /\ linger = "Refused" => nOutput = 0]_vars

\* With the inactivity timer on, a handshake succeeds, fails or times out: that of
\* the connection, and that of an upgrade.
FinishSettles ==
  /\ finish = "Pending" ~> finish # "Pending"
  /\ upgrade = "Pending" ~> upgrade # "Pending"

\* The end of the connection at the peer is noticed, whatever buffers of the
\* receive stream the application keeps.
PeerCloseNoticed == peer # "Open" ~> (state = "Disconnected" \/ destroyed)

\* Once the peer closed too, f_CloseWithLinger ends without its timeout, except on
\* a connection whose upgrade failed, which nothing shuts down.
LingerCompletes ==
  linger = "Waiting" /\ peer # "Open" ~> linger # "Waiting" \/ upgrade = "Failed"

=============================================================================

-------------------------- MODULE AsyncSocketSend --------------------------
(***************************************************************************)
(* The completion send side of CAsyncSocketActor: the queue of plaintext   *)
(* and the promises of f_SendData, the reservations that keep a byte from  *)
(* being gathered twice, the send operations handed to the transport,      *)
(* their completions and buffer releases, graceful and fatal disconnects   *)
(* and the drain of fp_Destroy.                                            *)
(*                                                                         *)
(* The model starts where fp_TryActivateCompletionIo has just run.  The    *)
(* transport is CSocket_TCP or CSocket_SSL.  Of the TLS transport it keeps *)
(* what the actor can observe: the generations it has pinned, whether its  *)
(* unpinned generation holds records the library produced, the plaintext   *)
(* it has completed but not yet reported, and whether its record layer is  *)
(* broken.                                                                 *)
(*                                                                         *)
(* A handler of the actor is one step, except that the loop of             *)
(* fp_UpdateSend takes one step per batch: pc says where the running       *)
(* handler is, and no other handler starts before it is "Idle" again.      *)
(***************************************************************************)
EXTENDS Naturals, Sequences, FiniteSets

CONSTANTS
  Transports,         \* the kinds of socket the actor may be given
  Depth,              \* generations a TLS transport may have pinned
  Window,             \* unreleased bytes at which a plain transport stops
  Pool,               \* m_nMaxSendReservations
  StagedReservations, \* reservations a staging transport may use, 8 in the code
  MaxGather,          \* bytes one gather may collect
  MinMessage,         \* smallest message sent
  MaxMessage,         \* largest message sent, m_MaxMessageSize
  MaxBytes,           \* bound: bytes ever queued
  MaxPromises,        \* bound: promises outstanding at once
  MaxUmint            \* largest umint, where counters wrap

\* CSocket_TCP; CSocket_SSL whose receives arrive as a stream; CSocket_SSL on a
\* loop without receive streams, whose receives stay on readiness.
TransportKinds == {"Plain", "TlsStream", "TlsReadiness"}

ASSUME SendAssumption ==
  /\ Transports \subseteq TransportKinds
  /\ Depth \in Nat \ {0}
  /\ Window \in Nat \ {0}
  /\ Pool \in Nat \ {0}
  /\ StagedReservations \in 1 .. Pool
  /\ MaxGather \in Nat \ {0}
  /\ MinMessage \in Nat
  /\ MaxMessage \in Nat
  /\ MaxBytes \in Nat
  /\ MaxPromises \in Nat
  /\ MaxUmint \in Nat

VARIABLES
  transport,             \* the kind of socket
  pc,                    \* where the running handler is
  state,                 \* m_State
  socket,                \* m_pSocket is set
  destroyed,             \* fp_Destroy: not called, draining, done
  nOutgoingQueuedBytes,  \* plaintext queued and not yet reported sent
  nOutgoingSubmitted,    \* plaintext reserved by submitted operations
  nSentBytes,            \* plaintext reported sent
  outgoingDataPromises,  \* positions of the unresolved promises, oldest first
  sendReservations,      \* bytes of each reservation
  freeReservations,      \* the free list, m_iFreeSendReservation first
  nSendReservationsInUse,
  nSendOpsInFlight,
  nSendBytesUnreleased,
  bShutdownCalled,
  bDeferredShutdownCleanup,
  flight,                \* operations whose completion is not handled, in wire order
  unreleased,            \* how many handled operations of each size await release
  nPinned,               \* generations the transport has pinned; TLS consults it
  pendingOutput,         \* its unpinned generation holds library records
  nSendPlaintextHeld,    \* plaintext completed by a chain that has not ended
  broken,                \* its record layer left EState_None
  nAccepted,             \* history: end of the plaintext f_SendData accepted
  nTaken,                \* history: end of the plaintext handed to the transport
  nOnWire,               \* history: end of the plaintext the kernel completed
  uncounted              \* history: an operation was taken for a refused one

lifeVars == <<transport, state, socket, destroyed, bShutdownCalled, bDeferredShutdownCleanup>>
queueVars == <<nOutgoingQueuedBytes, nSentBytes, outgoingDataPromises>>
reservationVars ==
  <<nOutgoingSubmitted, sendReservations, freeReservations, nSendReservationsInUse>>
operationVars == <<nSendOpsInFlight, nSendBytesUnreleased, flight, unreleased>>
transportVars == <<nPinned, pendingOutput, nSendPlaintextHeld, broken>>
historyVars == <<nAccepted, nTaken, nOnWire, uncounted>>

vars == <<pc, lifeVars, queueVars, reservationVars, operationVars, transportVars, historyVars>>

Staging == transport # "Plain"

NoReservation == 0
Reservations == 1 .. Pool

\* What an operation carries: the reservation it will settle, the plaintext
\* range sealed or gathered into it, and the size its release gives back.
Operation ==
  [reservation : Reservations \cup {NoReservation},
   from : Nat, to : Nat, gathered : 0 .. MaxGather,
   status : {"Kernel", "Done", "Error", "Cancelled"}]

Minimum(a, b) == IF a < b THEN a ELSE b

\* A umint counter that is decremented below zero wraps.
Decrement(n) == IF n = 0 THEN MaxUmint ELSE n - 1

AllFree == [i \in Reservations |-> i]
NoBytes == [r \in Reservations |-> 0]

Init ==
  /\ transport \in Transports
  /\ pc = "Idle"
  /\ state = "Connected"
  /\ socket = TRUE
  /\ destroyed = "No"
  /\ nOutgoingQueuedBytes = 0
  /\ nOutgoingSubmitted = 0
  /\ nSentBytes = 0
  /\ outgoingDataPromises = <<>>
  /\ sendReservations = NoBytes
  /\ freeReservations = AllFree
  /\ nSendReservationsInUse = 0
  /\ nSendOpsInFlight = 0
  /\ nSendBytesUnreleased = 0
  /\ bShutdownCalled = FALSE
  /\ bDeferredShutdownCleanup = FALSE
  /\ flight = <<>>
  /\ unreleased = [n \in 0 .. MaxGather |-> 0]
  /\ nPinned = 0
  /\ pendingOutput = FALSE
  /\ nSendPlaintextHeld = 0
  /\ broken = FALSE
  /\ nAccepted = 0
  /\ nTaken = 0
  /\ nOnWire = 0
  /\ uncounted = FALSE

-----------------------------------------------------------------------------
(* The gates of a new batch.                                               *)

CanBeginSend == nPinned < Depth

CanSubmitSend == Staging => CanBeginSend

\* A staging transport bounds its own generations and never answers full.
IsSendWindowFull == ~Staging /\ nSendBytesUnreleased >= Window

MaxReservationsInUse == IF Staging THEN StagedReservations ELSE Pool

CanSubmitBatch ==
  /\ CanSubmitSend
  /\ nOutgoingQueuedBytes > nOutgoingSubmitted
  /\ ~IsSendWindowFull
  /\ nSendReservationsInUse < MaxReservationsInUse

\* Mutant: a gather that starts at the head of the queue.
GatherFromHead == nSentBytes

\* Where a gather starts: behind the bytes earlier operations reserved.
GatherStart == nSentBytes + nOutgoingSubmitted

\* What a gather collects of the rest.
GatherSendSpans == Minimum(nOutgoingQueuedBytes - nOutgoingSubmitted, MaxGather)

\* Library records wait in the unpinned generation and a slot is free for it.
HasPendingOutput == Staging /\ pendingOutput /\ CanBeginSend

-----------------------------------------------------------------------------
(* Pieces of the handlers.                                                 *)

Idle == pc = "Idle" /\ destroyed = "No"

Batch(reservation, nScheduled, nGathered) ==
  [reservation |-> reservation, from |-> GatherStart, to |-> GatherStart + nScheduled,
   gathered |-> nGathered, status |-> "Kernel"]

\* Library records only: a continuation offers no plaintext.
Continuation(reservation) ==
  [reservation |-> reservation, from |-> nTaken, to |-> nTaken,
   gathered |-> 0, status |-> "Kernel"]

\* Every reservation goes back at once.
ResetSendReservations ==
  /\ nOutgoingSubmitted' = 0
  /\ sendReservations' = NoBytes
  /\ freeReservations' = AllFree
  /\ nSendReservationsInUse' = 0
  /\ nSendBytesUnreleased' = 0

ReleaseTransferState ==
  /\ nOutgoingQueuedBytes' = 0
  /\ ResetSendReservations

\* Mutant: the free list forgets the entry.
LoseReservation(r) ==
  IF r # NoReservation /\ sendReservations[r] # 0
  THEN /\ nOutgoingSubmitted' = nOutgoingSubmitted - sendReservations[r]
       /\ sendReservations' = [sendReservations EXCEPT ![r] = 0]
       /\ nSendReservationsInUse' = nSendReservationsInUse - 1
       /\ UNCHANGED freeReservations
  ELSE UNCHANGED reservationVars

\* The reservation an operation named goes back to the head of the free list.
ReleaseReservation(r) ==
  IF r # NoReservation /\ sendReservations[r] # 0
  THEN /\ nOutgoingSubmitted' = nOutgoingSubmitted - sendReservations[r]
       /\ sendReservations' = [sendReservations EXCEPT ![r] = 0]
       /\ freeReservations' = <<r>> \o freeReservations
       /\ nSendReservationsInUse' = nSendReservationsInUse - 1
  ELSE UNCHANGED reservationVars

\* The transport is destroyed with the socket object.
ClearSocket ==
  /\ socket' = FALSE
  /\ nPinned' = 0
  /\ pendingOutput' = FALSE
  /\ nSendPlaintextHeld' = 0
  /\ broken' = FALSE

\* Mutant: the queue is kept even if nothing pins it.
AlwaysDefer(nOps) == TRUE

\* f_ShutdownDone defers the cleanup while operations pin the queue.
DeferCleanup(nOps) == nOps # 0

\* A fatal fp_Disconnect with nOps completions outstanding: the socket goes,
\* every promise is abandoned and f_ShutdownDone runs.  r is the reservation
\* the refused or failed operation gives back.
FatalDisconnect(nOps, r) ==
  /\ pc' = "Idle"
  /\ state' = "Disconnected"
  /\ ClearSocket
  /\ outgoingDataPromises' = <<>>
  /\ IF DeferCleanup(nOps)
     THEN /\ bDeferredShutdownCleanup' = TRUE
          /\ ReleaseReservation(r)
          /\ UNCHANGED <<nOutgoingQueuedBytes, nSendBytesUnreleased>>
     ELSE ReleaseTransferState /\ UNCHANGED bDeferredShutdownCleanup
  /\ UNCHANGED <<transport, nSentBytes, destroyed, bShutdownCalled>>

\* The same while no completion is being handled.
FatalDisconnectNow ==
  /\ FatalDisconnect(nSendOpsInFlight, NoReservation)
  /\ UNCHANGED <<nSendOpsInFlight, unreleased, historyVars>>

\* fp_Shutdown of a usable socket.  TLS leaves its close alert in the unpinned
\* generation, unless the record layer is broken and produces none.
Shutdown ==
  /\ bShutdownCalled' = TRUE
  /\ pc' = "Drain"
  /\ \/ pendingOutput' = (pendingOutput \/ Staging)
     \/ broken /\ UNCHANGED pendingOutput
  /\ UNCHANGED <<nPinned, nSendPlaintextHeld, broken>>

\* f_ConsumeSentBytes: resolve the promises the sent bytes reach, in order.
ConsumeSentBytes(n) ==
  /\ nSentBytes' = nSentBytes + n
  /\ nOutgoingQueuedBytes' = nOutgoingQueuedBytes - n
  /\ IF n = 0
     THEN UNCHANGED outgoingDataPromises
     ELSE \E k \in 0 .. Len(outgoingDataPromises) :
            /\ \A i \in 1 .. k : outgoingDataPromises[i] <= nSentBytes + n
            /\ k < Len(outgoingDataPromises) => outgoingDataPromises[k + 1] > nSentBytes + n
            /\ outgoingDataPromises' =
                 SubSeq(outgoingDataPromises, k + 1, Len(outgoingDataPromises))

\* f_QueueMessage and f_WriteQueuedMessages, for one message: its bytes join the
\* queue, and its promise is placed where they end.
WriteQueuedMessages(n) ==
  /\ nOutgoingQueuedBytes' = nOutgoingQueuedBytes + n
  /\ outgoingDataPromises' =
       Append(outgoingDataPromises, nSentBytes + nOutgoingQueuedBytes + n)

-----------------------------------------------------------------------------
(* Entry points of the actor.                                              *)

\* f_SendData on a connected actor queues the message and runs fp_UpdateSend.
SendData(n) ==
  /\ Idle
  /\ state = "Connected"
  /\ nAccepted + n <= MaxBytes
  /\ Len(outgoingDataPromises) < MaxPromises
  /\ nAccepted' = nAccepted + n
  /\ WriteQueuedMessages(n)
  /\ pc' = "UpdateSend"
  /\ UNCHANGED <<lifeVars, nSentBytes, reservationVars, operationVars, transportVars,
                 nTaken, nOnWire, uncounted>>

\* fp_ProcessState with the write state runs fp_UpdateSend.
StateWrite ==
  /\ Idle
  /\ socket
  /\ pc' = "UpdateSend"
  /\ UNCHANGED <<lifeVars, queueVars, reservationVars, operationVars, transportVars,
                 historyVars>>

\* Mutant: looks only at the operations.
NoneInFlight == nSendOpsInFlight = 0

\* Nothing is queued and nothing is in flight.
Drained == nOutgoingQueuedBytes = 0 /\ nSendOpsInFlight = 0

\* f_Close, or the peer's FIN: a disconnect that is not fatal.  Write shutdown
\* waits until everything drained.
GracefulDisconnect ==
  /\ Idle
  /\ state = "Connected"
  /\ IF Drained
     THEN Shutdown
     ELSE UNCHANGED <<pc, bShutdownCalled, transportVars>>
  /\ state' = "Disconnected"
  /\ UNCHANGED <<transport, socket, destroyed, bDeferredShutdownCleanup, queueVars,
                 reservationVars, operationVars, historyVars>>

\* The same disconnect when the socket throws out of f_Shutdown.
GracefulDisconnectFails ==
  /\ Idle
  /\ state = "Connected"
  /\ Drained
  /\ FatalDisconnectNow
  /\ UNCHANGED flight

\* The closed state, a receive error or an inactivity timeout ends the socket.
StateClosed ==
  /\ Idle
  /\ socket
  /\ FatalDisconnectNow
  /\ UNCHANGED flight

\* A received record made the library produce one.  The receive stream flushes
\* it synchronously if nothing is pinned, or drains it before its handler ends.
ReceiveStreamOutput ==
  /\ Idle
  /\ socket /\ ~broken
  /\ transport = "TlsStream"
  /\ \/ pendingOutput' = TRUE
     \/ nPinned = 0 /\ pendingOutput' = FALSE
  /\ pc' = "Drain"
  /\ UNCHANGED <<lifeVars, queueVars, reservationVars, operationVars,
                 nPinned, nSendPlaintextHeld, broken, historyVars>>

\* The same where receives stay on readiness: fp_ProcessStateNow reads the
\* socket and drains nothing.
ReadinessOutput ==
  /\ Idle
  /\ socket /\ ~broken
  /\ transport = "TlsReadiness"
  /\ pendingOutput' = TRUE
  /\ UNCHANGED <<pc, lifeVars, queueVars, reservationVars, operationVars,
                 nPinned, nSendPlaintextHeld, broken, historyVars>>

\* The record layer ends: a close alert or a record that does not open.
RecordLayerEnds ==
  /\ Idle
  /\ socket /\ ~broken
  /\ Staging
  /\ broken' = TRUE
  /\ UNCHANGED <<pc, lifeVars, queueVars, reservationVars, operationVars,
                 nPinned, pendingOutput, nSendPlaintextHeld, historyVars>>

-----------------------------------------------------------------------------
(* fp_UpdateSend, one batch per step, and fp_DrainSocketOutput.            *)

\* The transport takes a prefix of the gather under a fresh reservation.
SubmitBatch ==
  /\ pc = "UpdateSend"
  /\ CanSubmitBatch
  /\ ~broken
  /\ \E nScheduled \in 1 .. GatherSendSpans :
       LET reservation == Head(freeReservations)
       IN  /\ flight' = Append(flight, Batch(reservation, nScheduled, GatherSendSpans))
           /\ sendReservations' = [sendReservations EXCEPT ![reservation] = nScheduled]
           /\ nOutgoingSubmitted' = nOutgoingSubmitted + nScheduled
           /\ nTaken' = GatherStart + nScheduled
  /\ freeReservations' = Tail(freeReservations)
  /\ nSendReservationsInUse' = nSendReservationsInUse + 1
  /\ nSendBytesUnreleased' = nSendBytesUnreleased + GatherSendSpans
  /\ nSendOpsInFlight' = nSendOpsInFlight + 1
  /\ nPinned' = nPinned + 1
  /\ pendingOutput' = FALSE
  /\ UNCHANGED <<pc, lifeVars, queueVars, unreleased, nSendPlaintextHeld, broken,
                 nAccepted, nOnWire, uncounted>>

\* Nothing of the gather is accepted, which is terminal.
RefuseBatch ==
  /\ pc = "UpdateSend"
  /\ CanSubmitBatch
  /\ FatalDisconnectNow
  /\ UNCHANGED flight

\* The platform takes a part of a sealed generation.  fp_SubmitPinnedSend tells
\* the actor that it was refused, and the actor disconnects without counting
\* it, but the operation stands: its completion and its release still arrive.
TakesPart(operations, operation) ==
  /\ Staging /\ ~broken
  /\ flight' = Append(operations, operation)
  /\ uncounted' = TRUE

\* The part that was taken holds the records of n bytes, never the whole batch.
SubmitPart ==
  /\ pc = "UpdateSend"
  /\ CanSubmitBatch
  /\ \E n \in 0 .. GatherSendSpans - 1 :
       /\ TakesPart(flight, Batch(Head(freeReservations), n, GatherSendSpans))
       /\ nTaken' = GatherStart + n
  /\ FatalDisconnect(nSendOpsInFlight, NoReservation)
  /\ UNCHANGED <<nSendOpsInFlight, unreleased, nAccepted, nOnWire>>

\* Mutant: forgets the disconnect that waits.
NeverShutdown == FALSE

\* A disconnect that waited for the queue can shut the socket down.
ShutdownDue == state = "Disconnected" /\ Drained /\ ~bShutdownCalled

\* The loop ends where no batch can be submitted; a drained disconnect shuts
\* the socket down.
EndUpdateSend ==
  /\ pc = "UpdateSend"
  /\ ~CanSubmitBatch
  /\ IF ShutdownDue
     THEN Shutdown
     ELSE pc' = "Drain" /\ UNCHANGED <<bShutdownCalled, transportVars>>
  /\ UNCHANGED <<transport, state, socket, destroyed, bDeferredShutdownCleanup, queueVars,
                 reservationVars, operationVars, historyVars>>

EndUpdateSendFails ==
  /\ pc = "UpdateSend"
  /\ ~CanSubmitBatch
  /\ ShutdownDue
  /\ FatalDisconnectNow
  /\ UNCHANGED flight

\* Mutant: leaves the output to the next batch while anything is pinned.
SubmitWhenUnpinned == HasPendingOutput /\ nPinned = 0

\* fp_DrainSocketOutput asks for one operation.
DrainWanted == HasPendingOutput

\* One continuation carries whatever the unpinned generation holds.
DrainSocketOutput ==
  /\ pc = "Drain"
  /\ IF DrainWanted
     THEN /\ ~broken
          /\ flight' = Append(flight, Continuation(NoReservation))
          /\ nSendOpsInFlight' = nSendOpsInFlight + 1
          /\ nPinned' = nPinned + 1
          /\ pendingOutput' = FALSE
     ELSE UNCHANGED <<flight, nSendOpsInFlight, nPinned, pendingOutput>>
  /\ pc' = "Idle"
  /\ UNCHANGED <<lifeVars, queueVars, reservationVars, nSendBytesUnreleased, unreleased,
                 nSendPlaintextHeld, broken, historyVars>>

DrainRefused ==
  /\ pc = "Drain"
  /\ DrainWanted
  /\ FatalDisconnectNow
  /\ UNCHANGED flight

\* The same with the generation taken in part.
DrainPart ==
  /\ pc = "Drain"
  /\ DrainWanted
  /\ TakesPart(flight, Continuation(NoReservation))
  /\ FatalDisconnect(nSendOpsInFlight, NoReservation)
  /\ UNCHANGED <<nSendOpsInFlight, unreleased, nAccepted, nTaken, nOnWire>>

-----------------------------------------------------------------------------
(* fp_SendCompleted, by what f_ResolveSend answers.                        *)

Completed == Head(flight)
CarriedBytes == Completed.to - Completed.from

TakeCompletion ==
  /\ pc = "Idle"
  /\ flight # <<>>
  /\ Completed.status # "Kernel"
  /\ unreleased' = [unreleased EXCEPT ![Completed.gathered] = @ + 1]

NeedsContinuation == HasPendingOutput /\ ~broken

\* Mutant: an operation that settled its reservation is not counted off.
KeepCounting(n) == n

\* Every completion counts off one operation.
CountCompletion(n) == Decrement(n)

\* The chain ended: settle the reservation, report its plaintext, look for more.
SendCompleted ==
  /\ TakeCompletion
  /\ Idle /\ socket
  /\ Completed.status = "Done"
  /\ ~NeedsContinuation
  /\ flight' = Tail(flight)
  /\ nSendOpsInFlight' = CountCompletion(nSendOpsInFlight)
  /\ ReleaseReservation(Completed.reservation)
  /\ ConsumeSentBytes(nSendPlaintextHeld + CarriedBytes)
  /\ nSendPlaintextHeld' = 0
  /\ pc' = "UpdateSend"
  /\ UNCHANGED <<lifeVars, nSendBytesUnreleased, nPinned, pendingOutput, broken, historyVars>>

\* The reservation a continuation travels with.
Inherited(r) == r

\* The transport holds more output: its continuation inherits the reservation.
SendContinued ==
  /\ TakeCompletion
  /\ Idle /\ socket
  /\ Completed.status = "Done"
  /\ NeedsContinuation
  /\ flight' = Append(Tail(flight), Continuation(Inherited(Completed.reservation)))
  /\ nSendPlaintextHeld' = nSendPlaintextHeld + CarriedBytes
  /\ nPinned' = nPinned + 1
  /\ pendingOutput' = FALSE
  /\ UNCHANGED <<pc, lifeVars, queueVars, reservationVars, nSendOpsInFlight,
                 nSendBytesUnreleased, broken, historyVars>>

\* The operation failed, or the continuation it needed was refused.
SendFailed ==
  /\ TakeCompletion
  /\ Idle /\ socket
  /\ Completed.status = "Done" => NeedsContinuation
  /\ flight' = Tail(flight)
  /\ nSendOpsInFlight' = CountCompletion(nSendOpsInFlight)
  /\ FatalDisconnect(CountCompletion(nSendOpsInFlight), Completed.reservation)
  /\ UNCHANGED historyVars

\* The platform takes a part of the generation the continuation was to carry.
SendContinuedPart ==
  /\ TakeCompletion
  /\ Idle /\ socket
  /\ Completed.status = "Done"
  /\ NeedsContinuation
  /\ TakesPart(Tail(flight), Continuation(Inherited(Completed.reservation)))
  /\ nSendOpsInFlight' = CountCompletion(nSendOpsInFlight)
  /\ FatalDisconnect(CountCompletion(nSendOpsInFlight), Completed.reservation)
  /\ UNCHANGED <<nAccepted, nTaken, nOnWire>>

\* The completion being handled is the last one a deferred cleanup waits for.
LastOfDeferred == CountCompletion(nSendOpsInFlight) = 0 /\ bDeferredShutdownCleanup

\* The socket is gone: every reservation goes back, and the last completion
\* runs the cleanup f_ShutdownDone deferred.
SendCompletedWithoutSocket ==
  /\ TakeCompletion
  /\ Idle /\ ~socket
  /\ flight' = Tail(flight)
  /\ nSendOpsInFlight' = CountCompletion(nSendOpsInFlight)
  /\ ResetSendReservations
  /\ IF LastOfDeferred
     THEN nOutgoingQueuedBytes' = 0 /\ bDeferredShutdownCleanup' = FALSE
     ELSE UNCHANGED <<nOutgoingQueuedBytes, bDeferredShutdownCleanup>>
  /\ UNCHANGED <<pc, transport, state, socket, destroyed, bShutdownCalled, nSentBytes,
                 outgoingDataPromises, transportVars, historyVars>>

\* A destroyed actor only counts.
SendCompletedDestroyed ==
  /\ TakeCompletion
  /\ destroyed = "Draining"
  /\ flight' = Tail(flight)
  /\ nSendOpsInFlight' = CountCompletion(nSendOpsInFlight)
  /\ UNCHANGED <<pc, lifeVars, queueVars, reservationVars, nSendBytesUnreleased,
                 transportVars, historyVars>>

\* Mutant: takes back what a teardown has zeroed.
ReturnAll(n) == n

\* Mutant: takes back less than the gather retained.
ReturnOne(n) == Minimum(1, Minimum(n, nSendBytesUnreleased))

\* What a release takes off the window; a teardown may have zeroed the count.
Returned(n) == Minimum(n, nSendBytesUnreleased)

\* Mutant: a release leaves the queue to the next completion.
AfterReleaseIdle == "Idle"

\* A release tries the queue again.
AfterRelease == "UpdateSend"

\* fp_SendBufferReleased: the window opens and the generation is unpinned.
SendBufferReleased(n) ==
  /\ pc = "Idle"
  /\ destroyed # "Done"
  /\ unreleased[n] > 0
  /\ unreleased' = [unreleased EXCEPT ![n] = @ - 1]
  /\ nSendBytesUnreleased' = nSendBytesUnreleased - Returned(n)
  /\ IF Idle /\ socket
     THEN nPinned' = nPinned - Minimum(1, nPinned) /\ pc' = AfterRelease
     ELSE UNCHANGED <<nPinned, pc>>
  /\ UNCHANGED <<lifeVars, queueVars, reservationVars, nSendOpsInFlight, flight,
                 pendingOutput, nSendPlaintextHeld, broken, historyVars>>

-----------------------------------------------------------------------------
(* fp_Destroy.                                                             *)

Destroy ==
  /\ Idle
  /\ destroyed' = "Draining"
  /\ ClearSocket
  /\ UNCHANGED <<pc, transport, state, bShutdownCalled, bDeferredShutdownCleanup, queueVars,
                 reservationVars, operationVars, historyVars>>

\* Mutant: waits for the queue, which nothing drains any more.
QueueDrained == flight = <<>> /\ nOutgoingQueuedBytes = 0

\* The operation tracker: no completion or release is owed any more.
TrackerDrained == flight = <<>> /\ \A n \in 0 .. MaxGather : unreleased[n] = 0

DestroyDone ==
  /\ destroyed = "Draining"
  /\ TrackerDrained
  /\ destroyed' = "Done"
  /\ nOutgoingQueuedBytes' = 0
  /\ outgoingDataPromises' = <<>>
  /\ UNCHANGED <<pc, transport, state, socket, bShutdownCalled, bDeferredShutdownCleanup,
                 nSentBytes, reservationVars, operationVars, transportVars, historyVars>>

Terminated == destroyed = "Done" /\ UNCHANGED vars

-----------------------------------------------------------------------------
(* The loop thread and the kernel.  Operations complete in wire order; an  *)
(* error fails whatever is left; closing the socket cancels it.            *)

InKernel(i) == flight[i].status = "Kernel"

Finish(status) ==
  /\ \E i \in DOMAIN flight : InKernel(i)
  /\ flight' = [i \in DOMAIN flight |->
                  IF InKernel(i) THEN [flight[i] EXCEPT !.status = status] ELSE flight[i]]
  /\ UNCHANGED <<pc, lifeVars, queueVars, reservationVars, nSendOpsInFlight,
                 nSendBytesUnreleased, unreleased, transportVars, historyVars>>

KernelCompletes ==
  /\ \E i \in DOMAIN flight :
       /\ InKernel(i)
       /\ \A j \in 1 .. i - 1 : ~InKernel(j)
       /\ flight' = [flight EXCEPT ![i].status = "Done"]
       /\ nOnWire' = IF nOnWire < flight[i].to THEN flight[i].to ELSE nOnWire
  /\ UNCHANGED <<pc, lifeVars, queueVars, reservationVars, nSendOpsInFlight,
                 nSendBytesUnreleased, unreleased, transportVars, nAccepted, nTaken,
                 uncounted>>

KernelFails == socket /\ Finish("Error")

KernelCancels == ~socket /\ Finish("Cancelled")

-----------------------------------------------------------------------------

User ==
  \/ \E n \in MinMessage .. MaxMessage : SendData(n)
  \/ GracefulDisconnect
  \/ GracefulDisconnectFails
  \/ Destroy

Network ==
  \/ StateWrite
  \/ StateClosed
  \/ ReceiveStreamOutput
  \/ ReadinessOutput
  \/ RecordLayerEnds
  \/ KernelFails

RunHandler ==
  \/ SubmitBatch
  \/ RefuseBatch
  \/ SubmitPart
  \/ EndUpdateSend
  \/ EndUpdateSendFails
  \/ DrainSocketOutput
  \/ DrainRefused
  \/ DrainPart

HandleCompletion ==
  \/ SendCompleted
  \/ SendContinued
  \/ SendContinuedPart
  \/ SendFailed
  \/ SendCompletedWithoutSocket
  \/ SendCompletedDestroyed

HandleRelease == \E n \in 0 .. MaxGather : SendBufferReleased(n)

KernelEnds == KernelCompletes \/ KernelCancels

Next ==
  \/ User
  \/ Network
  \/ RunHandler
  \/ HandleCompletion
  \/ HandleRelease
  \/ KernelEnds
  \/ DestroyDone
  \/ Terminated

Spec == Init /\ [][Next]_vars

\* A handler that started runs to its end; the mailbox is a FIFO, so a queued
\* completion or release is handled however many other messages keep coming;
\* the kernel ends every operation it was given.
Fairness ==
  /\ WF_vars(RunHandler)
  /\ SF_vars(HandleCompletion)
  /\ \A n \in 0 .. MaxGather : SF_vars(SendBufferReleased(n))
  /\ WF_vars(KernelEnds)
  /\ WF_vars(DestroyDone)

FairSpec == Spec /\ Fairness

-----------------------------------------------------------------------------
(* Properties.                                                             *)

\* The types of the variables.  A counter that wraps stays a natural number: that
\* none wraps but the one of OpsCounted is in OpsCounted and WindowAccounting.
TypeOK ==
  /\ transport \in Transports
  /\ pc \in {"Idle", "UpdateSend", "Drain"}
  /\ state \in {"Connected", "Disconnected"}
  /\ socket \in BOOLEAN
  /\ destroyed \in {"No", "Draining", "Done"}
  /\ nOutgoingQueuedBytes \in Nat
  /\ nOutgoingSubmitted \in Nat
  /\ nSentBytes \in Nat
  /\ outgoingDataPromises \in Seq(Nat)
  /\ sendReservations \in [Reservations -> Nat]
  /\ freeReservations \in Seq(Reservations)
  /\ nSendReservationsInUse \in Nat
  /\ nSendOpsInFlight \in Nat
  /\ nSendBytesUnreleased \in Nat
  /\ bShutdownCalled \in BOOLEAN
  /\ bDeferredShutdownCleanup \in BOOLEAN
  /\ flight \in Seq(Operation)
  /\ unreleased \in [0 .. MaxGather -> Nat]
  /\ nPinned \in Nat
  /\ pendingOutput \in BOOLEAN
  /\ nSendPlaintextHeld \in Nat
  /\ broken \in BOOLEAN
  /\ nAccepted \in Nat
  /\ nTaken \in Nat
  /\ nOnWire \in Nat
  /\ uncounted \in BOOLEAN

\* A gather continues exactly where the bytes handed to the transport end: no
\* byte of the queue is gathered twice (f_GatherSendSpans, "Skip bytes reserved
\* by earlier operations") and none is skipped, whatever mix of prefixes,
\* completions, continuations and releases came before.
GatherContinues == socket => nSentBytes + nOutgoingSubmitted = nTaken

LiveReservations == {r \in Reservations : sendReservations[r] # 0}

\* Every live reservation is carried by exactly one operation, so it will be
\* settled once, and the free list of f_SizeSendReservations holds exactly the
\* others, so the pool neither leaks an entry nor hands one out twice.
ReservationsOwned ==
  socket =>
    /\ \A r \in LiveReservations : \E i \in DOMAIN flight : flight[i].reservation = r
    /\ \A i, j \in DOMAIN flight :
         i # j /\ flight[i].reservation = flight[j].reservation
           => flight[i].reservation = NoReservation
    /\ Len(freeReservations) + nSendReservationsInUse = Pool
    /\ \A i \in DOMAIN freeReservations : freeReservations[i] \notin LiveReservations
    /\ \A i, j \in DOMAIN freeReservations :
         i # j => freeReservations[i] # freeReservations[j]

\* The sum of w[1], ..., w[n].
SumTo(w, n) ==
  LET total[i \in 0 .. n] == IF i = 0 THEN 0 ELSE total[i - 1] + w[i]
  IN  total[n]

\* The bytes a list of operations gathered.
Gathered(ops) == SumTo([i \in 1 .. Len(ops) |-> ops[i].gathered], Len(ops))

\* How many releases are owed, and how many bytes they give back, when owed[n]
\* operations of size n await theirs.
OpsOwed(owed) == owed[0] + SumTo(owed, MaxGather)
BytesOwed(owed) == SumTo([n \in 1 .. MaxGather |-> n * owed[n]], MaxGather)

\* The byte window measures exactly the gathers whose release is owed, and a
\* generation is pinned exactly while its operation's release is owed: neither
\* count drifts however completions and releases interleave.
WindowAccounting ==
  socket =>
    /\ nSendBytesUnreleased = Gathered(flight) + BytesOwed(unreleased)
    /\ nPinned = Len(flight) + OpsOwed(unreleased)
    /\ Cardinality(LiveReservations) = nSendReservationsInUse

\* The completions owed of the operations the actor counted; one it took for
\* refused is the last to be owed.
CountedCompletions ==
  IF uncounted /\ flight # <<>> THEN Len(flight) - 1 ELSE Len(flight)

\* m_nSendOpsInFlight counts the completions the actor is still owed, over
\* prefixes, continuations, losses and a destroy, so f_ShutdownDone releases the
\* queue only when no counted operation pins it.  One operation escapes it: the
\* generation the platform took in part, which only a lost socket leaves in
\* flight.  The count stays one short, and the last completion finds it at zero,
\* against the check at the head of fp_SendCompleted, and wraps it.
OpsCounted ==
  /\ uncounted => ~socket
  /\ nSendOpsInFlight =
       IF uncounted /\ flight = <<>> THEN MaxUmint ELSE CountedCompletions

\* A dropped socket leaves nothing behind once the last counted completion is
\* handled, although the drop and the completion each do one half of the
\* cleanup, and an operation that escaped the count may report after it.
TransferStateReleased ==
  ~socket /\ destroyed = "No" /\ CountedCompletions = 0 =>
    /\ nOutgoingQueuedBytes = 0
    /\ nOutgoingSubmitted = 0
    /\ LiveReservations = {}
    /\ ~bDeferredShutdownCleanup

\* Between handlers, records the library produced wait only for a release, never
\* for a write edge that completion sends do not get (fp_DrainSocketOutput).
OutputDrained ==
  pc = "Idle" /\ socket /\ Staging /\ ~broken /\ pendingOutput => nPinned >= Depth

\* Between handlers no promise stays open whose bytes are all reported sent:
\* only a later completion could still resolve it.
PromisesAhead ==
  pc = "Idle" /\ socket =>
    \A i \in DOMAIN outgoingDataPromises : outgoingDataPromises[i] > nSentBytes

\* What the caller of the actor sees of it.
Phase ==
  IF ~socket THEN "Gone"
  ELSE IF bShutdownCalled THEN "Shut"
  ELSE IF state = "Connected" THEN "Open"
  ELSE "Closing"

Stream == INSTANCE SendStream WITH
  phase <- Phase, accepted <- nAccepted, onWire <- nOnWire,
  reported <- nSentBytes, promises <- outgoingDataPromises

\* The actor implements the stream it promises: futures resolve in order and
\* only for bytes the kernel completed, a graceful close shuts down only behind
\* the last byte, a lost socket resolves nothing.
ImplementsStream == Stream!Spec

\* The peer stops sending records the library has to answer.
QuietPeer == <>[][~ReceiveStreamOutput /\ ~ReadinessOutput]_vars

IsOpen(p) == \E i \in DOMAIN outgoingDataPromises : outgoingDataPromises[i] = p

\* Every f_SendData future settles, whatever the transport ends up doing: the
\* gates of fp_UpdateSend reopen and each failure abandons what it strands.
\* (A position names one promise because a message has at least one byte.)
SendsSettle == QuietPeer => \A p \in 1 .. MaxBytes : IsOpen(p) ~> ~IsOpen(p)

\* A graceful close that had to wait for queued or in-flight data shuts the
\* write side down.
CloseCompletes == QuietPeer => (state = "Disconnected" ~> (bShutdownCalled \/ ~socket))

\* fp_Destroy's wait for the operation tracker ends.
DestroyCompletes == destroyed = "Draining" ~> destroyed = "Done"
=============================================================================

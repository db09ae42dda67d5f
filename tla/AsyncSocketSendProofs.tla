----------------------- MODULE AsyncSocketSendProofs -----------------------
(***************************************************************************)
(* Proofs about AsyncSocketSend for every depth, window, pool and message  *)
(* size, on the transports whose receives arrive as a stream (plain or     *)
(* TLS): its types, that every gather continues where the bytes handed to  *)
(* the transport end, that a lost socket leaves nothing behind, and that   *)
(* the actor implements the stream it promises its callers.                *)
(***************************************************************************)
EXTENDS AsyncSocketSend, TLAPS, FiniteSetTheorems, SequenceTheorems, WellFoundedInduction

\* No socket of the actor keeps its receives on readiness.
StreamReceives == "TlsReadiness" \notin Transports

-----------------------------------------------------------------------------
(* The inductive invariant.                                                *)

\* A handler runs only with a socket, a live socket means a live actor, and a
\* socket that was dropped leaves the actor disconnected or destroyed.
Lifecycle ==
  /\ pc # "Idle" => socket
  /\ socket => destroyed = "No"
  /\ ~socket => state = "Disconnected" \/ destroyed # "No"
  /\ ~socket => ~pendingOutput

\* With a receive stream no chain is ever continued, so nothing is held back.
NothingHeld == nSendPlaintextHeld = 0

\* The bytes reserved are the bytes taken and not yet reported sent, and all
\* of them are still queued.
Reserved ==
  socket =>
    /\ nSentBytes + nOutgoingSubmitted = nTaken
    /\ nOutgoingSubmitted <= nOutgoingQueuedBytes

\* The operations in flight carry adjacent ranges, from the bytes reported
\* sent to the bytes taken.
Chain ==
  socket =>
    /\ flight = <<>> => nSentBytes = nTaken
    /\ flight # <<>> => flight[1].from = nSentBytes /\ flight[Len(flight)].to = nTaken
    /\ \A i \in 1 .. Len(flight) : flight[i].from <= flight[i].to /\ flight[i].to <= nTaken
    /\ \A i \in 1 .. Len(flight) - 1 : flight[i + 1].from = flight[i].to

\* An operation carries exactly the bytes of its reservation.
Carried ==
  socket =>
    \A i \in 1 .. Len(flight) :
      IF flight[i].reservation = NoReservation
      THEN flight[i].from = flight[i].to
      ELSE /\ flight[i].from < flight[i].to
           /\ sendReservations[flight[i].reservation] = flight[i].to - flight[i].from

InUseCounted == socket => nSendReservationsInUse = Cardinality(LiveReservations)

IndInv ==
  /\ TypeOK
  /\ Lifecycle
  /\ NothingHeld
  /\ OutputDrained
  /\ OpsCounted
  /\ Reserved
  /\ Chain
  /\ Carried
  /\ ReservationsOwned
  /\ InUseCounted

-----------------------------------------------------------------------------
(* The initial state.                                                      *)

\* The initial state of the actor satisfies the invariant: nothing queued,
\* every reservation free.
LEMMA InitInv == StreamReceives /\ Init => IndInv
<1> SUFFICES ASSUME StreamReceives, Init PROVE IndInv
  OBVIOUS
<1> USE SendAssumption
<1>1. AllFree \in Seq(Reservations) /\ Len(AllFree) = Pool
  <2>1. AllFree \in [1 .. Pool -> Reservations]
    BY DEF AllFree, Reservations
  <2> QED BY <2>1
<1>2. LiveReservations = {}
  BY DEF Init, LiveReservations, NoBytes, Reservations
<1>3. TypeOK
  BY <1>1, EmptySeq DEF Init, TypeOK, NoBytes
<1>4. Lifecycle /\ NothingHeld /\ OutputDrained /\ OpsCounted /\ Reserved
  BY DEF Init, Lifecycle, NothingHeld, OutputDrained, OpsCounted, CountedCompletions, Reserved
<1>5. Chain /\ Carried
  BY DEF Init, Chain, Carried
<1>6. ReservationsOwned
  BY <1>1, <1>2 DEF Init, ReservationsOwned, AllFree, Reservations
<1>7. InUseCounted
  BY <1>2, FS_EmptySet DEF Init, InUseCounted
<1> QED BY <1>3, <1>4, <1>5, <1>6, <1>7 DEF IndInv

-----------------------------------------------------------------------------
(* What a step may do to the ledger of bytes, operations and reservations. *)

\* An operation is appended that carries the bytes gathered for it.
Submits ==
  /\ SubmitBatch
  /\ socket' = socket

\* A continuation is appended that carries library records only.
Continues ==
  /\ flight' = Append(flight, Continuation(NoReservation))
  /\ UNCHANGED <<socket, nSentBytes, nOutgoingQueuedBytes, reservationVars, nTaken>>

\* The oldest operation settles its reservation and reports its bytes.
Settles ==
  /\ SendCompleted
  /\ flight # <<>>
  /\ nSendPlaintextHeld = 0
  /\ UNCHANGED <<socket, nTaken>>

\* Operations change their status only, and bytes are only added to the queue.
Keeps ==
  /\ Len(flight') = Len(flight)
  /\ \A i \in 1 .. Len(flight) :
       /\ flight'[i].reservation = flight[i].reservation
       /\ flight'[i].from = flight[i].from
       /\ flight'[i].to = flight[i].to
  /\ nOutgoingQueuedBytes' >= nOutgoingQueuedBytes
  /\ UNCHANGED <<socket, nSentBytes, reservationVars, nTaken>>

LedgerStep ==
  \/ socket' = FALSE
  \/ Submits
  \/ Continues
  \/ Settles
  \/ Keeps

\* A receive-stream transport never has a chain to continue: each handler that
\* can leave library records behind drains them before it ends.
LEMMA NoContinuation == StreamReceives /\ IndInv => ~SendContinued /\ ~SendContinuedPart
<1> SUFFICES ASSUME StreamReceives, IndInv, SendContinued \/ SendContinuedPart PROVE FALSE
  OBVIOUS
<1>1. Depth \in Nat /\ nPinned \in Nat
  BY SendAssumption DEF IndInv, TypeOK
<1> QED
  BY <1>1 DEF IndInv, OutputDrained, SendContinued, SendContinuedPart, Idle, NeedsContinuation,
    HasPendingOutput, CanBeginSend

\* Status changes of the kernel keep the ledger.
LEMMA FinishKeeps ==
  ASSUME TypeOK, NEW s, Finish(s)
  PROVE  Keeps
<1>1. flight \in Seq(Operation)
  BY DEF TypeOK
<1>2. DOMAIN flight = 1 .. Len(flight) /\ Len(flight) \in Nat
  BY <1>1
<1>3. flight' = [i \in 1 .. Len(flight) |->
                   IF InKernel(i) THEN [flight[i] EXCEPT !.status = s] ELSE flight[i]]
  BY <1>2 DEF Finish
<1>4. Len(flight') = Len(flight)
  BY <1>2, <1>3
<1>5. ASSUME NEW i \in 1 .. Len(flight)
      PROVE  /\ flight'[i].reservation = flight[i].reservation
             /\ flight'[i].from = flight[i].from
             /\ flight'[i].to = flight[i].to
  <2>1. flight[i] \in Operation
    BY <1>1
  <2> QED BY <1>3, <2>1 DEF Operation
<1> QED
  BY <1>4, <1>5 DEF Finish, Keeps, TypeOK, lifeVars, queueVars, reservationVars, historyVars

LEMMA KernelCompletesKeeps ==
  ASSUME TypeOK, KernelCompletes
  PROVE  Keeps
<1>1. flight \in Seq(Operation)
  BY DEF TypeOK
<1>2. PICK k \in DOMAIN flight : flight' = [flight EXCEPT ![k].status = "Done"]
  BY DEF KernelCompletes
<1>3. Len(flight') = Len(flight)
  BY <1>1, <1>2
<1>4. ASSUME NEW i \in 1 .. Len(flight)
      PROVE  /\ flight'[i].reservation = flight[i].reservation
             /\ flight'[i].from = flight[i].from
             /\ flight'[i].to = flight[i].to
  <2>1. flight[i] \in Operation
    BY <1>1
  <2> QED BY <1>1, <1>2, <2>1 DEF Operation
<1> QED
  BY <1>3, <1>4 DEF KernelCompletes, Keeps, TypeOK, lifeVars, queueVars, reservationVars

\* Every step of the actor is one of the ledger steps.
LEMMA LedgerSteps ==
  ASSUME StreamReceives, IndInv, [Next]_vars
  PROVE  LedgerStep
<1> USE DEF lifeVars, queueVars, reservationVars, operationVars, historyVars
<1>t. TypeOK
  BY DEF IndInv
<1>n. nOutgoingQueuedBytes \in Nat /\ flight \in Seq(Operation)
  BY <1>t DEF TypeOK
<1>1. CASE User
  <2>1. ASSUME NEW n \in MinMessage .. MaxMessage, SendData(n) PROVE LedgerStep
    BY <1>n, <2>1, SendAssumption DEF SendData, WriteQueuedMessages, LedgerStep, Keeps
  <2>2. CASE GracefulDisconnect
    BY <1>n, <2>2 DEF GracefulDisconnect, LedgerStep, Keeps
  <2>3. CASE GracefulDisconnectFails
    BY <2>3 DEF GracefulDisconnectFails, FatalDisconnectNow, FatalDisconnect, ClearSocket,
      LedgerStep
  <2>4. CASE Destroy
    BY <2>4 DEF Destroy, ClearSocket, LedgerStep
  <2> QED BY <1>1, <2>1, <2>2, <2>3, <2>4 DEF User
<1>2. CASE Network
  <2>1. CASE StateWrite
    BY <1>n, <2>1 DEF StateWrite, LedgerStep, Keeps
  <2>2. CASE StateClosed
    BY <2>2 DEF StateClosed, FatalDisconnectNow, FatalDisconnect, ClearSocket, LedgerStep
  <2>3. CASE ReceiveStreamOutput \/ ReadinessOutput \/ RecordLayerEnds
    BY <1>n, <2>3 DEF ReceiveStreamOutput, ReadinessOutput, RecordLayerEnds, LedgerStep, Keeps
  <2>4. CASE KernelFails
    BY <1>t, <2>4, FinishKeeps DEF KernelFails, LedgerStep
  <2> QED BY <1>2, <2>1, <2>2, <2>3, <2>4 DEF Network
<1>3. CASE RunHandler
  <2>1. CASE SubmitBatch
    BY <2>1 DEF SubmitBatch, LedgerStep, Submits
  <2>2. CASE RefuseBatch
    BY <2>2 DEF RefuseBatch, FatalDisconnectNow, FatalDisconnect, ClearSocket, LedgerStep
  <2>3. CASE EndUpdateSend
    BY <1>n, <2>3 DEF EndUpdateSend, LedgerStep, Keeps
  <2>4. CASE EndUpdateSendFails
    BY <2>4 DEF EndUpdateSendFails, FatalDisconnectNow, FatalDisconnect, ClearSocket,
      LedgerStep
  <2>5. CASE DrainSocketOutput
    BY <1>n, <2>5 DEF DrainSocketOutput, LedgerStep, Keeps, Continues
  <2>6. CASE DrainRefused
    BY <2>6 DEF DrainRefused, FatalDisconnectNow, FatalDisconnect, ClearSocket, LedgerStep
  <2>7. CASE SubmitPart \/ DrainPart
    BY <2>7 DEF SubmitPart, DrainPart, FatalDisconnect, ClearSocket, LedgerStep
  <2> QED BY <1>3, <2>1, <2>2, <2>3, <2>4, <2>5, <2>6, <2>7 DEF RunHandler
<1>4. CASE HandleCompletion
  <2>1. CASE SendCompleted
    BY <2>1 DEF SendCompleted, TakeCompletion, IndInv, NothingHeld, LedgerStep, Settles
  <2>2. CASE SendContinued
    BY <2>2, NoContinuation
  <2>3. CASE SendFailed
    BY <2>3 DEF SendFailed, FatalDisconnect, ClearSocket, LedgerStep
  <2>4. CASE SendCompletedWithoutSocket
    BY <2>4, <1>t DEF SendCompletedWithoutSocket, TypeOK, LedgerStep
  <2>5. CASE SendCompletedDestroyed
    <3>1. ~socket
      BY <1>t, <2>5 DEF SendCompletedDestroyed, IndInv, Lifecycle
    <3> QED BY <1>t, <2>5, <3>1 DEF SendCompletedDestroyed, TypeOK, LedgerStep
  <2> QED BY <1>4, <2>1, <2>2, <2>3, <2>4, <2>5, NoContinuation DEF HandleCompletion
<1>5. CASE HandleRelease
  BY <1>n, <1>5 DEF HandleRelease, SendBufferReleased, LedgerStep, Keeps
<1>6. CASE KernelEnds
  BY <1>t, <1>6, FinishKeeps, KernelCompletesKeeps DEF KernelEnds, KernelCancels, LedgerStep
<1>7. CASE DestroyDone
  <2>1. ~socket
    BY <1>7 DEF DestroyDone, IndInv, Lifecycle
  <2> QED BY <1>t, <1>7, <2>1 DEF DestroyDone, TypeOK, LedgerStep
<1>8. CASE Terminated \/ UNCHANGED vars
  BY <1>n, <1>8 DEF Terminated, vars, LedgerStep, Keeps
<1> QED
  BY <1>1, <1>2, <1>3, <1>4, <1>5, <1>6, <1>7, <1>8 DEF Next

-----------------------------------------------------------------------------
(* The operation whose completion is handled.                              *)

LEMMA LiveFinite ==
  ASSUME TypeOK
  PROVE  IsFiniteSet(LiveReservations) /\ Cardinality(LiveReservations) \in Nat
<1>1. IsFiniteSet(Reservations)
  BY FS_Interval, SendAssumption DEF Reservations
<1>2. LiveReservations \in SUBSET Reservations
  BY DEF LiveReservations
<1> QED BY <1>1, <1>2, FS_Subset, FS_CardinalityType

\* The oldest operation starts at the bytes reported sent and carries the bytes
\* of its reservation, all of which are reserved and queued.
LEMMA OldestOperation ==
  ASSUME IndInv, socket, flight # <<>>
  PROVE  /\ Completed \in Operation /\ Completed = flight[1]
         /\ Completed.from = nSentBytes
         /\ CarriedBytes \in Nat
         /\ Completed.to <= nTaken
         /\ CarriedBytes <= nOutgoingSubmitted /\ CarriedBytes <= nOutgoingQueuedBytes
         /\ Completed.reservation = NoReservation => CarriedBytes = 0
         /\ Completed.reservation # NoReservation =>
              /\ Completed.reservation \in LiveReservations
              /\ sendReservations[Completed.reservation] = CarriedBytes
              /\ CarriedBytes > 0
<1> USE DEF IndInv
<1>1. flight \in Seq(Operation) /\ Len(flight) \in Nat \ {0}
  BY EmptySeq DEF TypeOK
<1>2. Completed = flight[1] /\ Completed \in Operation
  BY <1>1 DEF Completed
<1>3. 1 \in 1 .. Len(flight)
  BY <1>1
<1>4. /\ Completed.from = nSentBytes
      /\ Completed.from <= Completed.to /\ Completed.to <= nTaken
  BY <1>2, <1>3 DEF Chain
<1>5. /\ Completed.from \in Nat /\ Completed.to \in Nat
      /\ Completed.reservation \in Reservations \cup {NoReservation}
  BY <1>2 DEF Operation
<1>6. /\ nOutgoingSubmitted = nTaken - nSentBytes
      /\ nOutgoingSubmitted <= nOutgoingQueuedBytes
  BY DEF Reserved, TypeOK
<1>7. /\ CarriedBytes \in Nat
      /\ CarriedBytes <= nOutgoingSubmitted /\ CarriedBytes <= nOutgoingQueuedBytes
  BY <1>4, <1>5, <1>6 DEF CarriedBytes, TypeOK
<1>8. IF Completed.reservation = NoReservation
      THEN Completed.from = Completed.to
      ELSE /\ Completed.from < Completed.to
           /\ sendReservations[Completed.reservation] = CarriedBytes
  BY <1>2, <1>3 DEF Carried, CarriedBytes
<1> QED
  BY <1>2, <1>4, <1>5, <1>7, <1>8 DEF CarriedBytes, LiveReservations

\* Settling the oldest operation's reservation keeps the types.
LEMMA ReleaseTypes ==
  ASSUME IndInv, socket, flight # <<>>, ReleaseReservation(Completed.reservation)
  PROVE  /\ nOutgoingSubmitted' \in Nat
         /\ sendReservations' \in [Reservations -> Nat]
         /\ freeReservations' \in Seq(Reservations)
         /\ nSendReservationsInUse' \in Nat
<1> DEFINE r == Completed.reservation
<1>t. TypeOK
  BY DEF IndInv
<1>1. CASE r = NoReservation \/ sendReservations[r] = 0
  BY <1>1, <1>t DEF ReleaseReservation, TypeOK, reservationVars
<1>2. CASE r # NoReservation /\ sendReservations[r] # 0
  <2>1. /\ r \in Reservations /\ r \in LiveReservations
        /\ sendReservations[r] <= nOutgoingSubmitted
    BY <1>2, OldestOperation DEF LiveReservations
  <2>2. nSendReservationsInUse \in Nat \ {0}
    BY <1>t, <2>1, LiveFinite, FS_EmptySet DEF IndInv, InUseCounted
  <2>3. <<r>> \in Seq(Reservations)
    BY <2>1
  <2>4. <<r>> \o freeReservations \in Seq(Reservations)
    BY <1>t, <2>3, ConcatProperties DEF TypeOK
  <2>5. /\ nOutgoingSubmitted' = nOutgoingSubmitted - sendReservations[r]
        /\ sendReservations' = [sendReservations EXCEPT ![r] = 0]
        /\ freeReservations' = <<r>> \o freeReservations
        /\ nSendReservationsInUse' = nSendReservationsInUse - 1
    BY <1>2 DEF ReleaseReservation
  <2>6. sendReservations[r] \in Nat /\ nOutgoingSubmitted \in Nat
    BY <1>t, <2>1 DEF TypeOK
  <2>7. nOutgoingSubmitted' \in Nat /\ nSendReservationsInUse' \in Nat
    BY <2>1, <2>2, <2>5, <2>6
  <2>8. sendReservations' \in [Reservations -> Nat]
    BY <1>t, <2>5 DEF TypeOK
  <2> QED
    BY <2>4, <2>5, <2>7, <2>8
<1> QED BY <1>1, <1>2

-----------------------------------------------------------------------------
(* Type correctness.                                                       *)

\* The variables of the reservations keep their types.
ReservationTypes ==
  /\ nOutgoingSubmitted \in Nat
  /\ sendReservations \in [Reservations -> Nat]
  /\ freeReservations \in Seq(Reservations)
  /\ nSendReservationsInUse \in Nat

LEMMA ResetTypes ==
  ASSUME ResetSendReservations
  PROVE  ReservationTypes' /\ nSendBytesUnreleased' \in Nat
<1>1. AllFree \in [1 .. Pool -> Reservations] /\ Pool \in Nat
  BY SendAssumption DEF AllFree, Reservations
<1>2. AllFree \in Seq(Reservations)
  BY <1>1
<1>3. NoBytes \in [Reservations -> Nat]
  BY DEF NoBytes
<1> QED BY <1>2, <1>3 DEF ResetSendReservations, ReservationTypes

\* A fatal disconnect either resets the reservations or settles one of them.
LEMMA FatalTypes ==
  ASSUME TypeOK, NEW STATE n, NEW STATE r, FatalDisconnect(n, r),
         ReleaseReservation(r) => ReservationTypes',
         nSendOpsInFlight' \in Nat, flight' \in Seq(Operation),
         unreleased' \in [0 .. MaxGather -> Nat],
         nTaken' \in Nat, uncounted' \in BOOLEAN, UNCHANGED <<nAccepted, nOnWire>>
  PROVE  TypeOK'
<1>1. CASE DeferCleanup(n)
  <2>1. ReservationTypes' /\ nSendBytesUnreleased' \in Nat
    BY <1>1 DEF FatalDisconnect, TypeOK
  <2>2. /\ nOutgoingQueuedBytes' \in Nat /\ nSentBytes' \in Nat
        /\ bDeferredShutdownCleanup' \in BOOLEAN
    BY <1>1 DEF FatalDisconnect, TypeOK
  <2> QED BY <2>1, <2>2, EmptySeq DEF FatalDisconnect, ClearSocket, TypeOK, ReservationTypes
<1>2. CASE ~DeferCleanup(n)
  <2>1. ReservationTypes' /\ nSendBytesUnreleased' \in Nat
    BY <1>2, ResetTypes DEF FatalDisconnect, ReleaseTransferState
  <2>2. /\ nOutgoingQueuedBytes' \in Nat /\ nSentBytes' \in Nat
        /\ bDeferredShutdownCleanup' \in BOOLEAN
    BY <1>2 DEF FatalDisconnect, ReleaseTransferState, TypeOK
  <2> QED BY <2>1, <2>2, EmptySeq DEF FatalDisconnect, ClearSocket, TypeOK, ReservationTypes
<1> QED BY <1>1, <1>2

LEMMA FatalNowTypes ==
  ASSUME TypeOK, FatalDisconnectNow, UNCHANGED flight
  PROVE  TypeOK'
<1>1. ReleaseReservation(NoReservation) => ReservationTypes'
  BY DEF ReleaseReservation, ReservationTypes, TypeOK, reservationVars
<1> QED
  BY <1>1, FatalTypes DEF FatalDisconnectNow, TypeOK, historyVars

\* Where a batch may be submitted, a reservation is free.
LEMMA FreeReservation ==
  ASSUME IndInv, socket, CanSubmitBatch
  PROVE  freeReservations # <<>>
<1>t. TypeOK
  BY DEF IndInv
<1>1. nSendReservationsInUse < Pool
  BY <1>t, SendAssumption DEF CanSubmitBatch, MaxReservationsInUse, TypeOK
<1>2. Len(freeReservations) + nSendReservationsInUse = Pool
  BY DEF IndInv, ReservationsOwned
<1>3. Len(<<>>) = 0
  BY EmptySeq
<1> QED  BY <1>t, <1>1, <1>2, <1>3, SendAssumption DEF TypeOK

\* A batch takes the first free reservation, and there is one.
LEMMA SubmitTypes ==
  ASSUME IndInv, SubmitBatch
  PROVE  TypeOK'
<1> USE SendAssumption
<1>t. TypeOK
  BY DEF IndInv
<1>1. PICK nScheduled \in 1 .. GatherSendSpans :
        LET reservation == Head(freeReservations)
        IN  /\ flight' = Append(flight, Batch(reservation, nScheduled, GatherSendSpans))
            /\ sendReservations' = [sendReservations EXCEPT ![reservation] = nScheduled]
            /\ nOutgoingSubmitted' = nOutgoingSubmitted + nScheduled
            /\ nTaken' = GatherStart + nScheduled
  BY DEF SubmitBatch
<1>2. GatherSendSpans \in 1 .. MaxGather
  BY <1>t DEF SubmitBatch, CanSubmitBatch, GatherSendSpans, Minimum, TypeOK
<1>3. nScheduled \in Nat /\ nScheduled > 0 /\ GatherStart \in Nat
  BY <1>t, <1>1, <1>2 DEF GatherStart, TypeOK
<1>4. socket /\ CanSubmitBatch
  BY <1>t DEF IndInv, Lifecycle, SubmitBatch
<1>5. freeReservations # <<>>
  BY <1>4, FreeReservation
<1>6. Head(freeReservations) \in Reservations /\ Tail(freeReservations) \in Seq(Reservations)
  BY <1>t, <1>5, HeadTailProperties DEF TypeOK
<1>7. Batch(Head(freeReservations), nScheduled, GatherSendSpans) \in Operation
  BY <1>2, <1>3, <1>6 DEF Batch, Operation
<1>8. flight' \in Seq(Operation)
  BY <1>t, <1>1, <1>7, AppendProperties DEF TypeOK
<1>9. sendReservations' \in [Reservations -> Nat]
  BY <1>t, <1>1, <1>3 DEF TypeOK
<1>10. nOutgoingSubmitted' \in Nat /\ nTaken' \in Nat
  BY <1>t, <1>1, <1>3 DEF TypeOK
<1>11. nSendBytesUnreleased' \in Nat
  BY <1>t, <1>2 DEF SubmitBatch, TypeOK
<1>12. /\ freeReservations' = Tail(freeReservations)
       /\ nSendReservationsInUse' = nSendReservationsInUse + 1
       /\ nSendOpsInFlight' = nSendOpsInFlight + 1
       /\ nPinned' = nPinned + 1
       /\ pendingOutput' = FALSE
       /\ UNCHANGED <<pc, lifeVars, queueVars, unreleased, nSendPlaintextHeld, broken,
                      nAccepted, nOnWire, uncounted>>
  BY DEF SubmitBatch
<1>13. nSendReservationsInUse' \in Nat /\ nSendOpsInFlight' \in Nat /\ nPinned' \in Nat
  BY <1>t, <1>12 DEF TypeOK
<1>14. freeReservations' \in Seq(Reservations)
  BY <1>6, <1>12
<1> HIDE SendAssumption
<1> QED
  BY <1>t, <1>8, <1>9, <1>10, <1>11, <1>12, <1>13, <1>14 DEF TypeOK, lifeVars, queueVars

\* A part of a generation is taken: the socket is dropped over an operation that
\* no count knows of, and whose bytes were accepted.
LEMMA PartTaken ==
  ASSUME IndInv, SubmitPart \/ DrainPart
  PROVE  /\ socket /\ FatalDisconnect(nSendOpsInFlight, NoReservation)
         /\ uncounted' = TRUE /\ nTaken' \in Nat
         /\ UNCHANGED <<nSendOpsInFlight, unreleased, nAccepted, nOnWire>>
         /\ \E op \in Operation :
              /\ flight' = Append(flight, op)
              /\ op.status = "Kernel"
              /\ op.to <= nSentBytes + nOutgoingQueuedBytes
<1>t. TypeOK
  BY DEF IndInv
<1>1. /\ FatalDisconnect(nSendOpsInFlight, NoReservation)
      /\ uncounted' = TRUE
      /\ UNCHANGED <<nSendOpsInFlight, unreleased, nAccepted, nOnWire>>
  BY DEF SubmitPart, DrainPart, TakesPart
<1>2. socket
  BY DEF IndInv, Lifecycle, SubmitPart, DrainPart
<1>3. /\ nSentBytes \in Nat /\ nOutgoingSubmitted \in Nat /\ nOutgoingQueuedBytes \in Nat
      /\ nTaken = nSentBytes + nOutgoingSubmitted /\ nOutgoingSubmitted <= nOutgoingQueuedBytes
  BY <1>t, <1>2 DEF IndInv, Reserved, TypeOK
<1>4. CASE SubmitPart
  <2>1. PICK n \in 0 .. GatherSendSpans - 1 :
          /\ flight' = Append(flight, Batch(Head(freeReservations), n, GatherSendSpans))
          /\ nTaken' = GatherStart + n
    BY <1>4 DEF SubmitPart, TakesPart
  <2>2. CanSubmitBatch
    BY <1>4 DEF SubmitPart
  <2>3. /\ GatherSendSpans \in 1 .. MaxGather
        /\ GatherSendSpans <= nOutgoingQueuedBytes - nOutgoingSubmitted
    BY <1>t, <2>2, SendAssumption DEF CanSubmitBatch, GatherSendSpans, Minimum, TypeOK
  <2>4. freeReservations # <<>>
    BY <1>2, <2>2, FreeReservation
  <2>5. Head(freeReservations) \in Reservations
    BY <1>t, <2>4, HeadTailProperties DEF TypeOK
  <2>6. n \in Nat /\ GatherStart \in Nat /\ GatherStart + n <= nSentBytes + nOutgoingQueuedBytes
    BY <1>3, <2>1, <2>3, SendAssumption DEF GatherStart
  <2>7. Batch(Head(freeReservations), n, GatherSendSpans) \in Operation
    BY <2>3, <2>5, <2>6 DEF Batch, Operation
  <2>8. /\ Batch(Head(freeReservations), n, GatherSendSpans).to = GatherStart + n
        /\ Batch(Head(freeReservations), n, GatherSendSpans).status = "Kernel"
    BY DEF Batch
  <2>9. nTaken' \in Nat
    BY <2>1, <2>6
  <2> QED  BY <1>1, <1>2, <2>1, <2>6, <2>7, <2>8, <2>9
<1>5. CASE DrainPart
  <2>1. flight' = Append(flight, Continuation(NoReservation)) /\ nTaken' = nTaken
    BY <1>5 DEF DrainPart, TakesPart
  <2>2. Continuation(NoReservation) \in Operation
    BY <1>t, SendAssumption DEF Continuation, Operation, TypeOK
  <2>3. Continuation(NoReservation).to = nTaken /\ Continuation(NoReservation).status = "Kernel"
    BY DEF Continuation
  <2>4. nTaken' \in Nat /\ nTaken <= nSentBytes + nOutgoingQueuedBytes
    BY <1>3, <2>1
  <2> QED  BY <1>1, <1>2, <2>1, <2>2, <2>3, <2>4
<1> QED  BY <1>4, <1>5

LEMMA PartTypes ==
  ASSUME IndInv, SubmitPart \/ DrainPart
  PROVE  TypeOK'
<1>t. TypeOK
  BY DEF IndInv
<1>1. /\ FatalDisconnect(nSendOpsInFlight, NoReservation)
      /\ uncounted' = TRUE /\ nTaken' \in Nat
      /\ UNCHANGED <<nSendOpsInFlight, unreleased, nAccepted, nOnWire>>
  BY PartTaken
<1>2. PICK op \in Operation : flight' = Append(flight, op)
  BY PartTaken
<1>3. flight' \in Seq(Operation)
  BY <1>t, <1>2, AppendProperties DEF TypeOK
<1>4. ReleaseReservation(NoReservation) => ReservationTypes'
  BY <1>t DEF ReleaseReservation, ReservationTypes, TypeOK, reservationVars
<1>5. nSendOpsInFlight' \in Nat /\ unreleased' \in [0 .. MaxGather -> Nat]
  BY <1>t, <1>1 DEF TypeOK
<1> QED  BY <1>t, <1>1, <1>3, <1>4, <1>5, FatalTypes

\* Operations change their status only to another status.
LEMMA FinishTypes ==
  ASSUME TypeOK, NEW s \in {"Done", "Error", "Cancelled"}, Finish(s)
  PROVE  TypeOK'
<1>1. flight \in Seq(Operation) /\ Len(flight) \in Nat /\ DOMAIN flight = 1 .. Len(flight)
  BY DEF TypeOK
<1>2. flight' = [i \in 1 .. Len(flight) |->
                   IF InKernel(i) THEN [flight[i] EXCEPT !.status = s] ELSE flight[i]]
  BY <1>1 DEF Finish
<1>3. ASSUME NEW i \in 1 .. Len(flight)
      PROVE  (IF InKernel(i) THEN [flight[i] EXCEPT !.status = s] ELSE flight[i]) \in Operation
  <2>1. flight[i] \in Operation
    BY <1>1
  <2>2. [flight[i] EXCEPT !.status = s] \in Operation
    BY <2>1 DEF Operation
  <2> QED BY <2>1, <2>2
<1>4. flight' \in Seq(Operation)
  BY <1>1, <1>2, <1>3
<1> QED
  BY <1>4 DEF Finish, TypeOK, lifeVars, queueVars, reservationVars, transportVars, historyVars

LEMMA KernelCompletesTypes ==
  ASSUME TypeOK, KernelCompletes
  PROVE  TypeOK'
<1>1. flight \in Seq(Operation) /\ Len(flight) \in Nat /\ DOMAIN flight = 1 .. Len(flight)
  BY DEF TypeOK
<1>2. PICK k \in DOMAIN flight :
        /\ flight' = [flight EXCEPT ![k].status = "Done"]
        /\ nOnWire' = IF nOnWire < flight[k].to THEN flight[k].to ELSE nOnWire
  BY DEF KernelCompletes
<1>3. flight[k] \in Operation
  BY <1>1, <1>2
<1>4. [flight[k] EXCEPT !.status = "Done"] \in Operation
  BY <1>3 DEF Operation
<1>5. flight' \in Seq(Operation)
  BY <1>1, <1>2, <1>4
<1>6. nOnWire' \in Nat
  BY <1>2, <1>3 DEF Operation, TypeOK
<1> QED
  BY <1>5, <1>6
  DEF KernelCompletes, TypeOK, lifeVars, queueVars, reservationVars, transportVars

\* The oldest operation is handled: its release is owed from now on.
LEMMA TakeTypes ==
  ASSUME TypeOK, TakeCompletion
  PROVE  /\ Completed \in Operation
         /\ Tail(flight) \in Seq(Operation)
         /\ unreleased' \in [0 .. MaxGather -> Nat]
<1>1. Completed \in Operation /\ Tail(flight) \in Seq(Operation)
  BY HeadTailProperties DEF TakeCompletion, Completed, TypeOK
<1>2. Completed.gathered \in 0 .. MaxGather
  BY <1>1 DEF Operation
<1> QED BY <1>1, <1>2 DEF TakeCompletion, TypeOK

LEMMA DecrementType ==
  ASSUME NEW n \in Nat
  PROVE  Decrement(n) \in Nat
BY SendAssumption DEF Decrement

\* The oldest operation reports its bytes and settles its reservation.
LEMMA SendCompletedTypes ==
  ASSUME IndInv, SendCompleted
  PROVE  TypeOK'
<1>t. TypeOK
  BY DEF IndInv
<1>1. socket /\ flight # <<>> /\ TakeCompletion
  BY DEF SendCompleted, TakeCompletion
<1>2. ReservationTypes'
  BY <1>1, ReleaseTypes DEF SendCompleted, ReservationTypes
<1>3. nSendOpsInFlight' \in Nat
  BY <1>t, DecrementType DEF SendCompleted, CountCompletion, TypeOK
<1>4. /\ CarriedBytes \in Nat /\ CarriedBytes <= nOutgoingQueuedBytes
      /\ nSendPlaintextHeld + CarriedBytes = CarriedBytes
  BY <1>1, OldestOperation DEF IndInv, NothingHeld
<1>5. ConsumeSentBytes(CarriedBytes)
  BY <1>4 DEF SendCompleted
<1>6. nSentBytes' \in Nat /\ nOutgoingQueuedBytes' \in Nat
  BY <1>t, <1>4, <1>5 DEF ConsumeSentBytes, TypeOK
<1>7. outgoingDataPromises' \in Seq(Nat)
  <2>1. CASE CarriedBytes = 0
    BY <1>t, <1>5, <2>1 DEF ConsumeSentBytes, TypeOK
  <2>2. CASE CarriedBytes # 0
    <3>1. PICK k \in 0 .. Len(outgoingDataPromises) :
            outgoingDataPromises' =
              SubSeq(outgoingDataPromises, k + 1, Len(outgoingDataPromises))
      BY <1>5, <2>2 DEF ConsumeSentBytes
    <3>2. outgoingDataPromises \in Seq(Nat)
      BY <1>t DEF TypeOK
    <3> QED BY <3>1, <3>2
  <2> QED BY <2>1, <2>2
<1>8. /\ flight' = Tail(flight)
      /\ nSendPlaintextHeld' = 0
      /\ pc' = "UpdateSend"
      /\ UNCHANGED <<lifeVars, nSendBytesUnreleased, nPinned, pendingOutput, broken,
                     historyVars>>
  BY DEF SendCompleted
<1> QED
  BY <1>t, <1>1, <1>2, <1>3, <1>6, <1>7, <1>8, TakeTypes
  DEF TypeOK, ReservationTypes, lifeVars, historyVars

\* The other completions of a receive-stream transport.
LEMMA OtherCompletionTypes ==
  ASSUME IndInv, SendFailed \/ SendCompletedWithoutSocket \/ SendCompletedDestroyed
  PROVE  TypeOK'
<1>t. TypeOK
  BY DEF IndInv
<1>1. TakeCompletion /\ flight' = Tail(flight) /\ flight # <<>>
      /\ nSendOpsInFlight' = CountCompletion(nSendOpsInFlight)
  BY DEF SendFailed, SendCompletedWithoutSocket, SendCompletedDestroyed, TakeCompletion
<1>2. nSendOpsInFlight' \in Nat
  BY <1>t, <1>1, DecrementType DEF CountCompletion, TypeOK
<1>3. flight' \in Seq(Operation) /\ unreleased' \in [0 .. MaxGather -> Nat]
  BY <1>t, <1>1, TakeTypes
<1>4. CASE SendFailed
  <2>1. ReleaseReservation(Completed.reservation) => ReservationTypes'
    BY <1>1, <1>4, ReleaseTypes DEF SendFailed, ReservationTypes
  <2>2. FatalDisconnect(CountCompletion(nSendOpsInFlight), Completed.reservation)
        /\ UNCHANGED historyVars
    BY <1>4 DEF SendFailed
  <2>3. nTaken' \in Nat /\ uncounted' \in BOOLEAN /\ UNCHANGED <<nAccepted, nOnWire>>
    BY <1>t, <2>2 DEF historyVars, TypeOK
  <2> QED BY <1>t, <1>2, <1>3, <2>1, <2>2, <2>3, FatalTypes
<1>5. CASE SendCompletedWithoutSocket
  <2>1. ReservationTypes' /\ nSendBytesUnreleased' \in Nat
    BY <1>5, ResetTypes DEF SendCompletedWithoutSocket
  <2>2. nOutgoingQueuedBytes' \in Nat /\ bDeferredShutdownCleanup' \in BOOLEAN
    <3>1. CASE LastOfDeferred
      <4>1. nOutgoingQueuedBytes' = 0 /\ bDeferredShutdownCleanup' = FALSE
        BY <1>5, <3>1, Zenon DEF SendCompletedWithoutSocket
      <4> QED BY <4>1
    <3>2. CASE ~LastOfDeferred
      BY <1>t, <1>5, <3>2 DEF SendCompletedWithoutSocket, TypeOK
    <3> QED BY <3>1, <3>2
  <2>3. UNCHANGED <<pc, transport, state, socket, destroyed, bShutdownCalled, nSentBytes,
                    outgoingDataPromises, transportVars, historyVars>>
    BY <1>5 DEF SendCompletedWithoutSocket
  <2> QED
    BY <1>t, <1>2, <1>3, <2>1, <2>2, <2>3
    DEF TypeOK, ReservationTypes, transportVars, historyVars
<1>6. CASE SendCompletedDestroyed
  <2>1. UNCHANGED <<pc, lifeVars, queueVars, reservationVars, nSendBytesUnreleased,
                    transportVars, historyVars>>
    BY <1>6 DEF SendCompletedDestroyed
  <2> QED
    BY <1>t, <1>2, <1>3, <2>1
    DEF TypeOK, lifeVars, queueVars, reservationVars, transportVars, historyVars
<1> QED BY <1>4, <1>5, <1>6

LEMMA ReleaseBufferTypes ==
  ASSUME TypeOK, NEW n \in 0 .. MaxGather, SendBufferReleased(n)
  PROVE  TypeOK'
<1>1. unreleased' \in [0 .. MaxGather -> Nat]
  <2>1. unreleased \in [0 .. MaxGather -> Nat]
    BY DEF TypeOK
  <2>2. unreleased[n] > 0 /\ unreleased' = [unreleased EXCEPT ![n] = @ - 1]
    BY DEF SendBufferReleased
  <2>3. unreleased[n] - 1 \in Nat
    BY <2>1, <2>2
  <2> QED  BY <2>1, <2>2, <2>3
<1>2. Returned(n) \in Nat /\ Returned(n) <= nSendBytesUnreleased
  BY SendAssumption DEF Returned, Minimum, TypeOK
<1>3. nSendBytesUnreleased' \in Nat
  BY <1>2 DEF SendBufferReleased, TypeOK
<1>4. nPinned' \in Nat /\ pc' \in {"Idle", "UpdateSend", "Drain"}
  BY DEF SendBufferReleased, AfterRelease, Minimum, TypeOK
<1>5. UNCHANGED <<lifeVars, queueVars, reservationVars, nSendOpsInFlight, flight,
                  pendingOutput, nSendPlaintextHeld, broken, historyVars>>
  BY DEF SendBufferReleased
<1> QED
  BY <1>1, <1>3, <1>4, <1>5
  DEF TypeOK, lifeVars, queueVars, reservationVars, historyVars

LEMMA DrainTypes ==
  ASSUME TypeOK, DrainSocketOutput
  PROVE  TypeOK'
<1>1. Continuation(NoReservation) \in Operation
  BY SendAssumption DEF Continuation, Operation, TypeOK
<1>2. Append(flight, Continuation(NoReservation)) \in Seq(Operation)
  BY <1>1, AppendProperties DEF TypeOK
<1>3. /\ flight' \in Seq(Operation) /\ nSendOpsInFlight' \in Nat /\ nPinned' \in Nat
      /\ pendingOutput' \in BOOLEAN
  <2>1. CASE DrainWanted
    <3>1. flight' = Append(flight, Continuation(NoReservation))
      BY <2>1, Zenon DEF DrainSocketOutput
    <3>2. nSendOpsInFlight' = nSendOpsInFlight + 1 /\ nPinned' = nPinned + 1
      BY <2>1, Zenon DEF DrainSocketOutput
    <3>3. pendingOutput' = FALSE
      BY <2>1, Zenon DEF DrainSocketOutput
    <3>4. flight' \in Seq(Operation)
      BY <1>2, <3>1
    <3>5. nSendOpsInFlight' \in Nat /\ nPinned' \in Nat
      BY <3>2 DEF TypeOK
    <3> QED BY <3>3, <3>4, <3>5
  <2>2. CASE ~DrainWanted
    BY <2>2 DEF DrainSocketOutput, TypeOK
  <2> QED BY <2>1, <2>2
<1>4. /\ pc' = "Idle"
      /\ UNCHANGED <<lifeVars, queueVars, reservationVars, nSendBytesUnreleased, unreleased,
                     nSendPlaintextHeld, broken, historyVars>>
  BY DEF DrainSocketOutput
<1> QED
  BY <1>3, <1>4 DEF TypeOK, lifeVars, queueVars, reservationVars, historyVars

LEMMA ShutdownTypes ==
  ASSUME TypeOK, Shutdown
  PROVE  /\ bShutdownCalled' \in BOOLEAN /\ pendingOutput' \in BOOLEAN
         /\ pc' \in {"Idle", "UpdateSend", "Drain"}
         /\ UNCHANGED <<nPinned, nSendPlaintextHeld, broken>>
BY DEF Shutdown, TypeOK, Staging

\* Every step keeps the types.
LEMMA TypeStep ==
  ASSUME StreamReceives, IndInv, [Next]_vars
  PROVE  TypeOK'
<1> USE DEF lifeVars, queueVars, reservationVars, operationVars, transportVars, historyVars
<1>t. TypeOK
  BY DEF IndInv
<1>1. CASE User
  <2>1. ASSUME NEW n \in MinMessage .. MaxMessage, SendData(n) PROVE TypeOK'
    <3>1. n \in Nat
      BY SendAssumption
    <3>2. /\ outgoingDataPromises \in Seq(Nat)
          /\ nSentBytes \in Nat
          /\ nOutgoingQueuedBytes \in Nat
      BY <1>t DEF TypeOK
    <3>3. outgoingDataPromises' =
            Append(outgoingDataPromises, nSentBytes + nOutgoingQueuedBytes + n)
      BY <2>1 DEF SendData, WriteQueuedMessages
    <3>4. nSentBytes + nOutgoingQueuedBytes + n \in Nat
      BY <3>1, <3>2
    <3>5. outgoingDataPromises' \in Seq(Nat)
      BY <3>2, <3>3, <3>4, AppendProperties
    <3> QED BY <1>t, <2>1, <3>1, <3>5 DEF SendData, WriteQueuedMessages, TypeOK
  <2>2. CASE GracefulDisconnect
    <3>1. UNCHANGED <<transport, socket, destroyed, bDeferredShutdownCleanup, queueVars,
                      reservationVars, operationVars, historyVars>> /\ state' = "Disconnected"
      BY <2>2 DEF GracefulDisconnect
    <3>2. /\ bShutdownCalled' \in BOOLEAN /\ pendingOutput' \in BOOLEAN
          /\ pc' \in {"Idle", "UpdateSend", "Drain"}
          /\ UNCHANGED <<nPinned, nSendPlaintextHeld, broken>>
      <4>1. CASE Drained
        BY <1>t, <2>2, <4>1, ShutdownTypes DEF GracefulDisconnect
      <4>2. CASE ~Drained
        BY <1>t, <2>2, <4>2 DEF GracefulDisconnect, TypeOK
      <4> QED BY <4>1, <4>2
    <3> QED BY <1>t, <3>1, <3>2 DEF TypeOK
  <2>3. CASE GracefulDisconnectFails
    BY <1>t, <2>3, FatalNowTypes DEF GracefulDisconnectFails
  <2>4. CASE Destroy
    BY <1>t, <2>4 DEF Destroy, ClearSocket, TypeOK
  <2> QED BY <1>1, <2>1, <2>2, <2>3, <2>4 DEF User
<1>2. CASE Network
  <2>1. CASE StateWrite
    BY <1>t, <2>1 DEF StateWrite, TypeOK
  <2>2. CASE StateClosed
    BY <1>t, <2>2, FatalNowTypes DEF StateClosed
  <2>3. CASE ReceiveStreamOutput \/ ReadinessOutput \/ RecordLayerEnds
    BY <1>t, <2>3 DEF ReceiveStreamOutput, ReadinessOutput, RecordLayerEnds, TypeOK
  <2>4. CASE KernelFails
    BY <1>t, <2>4, FinishTypes DEF KernelFails
  <2> QED BY <1>2, <2>1, <2>2, <2>3, <2>4 DEF Network
<1>3. CASE RunHandler
  <2>1. CASE EndUpdateSend
    BY <1>t, <2>1, ShutdownTypes DEF EndUpdateSend, TypeOK
  <2>2. CASE RefuseBatch \/ EndUpdateSendFails \/ DrainRefused
    BY <1>t, <2>2, FatalNowTypes DEF RefuseBatch, EndUpdateSendFails, DrainRefused
  <2> QED BY <1>3, <1>t, <2>1, <2>2, SubmitTypes, DrainTypes, PartTypes DEF RunHandler
<1>4. CASE HandleCompletion
  BY <1>4, NoContinuation, SendCompletedTypes, OtherCompletionTypes DEF HandleCompletion
<1>5. CASE HandleRelease
  <2>1. PICK n \in 0 .. MaxGather : SendBufferReleased(n)
    BY <1>5 DEF HandleRelease
  <2> QED BY <1>t, <2>1, ReleaseBufferTypes
<1>6. CASE KernelEnds
  BY <1>t, <1>6, FinishTypes, KernelCompletesTypes DEF KernelEnds, KernelCancels
<1>7. CASE DestroyDone
  BY <1>t, <1>7, EmptySeq DEF DestroyDone, TypeOK
<1>8. CASE Terminated \/ UNCHANGED vars
  <2>1. UNCHANGED <<pc, lifeVars, queueVars, reservationVars, operationVars, transportVars,
                    historyVars>>
    BY <1>8 DEF Terminated, vars
  <2> HIDE DEF lifeVars, queueVars, reservationVars, operationVars, transportVars, historyVars
  <2>2. /\ UNCHANGED <<transport, state, socket, destroyed, bShutdownCalled,
                       bDeferredShutdownCleanup>>
        /\ UNCHANGED <<nOutgoingQueuedBytes, nSentBytes, outgoingDataPromises>>
        /\ UNCHANGED <<nOutgoingSubmitted, sendReservations, freeReservations,
                       nSendReservationsInUse>>
        /\ UNCHANGED <<nSendOpsInFlight, nSendBytesUnreleased, flight, unreleased>>
        /\ UNCHANGED <<nPinned, pendingOutput, nSendPlaintextHeld, broken>>
        /\ UNCHANGED <<pc, nAccepted, nTaken, nOnWire, uncounted>>
    BY <2>1 DEF lifeVars, queueVars, reservationVars, operationVars, transportVars, historyVars
  <2> QED  BY <1>t, <2>2 DEF TypeOK
<1> QED
  BY <1>1, <1>2, <1>3, <1>4, <1>5, <1>6, <1>7, <1>8 DEF Next

-----------------------------------------------------------------------------
(* The lifecycle, the output between handlers and the count of operations. *)

\* What holds between the actor and the transport's output.
Steady == Lifecycle /\ NothingHeld /\ OutputDrained

LEMMA FatalSteady ==
  ASSUME NEW STATE n, NEW STATE r, FatalDisconnect(n, r)
  PROVE  Steady'
BY DEF FatalDisconnect, ClearSocket, Steady, Lifecycle, NothingHeld, OutputDrained

LEMMA ShutdownSteady ==
  ASSUME Steady, socket, Shutdown, UNCHANGED <<transport, socket, destroyed>>
  PROVE  Steady'
BY DEF Shutdown, Steady, Lifecycle, NothingHeld, OutputDrained

\* A handler that can leave library records in the unpinned generation ends in
\* the drain, and only the drain and the fatal disconnects end a handler.
LEMMA SteadyStep ==
  ASSUME StreamReceives, IndInv, [Next]_vars
  PROVE  Steady'
<1> USE DEF lifeVars, queueVars, reservationVars, operationVars, transportVars, historyVars
<1>t. TypeOK
  BY DEF IndInv
<1>s. Steady
  BY DEF IndInv, Steady
<1>u. ASSUME UNCHANGED <<pc, lifeVars, transportVars>>
      PROVE  Steady'
  BY <1>s, <1>u DEF Steady, Lifecycle, NothingHeld, OutputDrained, Staging
<1>1. CASE User
  <2>1. ASSUME NEW n \in MinMessage .. MaxMessage, SendData(n) PROVE Steady'
    BY <1>s, <2>1 DEF SendData, WriteQueuedMessages, Idle, Steady, Lifecycle, NothingHeld, OutputDrained, Staging
  <2>2. CASE GracefulDisconnect
    <3>1. socket
      BY <1>s, <2>2 DEF GracefulDisconnect, Idle, Steady, Lifecycle
    <3>2. CASE Drained
      BY <1>s, <2>2, <3>1, <3>2, ShutdownSteady DEF GracefulDisconnect
    <3>3. CASE ~Drained
      <4>1. UNCHANGED <<pc, transport, socket, destroyed, transportVars>>
        BY <2>2, <3>3 DEF GracefulDisconnect
      <4> QED BY <1>s, <3>1, <4>1 DEF Steady, Lifecycle, NothingHeld, OutputDrained, Staging
    <3> QED BY <3>2, <3>3
  <2>3. CASE GracefulDisconnectFails
    BY <2>3, FatalSteady DEF GracefulDisconnectFails, FatalDisconnectNow
  <2>4. CASE Destroy
    BY <2>4 DEF Destroy, Idle, ClearSocket, Steady, Lifecycle, NothingHeld, OutputDrained
  <2> QED BY <1>1, <2>1, <2>2, <2>3, <2>4 DEF User
<1>2. CASE Network
  <2>1. CASE StateWrite
    BY <1>s, <2>1 DEF StateWrite, Steady, Lifecycle, NothingHeld, OutputDrained
  <2>2. CASE StateClosed
    BY <2>2, FatalSteady DEF StateClosed, FatalDisconnectNow
  <2>3. CASE ReceiveStreamOutput
    BY <1>s, <2>3 DEF ReceiveStreamOutput, Steady, Lifecycle, NothingHeld, OutputDrained
  <2>4. CASE ReadinessOutput
    BY <1>t, <2>4 DEF ReadinessOutput, TypeOK, StreamReceives
  <2>5. CASE RecordLayerEnds
    BY <1>s, <2>5 DEF RecordLayerEnds, Steady, Lifecycle, NothingHeld, OutputDrained
  <2>6. CASE KernelFails
    BY <1>u, <2>6 DEF KernelFails, Finish
  <2> QED BY <1>2, <2>1, <2>2, <2>3, <2>4, <2>5, <2>6 DEF Network
<1>3. CASE RunHandler
  <2>1. CASE SubmitBatch
    <3>1. /\ pc = "UpdateSend"
          /\ UNCHANGED <<pc, lifeVars, nSendPlaintextHeld>>
          /\ pendingOutput' = FALSE
      BY <2>1 DEF SubmitBatch
    <3> QED BY <1>s, <3>1 DEF Steady, Lifecycle, NothingHeld, OutputDrained
  <2>2. CASE EndUpdateSend
    <3>1. socket
      BY <1>s, <2>2 DEF EndUpdateSend, Steady, Lifecycle
    <3>2. CASE ShutdownDue
      BY <1>s, <2>2, <3>1, <3>2, ShutdownSteady DEF EndUpdateSend
    <3>3. CASE ~ShutdownDue
      <4>1. pc' = "Drain" /\ UNCHANGED <<transport, socket, state, destroyed, transportVars>>
        BY <2>2, <3>3 DEF EndUpdateSend
      <4> QED BY <1>s, <3>1, <4>1 DEF Steady, Lifecycle, NothingHeld, OutputDrained
    <3> QED BY <3>2, <3>3
  <2>3. CASE RefuseBatch \/ EndUpdateSendFails \/ DrainRefused
    BY <2>3, FatalSteady DEF RefuseBatch, EndUpdateSendFails, DrainRefused, FatalDisconnectNow
  <2>4. CASE DrainSocketOutput
    <3>1. /\ socket
          /\ pc' = "Idle" /\ UNCHANGED <<lifeVars, nSendPlaintextHeld, broken>>
      BY <1>s, <2>4 DEF DrainSocketOutput, Steady, Lifecycle
    <3>2. CASE DrainWanted
      <4>1. pendingOutput' = FALSE
        BY <2>4, <3>2, Zenon DEF DrainSocketOutput
      <4> QED BY <1>s, <3>1, <4>1 DEF Steady, Lifecycle, NothingHeld, OutputDrained
    <3>3. CASE ~DrainWanted
      <4>1. UNCHANGED <<nPinned, pendingOutput>>
        BY <2>4, <3>3, Zenon DEF DrainSocketOutput
      <4>2. Staging /\ pendingOutput => nPinned >= Depth
        BY <1>t, <3>3, SendAssumption DEF DrainWanted, HasPendingOutput, CanBeginSend, TypeOK
      <4> QED
        BY <1>s, <3>1, <4>1, <4>2 DEF Steady, Lifecycle, NothingHeld, OutputDrained, Staging
    <3> QED BY <3>2, <3>3
  <2>5. CASE SubmitPart \/ DrainPart
    BY <2>5, FatalSteady DEF SubmitPart, DrainPart
  <2> QED BY <1>3, <2>1, <2>2, <2>3, <2>4, <2>5 DEF RunHandler
<1>4. CASE HandleCompletion
  <2>1. CASE SendCompleted
    <3>1. /\ socket /\ pc' = "UpdateSend" /\ nSendPlaintextHeld' = 0
          /\ UNCHANGED <<lifeVars, pendingOutput>>
      BY <2>1 DEF SendCompleted
    <3> QED BY <1>s, <3>1 DEF Steady, Lifecycle, NothingHeld, OutputDrained
  <2>2. CASE SendFailed
    BY <2>2, FatalSteady DEF SendFailed
  <2>3. CASE SendCompletedWithoutSocket
    <3>1. UNCHANGED <<pc, transport, state, socket, destroyed, transportVars>>
      BY <2>3 DEF SendCompletedWithoutSocket
    <3> QED BY <1>s, <3>1 DEF Steady, Lifecycle, NothingHeld, OutputDrained, Staging
  <2>4. CASE SendCompletedDestroyed
    BY <1>u, <2>4 DEF SendCompletedDestroyed
  <2> QED BY <1>4, <2>1, <2>2, <2>3, <2>4, NoContinuation DEF HandleCompletion
<1>5. CASE HandleRelease
  <2>1. PICK n \in 0 .. MaxGather : SendBufferReleased(n)
    BY <1>5 DEF HandleRelease
  <2>2. /\ UNCHANGED <<lifeVars, pendingOutput, nSendPlaintextHeld, broken>>
        /\ pc = "Idle"
    BY <2>1 DEF SendBufferReleased
  <2>3. CASE Idle /\ socket
    <3>1. pc' = "UpdateSend"
      BY <2>1, <2>3 DEF SendBufferReleased, AfterRelease
    <3> QED BY <1>s, <2>2, <2>3, <3>1 DEF Steady, Lifecycle, NothingHeld, OutputDrained
  <2>4. CASE ~(Idle /\ socket)
    <3>1. UNCHANGED <<nPinned, pc>>
      BY <2>1, <2>4, Zenon DEF SendBufferReleased
    <3> QED BY <1>u, <2>2, <3>1
  <2> QED BY <2>3, <2>4
<1>6. CASE KernelEnds
  BY <1>u, <1>6 DEF KernelEnds, KernelCompletes, KernelCancels, Finish
<1>7. CASE DestroyDone
  <2>1. destroyed = "Draining" /\ destroyed' = "Done"
        /\ UNCHANGED <<pc, transport, state, socket, transportVars>>
    BY <1>7 DEF DestroyDone
  <2> QED BY <1>s, <2>1 DEF Steady, Lifecycle, NothingHeld, OutputDrained, Staging
<1>8. CASE Terminated \/ UNCHANGED vars
  BY <1>u, <1>8 DEF Terminated, vars
<1> QED
  BY <1>1, <1>2, <1>3, <1>4, <1>5, <1>6, <1>7, <1>8 DEF Next

\* A completion counts one operation off, down to the one that was not counted.
LEMMA CompletionCounts ==
  ASSUME IndInv, TakeCompletion, flight' = Tail(flight), uncounted' = uncounted
  PROVE  /\ CountedCompletions' \in Nat
         /\ CountedCompletions = 0 => CountedCompletions' = 0 /\ flight' = <<>> /\ uncounted
         /\ CountedCompletions # 0 =>
              /\ CountCompletion(nSendOpsInFlight) = CountedCompletions'
              /\ flight' = <<>> => ~uncounted
         /\ CountedCompletions = 0 => CountCompletion(nSendOpsInFlight) = MaxUmint
<1>1. flight \in Seq(Operation) /\ flight # <<>>
  BY DEF IndInv, TypeOK, TakeCompletion
<1>2. /\ Len(flight') = Len(flight) - 1 /\ Len(flight) \in Nat /\ Len(flight) > 0
      /\ flight' \in Seq(Operation)
  BY <1>1
<1>3. flight' = <<>> <=> Len(flight) = 1
  <2>1. flight' = <<>> <=> Len(flight') = 0
    BY <1>2, EmptySeq
  <2> QED  BY <1>2, <2>1
<1>4. nSendOpsInFlight = CountedCompletions
  BY <1>1 DEF IndInv, OpsCounted
<1>5. CASE uncounted
  <2>1. CountedCompletions = Len(flight) - 1
    BY <1>1, <1>5 DEF CountedCompletions
  <2>2. CountedCompletions' = IF Len(flight) = 1 THEN 0 ELSE Len(flight) - 2
    BY <1>2, <1>3, <1>5 DEF CountedCompletions
  <2> QED  BY <1>2, <1>3, <1>4, <1>5, <2>1, <2>2 DEF CountCompletion, Decrement
<1>6. CASE ~uncounted
  <2>1. CountedCompletions = Len(flight) /\ CountedCompletions' = Len(flight) - 1
    BY <1>2, <1>6 DEF CountedCompletions
  <2> QED  BY <1>2, <1>3, <1>4, <1>6, <2>1 DEF CountCompletion, Decrement
<1> QED  BY <1>5, <1>6

\* The count of operations matches: each submission adds one operation, each
\* completion takes one, and neither a drop of the socket nor a destroy does; an
\* operation the actor does not count leaves it one behind for good.
LEMMA OpsCountedStep ==
  ASSUME StreamReceives, IndInv, [Next]_vars
  PROVE  OpsCounted'
<1> USE DEF operationVars, historyVars
<1>t. /\ TypeOK /\ OpsCounted
      /\ flight \in Seq(Operation) /\ Len(flight) \in Nat
      /\ nSendOpsInFlight \in Nat
  BY DEF IndInv, TypeOK
<1>s. socket' => socket
  <2>1. LedgerStep
    BY LedgerSteps
  <2> QED  BY <2>1 DEF LedgerStep, Submits, Continues, Settles, Keeps
<1>u. ASSUME UNCHANGED <<nSendOpsInFlight, flight, uncounted>>
      PROVE  OpsCounted'
  BY <1>t, <1>s, <1>u DEF OpsCounted, CountedCompletions
<1>a. ASSUME NEW STATE o, socket, flight' = Append(flight, o),
             nSendOpsInFlight' = nSendOpsInFlight + 1, uncounted' = uncounted
      PROVE  OpsCounted'
  <2>1. ~uncounted /\ nSendOpsInFlight = Len(flight)
    BY <1>t, <1>a DEF OpsCounted, CountedCompletions
  <2>2. Len(flight') = Len(flight) + 1
    BY <1>t, <1>a
  <2> QED  BY <1>a, <2>1, <2>2 DEF OpsCounted, CountedCompletions
<1>d. ASSUME TakeCompletion, flight' = Tail(flight), uncounted' = uncounted,
             nSendOpsInFlight' = CountCompletion(nSendOpsInFlight)
      PROVE  OpsCounted'
  <2>1. /\ CountedCompletions = 0 => flight' = <<>> /\ uncounted
        /\ CountedCompletions # 0 =>
              /\ CountCompletion(nSendOpsInFlight) = CountedCompletions'
              /\ flight' = <<>> => ~uncounted
        /\ CountedCompletions = 0 => CountCompletion(nSendOpsInFlight) = MaxUmint
    BY <1>d, CompletionCounts
  <2> QED BY <1>t, <1>s, <1>d, <2>1 DEF OpsCounted
<1>l. ASSUME Len(flight') = Len(flight), flight' \in Seq(Operation),
             UNCHANGED <<nSendOpsInFlight, uncounted>>
      PROVE  OpsCounted'
  <2>1. flight' = <<>> <=> flight = <<>>
    BY <1>t, <1>l
  <2> QED  BY <1>t, <1>s, <1>l, <2>1 DEF OpsCounted, CountedCompletions
<1>f. ASSUME NEW s \in {"Error", "Cancelled"}, Finish(s)
      PROVE  OpsCounted'
  <2>1. Len(flight') = Len(flight)
    BY <1>t, <1>f, FinishKeeps DEF Keeps
  <2>2. flight' \in Seq(Operation)
    BY <1>t, <1>f, FinishTypes DEF TypeOK
  <2> QED BY <1>f, <1>l, <2>1, <2>2 DEF Finish
<1>1. CASE User
  <2>1. UNCHANGED <<nSendOpsInFlight, flight, uncounted>>
    BY <1>1 DEF User, SendData, WriteQueuedMessages, GracefulDisconnect, GracefulDisconnectFails,
      FatalDisconnectNow, Destroy
  <2> QED BY <1>u, <2>1
<1>2. CASE Network
  <2>1. CASE KernelFails
    BY <1>f, <2>1 DEF KernelFails
  <2>2. CASE ~KernelFails
    <3>1. UNCHANGED <<nSendOpsInFlight, flight, uncounted>>
      BY <1>2, <2>2 DEF Network, StateWrite, StateClosed, FatalDisconnectNow,
        ReceiveStreamOutput, ReadinessOutput, RecordLayerEnds
    <3> QED BY <1>u, <3>1
  <2> QED BY <2>1, <2>2
<1>3. CASE RunHandler
  <2>1. CASE SubmitBatch
    <3>1. /\ nSendOpsInFlight' = nSendOpsInFlight + 1 /\ uncounted' = uncounted
          /\ socket
      BY <2>1 DEF SubmitBatch, IndInv, Lifecycle
    <3>2. PICK n \in 1 .. GatherSendSpans :
            flight' = Append(flight, Batch(Head(freeReservations), n, GatherSendSpans))
      BY <2>1 DEF SubmitBatch
    <3> QED BY <1>a, <3>1, <3>2
  <2>2. CASE RefuseBatch \/ EndUpdateSend \/ EndUpdateSendFails \/ DrainRefused
    <3>1. UNCHANGED <<nSendOpsInFlight, flight, uncounted>>
      BY <2>2 DEF RefuseBatch, EndUpdateSend, EndUpdateSendFails, DrainRefused,
        FatalDisconnectNow
    <3> QED BY <1>u, <3>1
  <2>3. CASE DrainSocketOutput
    <3>1. CASE DrainWanted
      <4>1. flight' = Append(flight, Continuation(NoReservation))
            /\ nSendOpsInFlight' = nSendOpsInFlight + 1
        BY <2>3, <3>1, Zenon DEF DrainSocketOutput
      <4>2. socket /\ uncounted' = uncounted
        BY <2>3 DEF DrainSocketOutput, IndInv, Lifecycle
      <4> QED BY <1>a, <4>1, <4>2
    <3>2. CASE ~DrainWanted
      <4>1. UNCHANGED <<nSendOpsInFlight, flight>>
        BY <2>3, <3>2, Zenon DEF DrainSocketOutput
      <4> QED BY <1>u, <4>1, <2>3 DEF DrainSocketOutput
    <3> QED BY <3>1, <3>2
  <2>4. CASE SubmitPart \/ DrainPart
    <3>1. /\ socket /\ socket' = FALSE /\ uncounted' = TRUE
          /\ UNCHANGED nSendOpsInFlight
      BY <2>4, PartTaken DEF FatalDisconnect, ClearSocket
    <3>2. PICK op \in Operation : flight' = Append(flight, op)
      BY <2>4, PartTaken
    <3>3. Len(flight') = Len(flight) + 1 /\ flight' # <<>>
      BY <1>t, <3>2
    <3>4. nSendOpsInFlight = Len(flight)
      BY <1>t, <3>1 DEF OpsCounted, CountedCompletions
    <3> QED  BY <1>t, <3>1, <3>3, <3>4 DEF OpsCounted, CountedCompletions
  <2> QED BY <1>3, <2>1, <2>2, <2>3, <2>4 DEF RunHandler
<1>4. CASE HandleCompletion
  <2>1. TakeCompletion /\ flight' = Tail(flight) /\ uncounted' = uncounted
        /\ nSendOpsInFlight' = CountCompletion(nSendOpsInFlight)
    BY <1>4, NoContinuation DEF HandleCompletion, SendCompleted, SendFailed,
      SendCompletedWithoutSocket, SendCompletedDestroyed
  <2> QED BY <1>d, <2>1
<1>5. CASE HandleRelease
  BY <1>u, <1>5 DEF HandleRelease, SendBufferReleased
<1>6. CASE KernelEnds
  <2>1. CASE KernelCompletes
    <3>1. Len(flight') = Len(flight)
      BY <1>t, <2>1, KernelCompletesKeeps DEF Keeps
    <3>2. flight' \in Seq(Operation)
      BY <1>t, <2>1, KernelCompletesTypes DEF TypeOK
    <3> QED BY <1>l, <2>1, <3>1, <3>2 DEF KernelCompletes
  <2>2. CASE KernelCancels
    BY <1>f, <2>2 DEF KernelCancels
  <2> QED BY <1>6, <2>1, <2>2 DEF KernelEnds
<1>7. CASE DestroyDone
  BY <1>u, <1>7 DEF DestroyDone
<1>8. CASE Terminated \/ UNCHANGED vars
  BY <1>u, <1>8 DEF Terminated, vars
<1> QED
  BY <1>1, <1>2, <1>3, <1>4, <1>5, <1>6, <1>7, <1>8 DEF Next

-----------------------------------------------------------------------------
(* The ledger of bytes, operations and reservations.                       *)

Ledger == Reserved /\ Chain /\ Carried /\ ReservationsOwned /\ InUseCounted

LEMMA GoneLedger ==
  ASSUME socket' = FALSE
  PROVE  Ledger'
BY DEF Ledger, Reserved, Chain, Carried, ReservationsOwned, InUseCounted

LEMMA KeepsLedger ==
  ASSUME IndInv, TypeOK', Keeps
  PROVE  Ledger'
<1> USE DEF reservationVars
<1>t. TypeOK /\ flight \in Seq(Operation) /\ flight' \in Seq(Operation)
  BY DEF IndInv, TypeOK
<1>1. /\ Len(flight) \in Nat /\ Len(flight') = Len(flight)
      /\ DOMAIN flight = 1 .. Len(flight) /\ DOMAIN flight' = 1 .. Len(flight)
      /\ flight' = <<>> <=> flight = <<>>
      /\ flight # <<>> => 1 \in 1 .. Len(flight) /\ Len(flight) \in 1 .. Len(flight)
  BY <1>t, EmptySeq DEF Keeps
<1>2. \A i \in 1 .. Len(flight) :
        /\ flight'[i].reservation = flight[i].reservation
        /\ flight'[i].from = flight[i].from
        /\ flight'[i].to = flight[i].to
  BY DEF Keeps
<1>3. UNCHANGED <<socket, nSentBytes, nTaken, nOutgoingSubmitted, sendReservations,
                  freeReservations, nSendReservationsInUse>>
  BY DEF Keeps
<1>4. Reserved'
  BY <1>t, <1>3 DEF Keeps, IndInv, Reserved, TypeOK
<1>5. Chain'
  <2> SUFFICES ASSUME socket PROVE Chain'
    BY <1>3 DEF Chain
  <2>1. /\ flight = <<>> => nSentBytes = nTaken
        /\ flight # <<>> => flight[1].from = nSentBytes /\ flight[Len(flight)].to = nTaken
        /\ \A i \in 1 .. Len(flight) : flight[i].from <= flight[i].to /\ flight[i].to <= nTaken
        /\ \A i \in 1 .. Len(flight) - 1 : flight[i + 1].from = flight[i].to
    BY DEF IndInv, Chain
  <2>2. \A i \in 1 .. Len(flight) - 1 : i \in 1 .. Len(flight) /\ i + 1 \in 1 .. Len(flight)
    BY <1>1
  <2>3. flight' = <<>> => nSentBytes' = nTaken'
    BY <1>1, <1>3, <2>1
  <2>4. flight' # <<>> => flight'[1].from = nSentBytes' /\ flight'[Len(flight')].to = nTaken'
    BY <1>1, <1>2, <1>3, <2>1
  <2>5. \A i \in 1 .. Len(flight') :
          flight'[i].from <= flight'[i].to /\ flight'[i].to <= nTaken'
    BY <1>1, <1>2, <1>3, <2>1
  <2>6. \A i \in 1 .. Len(flight') - 1 : flight'[i + 1].from = flight'[i].to
    BY <1>1, <1>2, <2>1, <2>2
  <2> QED BY <2>3, <2>4, <2>5, <2>6 DEF Chain
<1>6. Carried'
  BY <1>1, <1>2, <1>3 DEF IndInv, Carried
<1>7. LiveReservations' = LiveReservations
  BY <1>3 DEF LiveReservations
<1>8. ReservationsOwned'
  BY <1>1, <1>2, <1>3, <1>7 DEF IndInv, ReservationsOwned
<1>9. InUseCounted'
  BY <1>3, <1>7 DEF IndInv, InUseCounted
<1> QED BY <1>4, <1>5, <1>6, <1>8, <1>9 DEF Ledger

\* An operation appended behind the bytes taken keeps the operations adjacent.
LEMMA AppendChain ==
  ASSUME IndInv, TypeOK', socket, NEW STATE o, o \in Operation,
         flight' = Append(flight, o),
         o.from = nTaken, o.from <= o.to, o.to = nTaken', UNCHANGED nSentBytes
  PROVE  Chain'
<1>t. TypeOK /\ flight \in Seq(Operation)
  BY DEF IndInv, TypeOK
<1>1. /\ Len(flight) \in Nat /\ Len(flight') = Len(flight) + 1
      /\ \A i \in 1 .. Len(flight) : flight'[i] = flight[i]
      /\ flight'[Len(flight) + 1] = o
  BY <1>t, AppendProperties
<1>2. flight' # <<>>
  BY <1>1, EmptySeq
<1>3. /\ flight = <<>> => nSentBytes = nTaken
      /\ flight # <<>> => flight[1].from = nSentBytes /\ flight[Len(flight)].to = nTaken
      /\ \A i \in 1 .. Len(flight) : flight[i].from <= flight[i].to /\ flight[i].to <= nTaken
      /\ \A i \in 1 .. Len(flight) - 1 : flight[i + 1].from = flight[i].to
  BY DEF IndInv, Chain
<1>4. nTaken \in Nat /\ nTaken' \in Nat /\ nTaken <= nTaken'
  BY <1>t DEF TypeOK
<1>5. flight'[1].from = nSentBytes'
  <2>1. CASE flight = <<>>
    BY <1>1, <1>3, <2>1, EmptySeq
  <2>2. CASE flight # <<>>
    BY <1>t, <1>1, <1>3, <2>2, EmptySeq
  <2> QED BY <2>1, <2>2
<1>6. flight'[Len(flight')].to = nTaken'
  BY <1>1
<1>7. ASSUME NEW i \in 1 .. Len(flight')
      PROVE  flight'[i].from <= flight'[i].to /\ flight'[i].to <= nTaken'
  <2>1. CASE i = Len(flight) + 1
    BY <1>1, <1>4, <2>1
  <2>2. CASE i # Len(flight) + 1
    <3>1. i \in 1 .. Len(flight)
      BY <1>1, <2>2
    <3>2. flight[i] \in Operation
      BY <1>t, <3>1
    <3> QED BY <1>1, <1>3, <1>4, <3>1, <3>2 DEF Operation
  <2> QED BY <2>1, <2>2
<1>8. ASSUME NEW i \in 1 .. Len(flight') - 1
      PROVE  flight'[i + 1].from = flight'[i].to
  <2>1. i \in 1 .. Len(flight)
    BY <1>1
  <2>2. CASE i = Len(flight)
    BY <1>1, <1>3, <2>1, <2>2, EmptySeq
  <2>3. CASE i # Len(flight)
    <3>1. i \in 1 .. Len(flight) - 1 /\ i + 1 \in 1 .. Len(flight)
      BY <1>1, <2>1, <2>3
    <3> QED BY <1>1, <1>3, <2>1, <3>1
  <2> QED BY <2>2, <2>3
<1> QED BY <1>2, <1>5, <1>6, <1>7, <1>8 DEF Chain

LEMMA ContinuesLedger ==
  ASSUME IndInv, TypeOK', Continues
  PROVE  Ledger'
<1> USE DEF reservationVars
<1> DEFINE o == Continuation(NoReservation)
<1>t. TypeOK /\ flight \in Seq(Operation) /\ flight' \in Seq(Operation)
  BY DEF IndInv, TypeOK
<1>1. CASE ~socket'
  BY <1>1 DEF Ledger, Reserved, Chain, Carried, ReservationsOwned, InUseCounted
<1>2. CASE socket'
  <2>1. /\ socket /\ flight' = Append(flight, o)
        /\ UNCHANGED <<socket, nSentBytes, nTaken, nOutgoingQueuedBytes, nOutgoingSubmitted,
                       sendReservations, freeReservations, nSendReservationsInUse>>
    BY <1>2 DEF Continues
  <2>2. /\ o \in Operation /\ o.from = nTaken /\ o.to = nTaken /\ nTaken \in Nat
        /\ o.reservation = NoReservation
    BY <1>t, SendAssumption DEF Continuation, Operation, TypeOK
  <2>3. /\ Len(flight) \in Nat /\ Len(flight') = Len(flight) + 1
        /\ DOMAIN flight = 1 .. Len(flight) /\ DOMAIN flight' = 1 .. Len(flight) + 1
        /\ \A i \in 1 .. Len(flight) : flight'[i] = flight[i]
        /\ flight'[Len(flight) + 1] = o
    BY <1>t, <2>1, <2>2, AppendProperties
  <2>4. Reserved'
    BY <2>1 DEF IndInv, Reserved
  <2>5. Chain'
    BY <2>1, <2>2, AppendChain
  <2>6. Carried'
    <3> SUFFICES ASSUME NEW i \in 1 .. Len(flight')
                 PROVE  IF flight'[i].reservation = NoReservation
                        THEN flight'[i].from = flight'[i].to
                        ELSE /\ flight'[i].from < flight'[i].to
                             /\ sendReservations'[flight'[i].reservation]
                                  = flight'[i].to - flight'[i].from
      BY DEF Carried
    <3>1. CASE i = Len(flight) + 1
      BY <2>2, <2>3, <3>1
    <3>2. CASE i # Len(flight) + 1
      <4>1. i \in 1 .. Len(flight)
        BY <2>3, <3>2
      <4> QED BY <2>1, <2>3, <4>1 DEF IndInv, Carried
    <3> QED BY <3>1, <3>2
  <2>7. LiveReservations' = LiveReservations
    BY <2>1 DEF LiveReservations
  <2>8. ReservationsOwned'
    <3>1. \A r \in LiveReservations : \E i \in DOMAIN flight' : flight'[i].reservation = r
      BY <2>1, <2>3 DEF IndInv, ReservationsOwned
    <3>2. \A i, j \in DOMAIN flight' :
            i # j /\ flight'[i].reservation = flight'[j].reservation
              => flight'[i].reservation = NoReservation
      BY <2>1, <2>2, <2>3 DEF IndInv, ReservationsOwned
    <3> QED BY <2>1, <2>7, <3>1, <3>2 DEF IndInv, ReservationsOwned
  <2>9. InUseCounted'
    BY <2>1, <2>7 DEF IndInv, InUseCounted
  <2> QED BY <2>4, <2>5, <2>6, <2>8, <2>9 DEF Ledger
<1> QED BY <1>1, <1>2

\* A submission takes a free reservation for the bytes behind the taken ones.
LEMMA SubmitsLedger ==
  ASSUME IndInv, TypeOK', Submits
  PROVE  Ledger'
<1> DEFINE r == Head(freeReservations)
           g == GatherSendSpans
<1>t. /\ TypeOK /\ flight \in Seq(Operation) /\ flight' \in Seq(Operation)
      /\ freeReservations \in Seq(Reservations)
      /\ sendReservations \in [Reservations -> Nat]
      /\ nSentBytes \in Nat /\ nOutgoingSubmitted \in Nat /\ nOutgoingQueuedBytes \in Nat
      /\ nTaken \in Nat /\ nSendReservationsInUse \in Nat
  BY DEF IndInv, TypeOK
<1>1. PICK n \in 1 .. g :
        /\ flight' = Append(flight, Batch(r, n, g))
        /\ sendReservations' = [sendReservations EXCEPT ![r] = n]
        /\ nOutgoingSubmitted' = nOutgoingSubmitted + n
        /\ nTaken' = GatherStart + n
  BY DEF Submits, SubmitBatch
<1>2. /\ CanSubmitBatch /\ socket
      /\ freeReservations' = Tail(freeReservations)
      /\ nSendReservationsInUse' = nSendReservationsInUse + 1
      /\ UNCHANGED <<socket, nSentBytes, nOutgoingQueuedBytes>>
  BY DEF Submits, SubmitBatch, queueVars, IndInv, Lifecycle
<1>3. nOutgoingSubmitted + n <= nOutgoingQueuedBytes /\ n \in Nat /\ n > 0 /\ g \in 0 .. MaxGather
  BY <1>t, <1>1, <1>2, SendAssumption DEF GatherSendSpans, Minimum, CanSubmitBatch
<1>4. nSentBytes + nOutgoingSubmitted = nTaken /\ GatherStart = nTaken
  BY <1>2 DEF IndInv, Reserved, GatherStart
<1>5. /\ Len(freeReservations) \in Nat /\ Len(freeReservations) # 0
      /\ Len(freeReservations) + nSendReservationsInUse = Pool
      /\ DOMAIN freeReservations = 1 .. Len(freeReservations)
  BY <1>t, <1>2, SendAssumption
  DEF CanSubmitBatch, MaxReservationsInUse, IndInv, ReservationsOwned
<1>6. freeReservations # <<>> /\ 1 \in DOMAIN freeReservations
  BY <1>5, EmptySeq
<1>7. /\ r = freeReservations[1] /\ r \in Reservations
      /\ Len(Tail(freeReservations)) = Len(freeReservations) - 1
      /\ \A i \in 1 .. Len(freeReservations) - 1 :
           Tail(freeReservations)[i] = freeReservations[i + 1]
      /\ DOMAIN Tail(freeReservations) = 1 .. Len(freeReservations) - 1
  BY <1>t, <1>5, <1>6, HeadTailProperties
<1>8. r \notin LiveReservations /\ sendReservations[r] = 0 /\ r # NoReservation
  BY <1>2, <1>6, <1>7, SendAssumption
  DEF IndInv, ReservationsOwned, LiveReservations, Reservations, NoReservation
<1> DEFINE o == Batch(r, n, g)
<1>9. /\ o \in Operation /\ o.reservation = r
      /\ o.from = nTaken /\ o.to = nTaken + n /\ nTaken' = nTaken + n
  BY <1>t, <1>1, <1>3, <1>4, <1>7 DEF Batch, Operation
<1>10. /\ Len(flight) \in Nat /\ Len(flight') = Len(flight) + 1
       /\ DOMAIN flight = 1 .. Len(flight) /\ DOMAIN flight' = 1 .. Len(flight) + 1
       /\ \A i \in 1 .. Len(flight) : flight'[i] = flight[i]
       /\ flight'[Len(flight) + 1] = o
  BY <1>t, <1>1, <1>9, AppendProperties
<1>11. \A i \in 1 .. Len(flight) :
         /\ flight[i].reservation # r
         /\ flight[i].from \in Nat /\ flight[i].to \in Nat
         /\ flight[i].reservation \in Reservations \cup {NoReservation}
  <2> TAKE i \in 1 .. Len(flight)
  <2>1. flight[i] \in Operation
    BY <1>t
  <2>2. flight[i].reservation # NoReservation => sendReservations[flight[i].reservation] # 0
    BY <1>2, <2>1 DEF IndInv, Carried, Operation
  <2> QED BY <1>8, <2>1, <2>2 DEF Operation
<1>12. /\ sendReservations'[r] = n
       /\ \A q \in Reservations : q # r => sendReservations'[q] = sendReservations[q]
  BY <1>t, <1>1, <1>7
<1>13. LiveReservations' = LiveReservations \cup {r}
  BY <1>3, <1>7, <1>12 DEF LiveReservations
<1>14. Reserved'
  BY <1>t, <1>1, <1>2, <1>3, <1>4, <1>9 DEF Reserved
<1>15. Chain'
  <2>1. o.from <= o.to /\ o.to = nTaken' /\ o.from = nTaken /\ o \in Operation
    BY <1>t, <1>3, <1>9
  <2>2. flight' = Append(flight, o) /\ socket /\ UNCHANGED nSentBytes
    BY <1>1, <1>2
  <2> HIDE DEF o
  <2> QED BY <2>1, <2>2, AppendChain
<1>16. Carried'
  <2> SUFFICES ASSUME NEW i \in 1 .. Len(flight')
               PROVE  IF flight'[i].reservation = NoReservation
                      THEN flight'[i].from = flight'[i].to
                      ELSE /\ flight'[i].from < flight'[i].to
                           /\ sendReservations'[flight'[i].reservation]
                                = flight'[i].to - flight'[i].from
    BY DEF Carried
  <2>1. CASE i = Len(flight) + 1
    BY <1>t, <1>3, <1>8, <1>9, <1>10, <1>12, <2>1
  <2>2. CASE i # Len(flight) + 1
    <3>1. i \in 1 .. Len(flight) /\ flight'[i] = flight[i]
      BY <1>10, <2>2
    <3>2. IF flight[i].reservation = NoReservation
          THEN flight[i].from = flight[i].to
          ELSE /\ flight[i].from < flight[i].to
               /\ sendReservations[flight[i].reservation] = flight[i].to - flight[i].from
      BY <1>2, <3>1 DEF IndInv, Carried
    <3>3. flight[i].reservation # r
          /\ flight[i].reservation \in Reservations \cup {NoReservation}
      BY <1>11, <3>1
    <3> QED BY <1>12, <3>1, <3>2, <3>3
  <2> QED BY <2>1, <2>2
<1>17. ReservationsOwned'
  <2>1. \A q \in LiveReservations' : \E i \in DOMAIN flight' : flight'[i].reservation = q
    BY <1>2, <1>9, <1>10, <1>13 DEF IndInv, ReservationsOwned
  <2>2. \A i, j \in DOMAIN flight' :
          i # j /\ flight'[i].reservation = flight'[j].reservation
            => flight'[i].reservation = NoReservation
    BY <1>2, <1>9, <1>10, <1>11 DEF IndInv, ReservationsOwned
  <2>3. Len(freeReservations') + nSendReservationsInUse' = Pool
    BY <1>t, <1>2, <1>5, <1>7
  <2>4. \A i \in DOMAIN freeReservations' :
          i + 1 \in DOMAIN freeReservations /\ freeReservations'[i] = freeReservations[i + 1]
    BY <1>2, <1>5, <1>7
  <2>5. \A i \in DOMAIN freeReservations' : freeReservations'[i] \notin LiveReservations'
    <3> TAKE i \in DOMAIN freeReservations'
    <3>1. freeReservations'[i] \notin LiveReservations
      BY <1>2, <2>4 DEF IndInv, ReservationsOwned
    <3>2. i + 1 # 1
      BY <1>2, <1>5, <1>7
    <3>3. freeReservations'[i] # r
      BY <1>2, <1>6, <1>7, <2>4, <3>2 DEF IndInv, ReservationsOwned
    <3> QED BY <1>13, <3>1, <3>3
  <2>6. \A i, j \in DOMAIN freeReservations' :
          i # j => freeReservations'[i] # freeReservations'[j]
    <3> TAKE i, j \in DOMAIN freeReservations'
    <3>1. i # j => i + 1 # j + 1
      BY <1>2, <1>5, <1>7
    <3> QED BY <1>2, <2>4, <3>1 DEF IndInv, ReservationsOwned
  <2> QED BY <2>1, <2>2, <2>3, <2>5, <2>6 DEF ReservationsOwned
<1>18. InUseCounted'
  <2>1. nSendReservationsInUse = Cardinality(LiveReservations)
    BY <1>2 DEF IndInv, InUseCounted
  <2>2. IsFiniteSet(LiveReservations)
    BY <1>t, LiveFinite
  <2>3. Cardinality(LiveReservations \cup {r}) = Cardinality(LiveReservations) + 1
    BY <1>8, <2>2, FS_AddElement
  <2> QED BY <1>2, <1>13, <2>1, <2>3 DEF InUseCounted
<1> QED BY <1>14, <1>15, <1>16, <1>17, <1>18 DEF Ledger

\* The oldest operation settles: its reservation is free again, the operations
\* behind it start where its bytes end.
LEMMA SettlesLedger ==
  ASSUME IndInv, TypeOK', Settles
  PROVE  Ledger'
<1> DEFINE r == Completed.reservation
<1>t. /\ TypeOK /\ flight \in Seq(Operation) /\ flight' \in Seq(Operation)
      /\ freeReservations \in Seq(Reservations)
      /\ sendReservations \in [Reservations -> Nat]
      /\ nSentBytes \in Nat /\ nOutgoingSubmitted \in Nat /\ nOutgoingQueuedBytes \in Nat
      /\ nTaken \in Nat /\ nSendReservationsInUse \in Nat
  BY DEF IndInv, TypeOK
<1>1. /\ socket /\ flight # <<>> /\ flight' = Tail(flight)
      /\ ReleaseReservation(r)
      /\ ConsumeSentBytes(nSendPlaintextHeld + CarriedBytes)
      /\ nSendPlaintextHeld = 0
      /\ UNCHANGED <<socket, nTaken>>
  BY DEF Settles, SendCompleted
<1>2. /\ Completed \in Operation /\ Completed = flight[1]
      /\ Completed.from = nSentBytes
      /\ CarriedBytes \in Nat
      /\ CarriedBytes <= nOutgoingSubmitted /\ CarriedBytes <= nOutgoingQueuedBytes
      /\ r = NoReservation => CarriedBytes = 0
      /\ r # NoReservation =>
           r \in LiveReservations /\ sendReservations[r] = CarriedBytes /\ CarriedBytes > 0
  BY <1>1, OldestOperation
<1>3. /\ nSentBytes' = nSentBytes + CarriedBytes
      /\ nOutgoingQueuedBytes' = nOutgoingQueuedBytes - CarriedBytes
      /\ nSentBytes' = flight[1].to
  <2>1. nSendPlaintextHeld + CarriedBytes = CarriedBytes
    BY <1>1, <1>2
  <2>2. ConsumeSentBytes(CarriedBytes)
    BY <1>1, <2>1
  <2>3. /\ nSentBytes' = nSentBytes + CarriedBytes
        /\ nOutgoingQueuedBytes' = nOutgoingQueuedBytes - CarriedBytes
    BY <2>2 DEF ConsumeSentBytes
  <2>4. CarriedBytes = flight[1].to - nSentBytes /\ flight[1].to \in Nat
    BY <1>2 DEF CarriedBytes, Operation
  <2> QED BY <1>t, <2>3, <2>4
<1>4. /\ Len(flight) \in Nat /\ Len(flight) # 0 /\ Len(flight') = Len(flight) - 1
      /\ DOMAIN flight = 1 .. Len(flight) /\ DOMAIN flight' = 1 .. Len(flight) - 1
      /\ \A i \in 1 .. Len(flight) - 1 : flight'[i] = flight[i + 1]
      /\ \A i \in 1 .. Len(flight) - 1 : i + 1 \in 1 .. Len(flight) /\ i + 1 # 1
      /\ 1 \in 1 .. Len(flight)
  BY <1>t, <1>1, HeadTailProperties, EmptySeq
<1>5. \A i \in 1 .. Len(flight) :
        flight[i].reservation \in Reservations \cup {NoReservation}
  <2> TAKE i \in 1 .. Len(flight)
  <2>1. flight[i] \in Operation
    BY <1>t
  <2> QED BY <2>1 DEF Operation
<1>6. \A i \in 1 .. Len(flight') :
        flight'[i].reservation # NoReservation => flight'[i].reservation # r
  BY <1>1, <1>2, <1>4 DEF IndInv, ReservationsOwned
<1>7. Chain'
  <2>1. /\ flight[Len(flight)].to = nTaken
        /\ \A i \in 1 .. Len(flight) : flight[i].from <= flight[i].to /\ flight[i].to <= nTaken
        /\ \A i \in 1 .. Len(flight) - 1 : flight[i + 1].from = flight[i].to
    BY <1>1 DEF IndInv, Chain
  <2>2. flight' = <<>> => nSentBytes' = nTaken'
    <3> SUFFICES ASSUME flight' = <<>> PROVE nSentBytes' = nTaken'
      OBVIOUS
    <3>1. Len(flight) = 1
      BY <1>4, EmptySeq
    <3> QED BY <1>1, <1>3, <2>1, <3>1
  <2>3. flight' # <<>> => flight'[1].from = nSentBytes' /\ flight'[Len(flight')].to = nTaken'
    <3> SUFFICES ASSUME flight' # <<>>
                 PROVE  flight'[1].from = nSentBytes' /\ flight'[Len(flight')].to = nTaken'
      OBVIOUS
    <3>1. Len(flight') # 0
      BY <1>t, EmptySeq
    <3>2. 1 \in 1 .. Len(flight) - 1 /\ Len(flight) - 1 \in 1 .. Len(flight) - 1
      BY <1>4, <3>1
    <3>3. flight'[1] = flight[2] /\ flight'[Len(flight')] = flight[Len(flight)]
      BY <1>4, <3>2
    <3>4. flight[2].from = flight[1].to
      BY <2>1, <3>2
    <3> QED BY <1>1, <1>3, <2>1, <3>3, <3>4
  <2>4. \A i \in 1 .. Len(flight') : flight'[i].from <= flight'[i].to /\ flight'[i].to <= nTaken'
    BY <1>1, <1>4, <2>1
  <2>5. ASSUME NEW i \in 1 .. Len(flight') - 1
        PROVE  flight'[i + 1].from = flight'[i].to
    <3>1. i \in 1 .. Len(flight) - 1 /\ i + 1 \in 1 .. Len(flight) - 1
      BY <1>4
    <3>2. flight'[i] = flight[i + 1] /\ flight'[i + 1] = flight[(i + 1) + 1]
      BY <1>4, <3>1
    <3> QED BY <2>1, <3>1, <3>2
  <2> QED BY <2>2, <2>3, <2>4, <2>5 DEF Chain
<1>8. CASE r = NoReservation
  <2>1. UNCHANGED <<nOutgoingSubmitted, sendReservations, freeReservations,
                    nSendReservationsInUse>>
    BY <1>1, <1>8 DEF ReleaseReservation, reservationVars
  <2>2. LiveReservations' = LiveReservations
    BY <2>1 DEF LiveReservations
  <2>3. Reserved'
    BY <1>t, <1>1, <1>2, <1>3, <1>8, <2>1 DEF IndInv, Reserved
  <2>4. Carried'
    BY <1>1, <1>4, <2>1 DEF IndInv, Carried
  <2>5. ReservationsOwned'
    <3>1. ASSUME NEW q \in LiveReservations'
          PROVE  \E i \in DOMAIN flight' : flight'[i].reservation = q
      <4>1. q # NoReservation
        BY SendAssumption DEF LiveReservations, Reservations, NoReservation
      <4>2. PICK i \in DOMAIN flight : flight[i].reservation = q
        BY <1>1, <2>2 DEF IndInv, ReservationsOwned
      <4>3. i # 1
        BY <1>2, <1>8, <4>1, <4>2
      <4>4. i - 1 \in DOMAIN flight' /\ flight'[i - 1] = flight[i]
        BY <1>4, <4>2, <4>3
      <4> QED BY <4>2, <4>4
    <3>2. \A i, j \in DOMAIN flight' :
            i # j /\ flight'[i].reservation = flight'[j].reservation
              => flight'[i].reservation = NoReservation
      <4> TAKE i, j \in DOMAIN flight'
      <4>1. i # j => i + 1 # j + 1
        BY <1>4
      <4> QED BY <1>1, <1>4, <4>1 DEF IndInv, ReservationsOwned
    <3> QED BY <1>1, <2>1, <2>2, <3>1, <3>2 DEF IndInv, ReservationsOwned
  <2>6. InUseCounted'
    BY <1>1, <2>1, <2>2 DEF IndInv, InUseCounted
  <2> QED BY <1>7, <2>3, <2>4, <2>5, <2>6 DEF Ledger
<1>9. CASE r # NoReservation
  <2>1. /\ r \in LiveReservations /\ r \in Reservations
        /\ sendReservations[r] = CarriedBytes /\ CarriedBytes > 0
    BY <1>2, <1>9 DEF LiveReservations
  <2>2. /\ nOutgoingSubmitted' = nOutgoingSubmitted - CarriedBytes
        /\ sendReservations' = [sendReservations EXCEPT ![r] = 0]
        /\ freeReservations' = <<r>> \o freeReservations
        /\ nSendReservationsInUse' = nSendReservationsInUse - 1
    BY <1>1, <1>2, <1>9, <2>1 DEF ReleaseReservation
  <2>3. /\ sendReservations'[r] = 0
        /\ \A q \in Reservations : q # r => sendReservations'[q] = sendReservations[q]
    BY <1>t, <2>1, <2>2
  <2>4. LiveReservations' = LiveReservations \ {r}
    BY <2>1, <2>3 DEF LiveReservations
  <2>5. Reserved'
    <3>1. nSentBytes + nOutgoingSubmitted = nTaken /\ nOutgoingSubmitted <= nOutgoingQueuedBytes
      BY <1>1 DEF IndInv, Reserved
    <3>2. nOutgoingSubmitted' = nOutgoingSubmitted - CarriedBytes
      BY <2>2
    <3>3. /\ nSentBytes' + nOutgoingSubmitted' = nTaken
          /\ nOutgoingSubmitted' <= nOutgoingQueuedBytes'
      BY <1>t, <1>2, <1>3, <3>1, <3>2
    <3> QED BY <1>1, <3>3 DEF Reserved
  <2>6. Carried'
    <3> SUFFICES ASSUME NEW i \in 1 .. Len(flight')
                 PROVE  IF flight'[i].reservation = NoReservation
                        THEN flight'[i].from = flight'[i].to
                        ELSE /\ flight'[i].from < flight'[i].to
                             /\ sendReservations'[flight'[i].reservation]
                                  = flight'[i].to - flight'[i].from
      BY DEF Carried
    <3>1. flight'[i] = flight[i + 1] /\ i + 1 \in 1 .. Len(flight)
      BY <1>4
    <3>2. IF flight[i + 1].reservation = NoReservation
          THEN flight[i + 1].from = flight[i + 1].to
          ELSE /\ flight[i + 1].from < flight[i + 1].to
               /\ sendReservations[flight[i + 1].reservation]
                    = flight[i + 1].to - flight[i + 1].from
      BY <1>1, <3>1 DEF IndInv, Carried
    <3> QED BY <1>5, <1>6, <2>3, <3>1, <3>2
  <2>7. ReservationsOwned'
    <3>1. ASSUME NEW q \in LiveReservations'
          PROVE  \E i \in DOMAIN flight' : flight'[i].reservation = q
      <4>1. PICK i \in DOMAIN flight : flight[i].reservation = q
        BY <1>1, <2>4 DEF IndInv, ReservationsOwned
      <4>2. i # 1
        BY <1>2, <2>4, <4>1
      <4>3. i - 1 \in DOMAIN flight' /\ flight'[i - 1] = flight[i]
        BY <1>4, <4>1, <4>2
      <4> QED BY <4>1, <4>3
    <3>2. \A i, j \in DOMAIN flight' :
            i # j /\ flight'[i].reservation = flight'[j].reservation
              => flight'[i].reservation = NoReservation
      <4> TAKE i, j \in DOMAIN flight'
      <4>1. i # j => i + 1 # j + 1
        BY <1>4
      <4> QED BY <1>1, <1>4, <4>1 DEF IndInv, ReservationsOwned
    <3>3. /\ Len(freeReservations) \in Nat
          /\ DOMAIN freeReservations = 1 .. Len(freeReservations)
          /\ Len(freeReservations') = Len(freeReservations) + 1
          /\ DOMAIN freeReservations' = 1 .. Len(freeReservations) + 1
          /\ freeReservations'[1] = r
          /\ \A i \in 2 .. Len(freeReservations) + 1 :
               freeReservations'[i] = freeReservations[i - 1]
      <4>1. <<r>> \in Seq(Reservations) /\ Len(<<r>>) = 1 /\ <<r>>[1] = r
        BY <2>1
      <4> QED BY <1>t, <2>2, <4>1, ConcatProperties
    <3>4. Len(freeReservations') + nSendReservationsInUse' = Pool
      BY <1>t, <1>1, <2>2, <3>3, SendAssumption DEF IndInv, ReservationsOwned
    <3>5. \A i \in 2 .. Len(freeReservations) + 1 :
            /\ i - 1 \in DOMAIN freeReservations
            /\ freeReservations'[i] \notin LiveReservations
            /\ freeReservations'[i] # r
      BY <1>1, <2>1, <3>3 DEF IndInv, ReservationsOwned
    <3>6. \A i \in DOMAIN freeReservations' : i = 1 \/ i \in 2 .. Len(freeReservations) + 1
      BY <3>3
    <3>7. \A i \in DOMAIN freeReservations' : freeReservations'[i] \notin LiveReservations'
      BY <2>4, <3>3, <3>5, <3>6
    <3>8. \A i, j \in DOMAIN freeReservations' :
            i # j => freeReservations'[i] # freeReservations'[j]
      <4> SUFFICES ASSUME NEW i \in DOMAIN freeReservations',
                          NEW j \in DOMAIN freeReservations', i # j
                   PROVE  freeReservations'[i] # freeReservations'[j]
        OBVIOUS
      <4>1. CASE i = 1 \/ j = 1
        BY <3>3, <3>5, <3>6, <4>1
      <4>2. CASE i # 1 /\ j # 1
        <5>1. i - 1 # j - 1
          BY <3>3
        <5>2. /\ i - 1 \in DOMAIN freeReservations /\ j - 1 \in DOMAIN freeReservations
              /\ freeReservations'[i] = freeReservations[i - 1]
              /\ freeReservations'[j] = freeReservations[j - 1]
          BY <3>3, <3>5, <3>6, <4>2
        <5> QED BY <1>1, <5>1, <5>2 DEF IndInv, ReservationsOwned
      <4> QED BY <4>1, <4>2
    <3> QED BY <3>1, <3>2, <3>4, <3>7, <3>8 DEF ReservationsOwned
  <2>8. InUseCounted'
    <3>1. nSendReservationsInUse = Cardinality(LiveReservations)
      BY <1>1 DEF IndInv, InUseCounted
    <3>2. IsFiniteSet(LiveReservations)
      BY <1>t, LiveFinite
    <3>3. Cardinality(LiveReservations \ {r}) = Cardinality(LiveReservations) - 1
      BY <2>1, <3>2, FS_RemoveElement
    <3> QED BY <2>2, <2>4, <3>1, <3>3 DEF InUseCounted
  <2> QED BY <1>7, <2>5, <2>6, <2>7, <2>8 DEF Ledger
<1> QED BY <1>8, <1>9

LEMMA LedgerKept ==
  ASSUME StreamReceives, IndInv, [Next]_vars, TypeOK'
  PROVE  Ledger'
<1>1. LedgerStep
  BY LedgerSteps
<1> QED
  BY <1>1, GoneLedger, SubmitsLedger, ContinuesLedger, SettlesLedger, KeepsLedger
  DEF LedgerStep

-----------------------------------------------------------------------------
(* The invariant is inductive.                                             *)

\* The invariant is inductive.
LEMMA NextInv == StreamReceives /\ IndInv /\ [Next]_vars => IndInv'
<1> SUFFICES ASSUME StreamReceives, IndInv, [Next]_vars PROVE IndInv'
  OBVIOUS
<1>1. TypeOK' /\ OpsCounted' /\ Steady'
  BY TypeStep, OpsCountedStep, SteadyStep
<1>2. Ledger'
  BY <1>1, LedgerKept
<1> QED BY <1>1, <1>2 DEF IndInv, Steady, Ledger

LEMMA Inductive ==
  ASSUME StreamReceives
  PROVE  Spec => []IndInv
<1>1. Init => IndInv
  BY InitInv
<1>2. IndInv /\ [Next]_vars => IndInv'
  BY NextInv
<1> QED BY <1>1, <1>2, PTL DEF Spec

-----------------------------------------------------------------------------
(* The cleanup after a drop.                                               *)

\* What f_ShutdownDone and the last completion share: once the socket is dropped
\* the cleanup is done, or it is deferred and a counted completion is owed that
\* does it.
CleanupOwed ==
  /\ socket => ~bDeferredShutdownCleanup
  /\ ~socket /\ destroyed = "No" =>
       IF CountedCompletions = 0
       THEN /\ nOutgoingQueuedBytes = 0 /\ nOutgoingSubmitted = 0 /\ LiveReservations = {}
            /\ ~bDeferredShutdownCleanup
       ELSE bDeferredShutdownCleanup

\* A fatal disconnect defers the cleanup exactly if an operation is left.
LEMMA FatalCleanup ==
  ASSUME socket, CleanupOwed, NEW n, NEW r, FatalDisconnect(n, r),
         n = 0 <=> CountedCompletions' = 0
  PROVE  CleanupOwed'
<1>1. ~bDeferredShutdownCleanup /\ socket' = FALSE
  BY DEF CleanupOwed, FatalDisconnect, ClearSocket
<1>2. CASE n = 0
  <2>1. ReleaseTransferState /\ UNCHANGED bDeferredShutdownCleanup
    BY <1>2 DEF FatalDisconnect, DeferCleanup
  <2>2. nOutgoingQueuedBytes' = 0 /\ nOutgoingSubmitted' = 0 /\ LiveReservations' = {}
    BY <2>1 DEF ReleaseTransferState, ResetSendReservations, NoBytes, LiveReservations
  <2> QED  BY <1>1, <1>2, <2>1, <2>2 DEF CleanupOwed
<1>3. CASE n # 0
  BY <1>1, <1>3 DEF FatalDisconnect, DeferCleanup, CleanupOwed
<1> QED  BY <1>2, <1>3

\* The last completion of a dropped socket runs the cleanup that was deferred.
LEMMA CleanupStep ==
  ASSUME StreamReceives, IndInv, CleanupOwed, [Next]_vars
  PROVE  CleanupOwed'
<1> USE DEF lifeVars, queueVars, reservationVars, operationVars
<1>t. /\ TypeOK /\ Lifecycle /\ OpsCounted
      /\ flight \in Seq(Operation) /\ Len(flight) \in Nat
  BY DEF IndInv, TypeOK
<1>z. ASSUME socket PROVE ~uncounted /\ nSendOpsInFlight = Len(flight)
  BY <1>t, <1>z DEF OpsCounted, CountedCompletions
<1>a. ASSUME socket, UNCHANGED <<socket, bDeferredShutdownCleanup>>
      PROVE  CleanupOwed'
  BY <1>a DEF CleanupOwed
<1>b. ASSUME UNCHANGED <<lifeVars, nOutgoingQueuedBytes, reservationVars>>,
             CountedCompletions' = CountedCompletions
      PROVE  CleanupOwed'
  BY <1>b DEF CleanupOwed, LiveReservations
<1>c. ASSUME socket, FatalDisconnectNow, UNCHANGED flight
      PROVE  CleanupOwed'
  <2>1. nSendOpsInFlight = 0 <=> CountedCompletions' = 0
    BY <1>c, <1>z DEF FatalDisconnectNow, CountedCompletions, historyVars
  <2> QED  BY <1>c, <2>1, FatalCleanup DEF FatalDisconnectNow
<1>p. ASSUME SubmitPart \/ DrainPart
      PROVE  CleanupOwed'
  <2>1. socket /\ FatalDisconnect(nSendOpsInFlight, NoReservation) /\ uncounted' = TRUE
    BY <1>p, PartTaken
  <2>2. PICK op \in Operation : flight' = Append(flight, op)
    BY <1>p, PartTaken
  <2>3. Len(flight') = Len(flight) + 1 /\ flight' # <<>>
    BY <1>t, <2>2
  <2>4. CountedCompletions' = nSendOpsInFlight
    BY <1>t, <1>z, <2>1, <2>3 DEF CountedCompletions
  <2> QED  BY <2>1, <2>4, FatalCleanup
<1>l. ASSUME Len(flight') = Len(flight), flight' \in Seq(Operation), uncounted' = uncounted
      PROVE  CountedCompletions' = CountedCompletions
  <2>1. flight' = <<>> <=> flight = <<>>
    BY <1>t, <1>l
  <2> QED  BY <1>l, <2>1 DEF CountedCompletions
<1>e. ASSUME NEW s \in {"Error", "Cancelled"}, Finish(s)
      PROVE  CleanupOwed'
  <2>1. Len(flight') = Len(flight)
    BY <1>t, <1>e, FinishKeeps DEF Keeps
  <2>2. flight' \in Seq(Operation)
    BY <1>t, <1>e, FinishTypes DEF TypeOK
  <2>3. CountedCompletions' = CountedCompletions
    BY <1>l, <1>e, <2>1, <2>2 DEF Finish, historyVars
  <2> QED  BY <1>b, <1>e, <2>3 DEF Finish
<1>1. CASE User
  <2>1. CASE Destroy
    BY <2>1 DEF Destroy, ClearSocket, CleanupOwed
  <2>2. CASE ~Destroy
    <3>1. socket
      BY <1>t, <1>1, <2>2 DEF User, SendData, GracefulDisconnect, GracefulDisconnectFails, Idle, Lifecycle
    <3> QED
      BY <1>1, <1>a, <1>c, <2>2, <3>1 DEF User, SendData, GracefulDisconnect, GracefulDisconnectFails
  <2> QED  BY <2>1, <2>2
<1>2. CASE Network
  BY <1>2, <1>a, <1>c, <1>e DEF Network, StateWrite, StateClosed, ReceiveStreamOutput, ReadinessOutput,
                           RecordLayerEnds, KernelFails
<1>3. CASE RunHandler
  <2>1. socket
    BY <1>t, <1>3 DEF RunHandler, SubmitBatch, RefuseBatch, EndUpdateSend, EndUpdateSendFails,
                      DrainSocketOutput, DrainRefused, SubmitPart, DrainPart, Lifecycle
  <2> QED
    BY <1>3, <1>a, <1>c, <1>p, <2>1 DEF RunHandler, SubmitBatch, RefuseBatch, EndUpdateSend,
                            EndUpdateSendFails, DrainSocketOutput, DrainRefused
<1>4. CASE HandleCompletion
  <2>1. CASE SendCompleted
    BY <1>a, <2>1 DEF SendCompleted
  <2>2. CASE SendContinued
    BY <2>2, NoContinuation
  <2>3. CASE SendFailed
    <3>1. /\ socket /\ TakeCompletion /\ flight' = Tail(flight) /\ uncounted' = uncounted
          /\ FatalDisconnect(CountCompletion(nSendOpsInFlight), Completed.reservation)
      BY <2>3 DEF SendFailed, historyVars
    <3>2. CountedCompletions # 0
      BY <1>z, <3>1, CompletionCounts
    <3>3. CountCompletion(nSendOpsInFlight) = CountedCompletions'
      BY <3>1, <3>2, CompletionCounts
    <3> QED  BY <3>1, <3>3, FatalCleanup
  <2>4. CASE SendCompletedWithoutSocket
    <3>1. /\ ~socket /\ destroyed = "No"
          /\ nOutgoingSubmitted' = 0 /\ sendReservations' = NoBytes
          /\ UNCHANGED <<socket, destroyed>>
      BY <2>4 DEF SendCompletedWithoutSocket, ResetSendReservations, Idle
    <3>2. LiveReservations' = {}
      BY <3>1 DEF NoBytes, LiveReservations
    <3>3. TakeCompletion /\ flight' = Tail(flight) /\ uncounted' = uncounted
      BY <2>4 DEF SendCompletedWithoutSocket, historyVars
    <3>4. CASE CountedCompletions = 0
      <4>1. CountedCompletions' = 0
        BY <3>3, <3>4, CompletionCounts
      <4>2. nOutgoingQueuedBytes = 0 /\ ~bDeferredShutdownCleanup
        BY <3>1, <3>4 DEF CleanupOwed
      <4>3. nOutgoingQueuedBytes' = 0 /\ ~bDeferredShutdownCleanup'
        BY <2>4, <4>2 DEF SendCompletedWithoutSocket, LastOfDeferred
      <4> QED  BY <3>1, <3>2, <4>1, <4>3 DEF CleanupOwed
    <3>5. CASE CountedCompletions # 0
      <4>1. CountCompletion(nSendOpsInFlight) = CountedCompletions'
        BY <3>3, <3>5, CompletionCounts
      <4>2. bDeferredShutdownCleanup
        BY <3>1, <3>5 DEF CleanupOwed
      <4>3. IF CountedCompletions' = 0
            THEN nOutgoingQueuedBytes' = 0 /\ ~bDeferredShutdownCleanup'
            ELSE bDeferredShutdownCleanup'
        BY <2>4, <4>1, <4>2 DEF SendCompletedWithoutSocket, LastOfDeferred
      <4> QED  BY <3>1, <3>2, <4>3 DEF CleanupOwed
    <3> QED  BY <3>4, <3>5
  <2>5. CASE SendCompletedDestroyed
    BY <1>t, <2>5 DEF SendCompletedDestroyed, Lifecycle, CleanupOwed
  <2> QED  BY <1>4, <2>1, <2>2, <2>3, <2>4, <2>5, NoContinuation DEF HandleCompletion
<1>5. CASE HandleRelease
  BY <1>5, <1>b DEF HandleRelease, SendBufferReleased, CountedCompletions, historyVars
<1>6. CASE KernelEnds
  <2>1. CASE KernelCancels
    BY <1>e, <2>1 DEF KernelCancels
  <2>2. CASE KernelCompletes
    <3>1. Len(flight') = Len(flight)
      BY <1>t, <2>2, KernelCompletesKeeps DEF Keeps
    <3>2. flight' \in Seq(Operation)
      BY <1>t, <2>2, KernelCompletesTypes DEF TypeOK
    <3>3. CountedCompletions' = CountedCompletions
      BY <1>l, <2>2, <3>1, <3>2 DEF KernelCompletes
    <3> QED  BY <1>b, <2>2, <3>3 DEF KernelCompletes
  <2> QED  BY <1>6, <2>1, <2>2 DEF KernelEnds
<1>7. CASE DestroyDone
  BY <1>t, <1>7 DEF DestroyDone, Lifecycle, CleanupOwed
<1>8. CASE Terminated \/ UNCHANGED vars
  BY <1>8, <1>b DEF Terminated, vars, CountedCompletions, historyVars
<1> QED  BY <1>1, <1>2, <1>3, <1>4, <1>5, <1>6, <1>7, <1>8 DEF Next

-----------------------------------------------------------------------------
(* The stream the actor promises.                                          *)

\* A message has at least one byte.
MessagesHaveBytes == MinMessage > 0

\* The operations end within the bytes accepted, the completed ones within
\* those the kernel took.
OpsWithin(ops, onWire) ==
  \A i \in 1 .. Len(ops) :
    /\ ops[i].to <= nAccepted
    /\ ops[i].status = "Done" => ops[i].to <= onWire

\* The open promises lie in order between the bytes reported and those accepted.
PromisesPlaced(promises, reported, accepted) ==
  /\ \A i \in 1 .. Len(promises) : reported < promises[i] /\ promises[i] <= accepted
  /\ \A i, j \in 1 .. Len(promises) : i <= j => promises[i] <= promises[j]

StreamInv ==
  /\ bShutdownCalled => state = "Disconnected"
  /\ nSentBytes <= nOnWire /\ nOnWire <= nAccepted
  /\ OpsWithin(flight, nOnWire)
  /\ socket =>
       /\ nSentBytes + nOutgoingQueuedBytes = nAccepted
       /\ PromisesPlaced(outgoingDataPromises, nSentBytes, nAccepted)

StreamTyped ==
  /\ nSentBytes \in Nat /\ nOnWire \in Nat /\ nAccepted \in Nat /\ nOutgoingQueuedBytes \in Nat
  /\ outgoingDataPromises \in Seq(Nat) /\ flight \in Seq(Operation)
  /\ socket \in BOOLEAN /\ bShutdownCalled \in BOOLEAN

StreamStep == [Stream!Next]_(Stream!vars)

\* The operations in flight are operations.
LEMMA FlightTyped ==
  ASSUME flight \in Seq(Operation)
  PROVE  /\ Len(flight) \in Nat
         /\ \A i \in 1 .. Len(flight) :
              flight[i] \in Operation /\ flight[i].from \in Nat /\ flight[i].to \in Nat
<1>1. \A i \in 1 .. Len(flight) : flight[i] \in Operation
  OBVIOUS
<1> QED  BY <1>1 DEF Operation

\* Nothing the caller sees changes, and no operation gets done.
LEMMA StreamStutters ==
  ASSUME StreamInv,
         UNCHANGED <<state, socket, bShutdownCalled, nSentBytes, nOutgoingQueuedBytes,
                     outgoingDataPromises, nAccepted, nOnWire>>,
         OpsWithin(flight', nOnWire)
  PROVE  StreamInv' /\ StreamStep
<1>1. StreamInv'
  BY DEF StreamInv, OpsWithin
<1>2. UNCHANGED Stream!vars
  BY DEF Stream!vars, Phase
<1> QED  BY <1>1, <1>2 DEF StreamStep

\* The socket is dropped: its promises are abandoned, now or later.
LEMMA StreamLost ==
  ASSUME StreamInv, socket' = FALSE,
         bShutdownCalled' => state' = "Disconnected",
         outgoingDataPromises' \in {outgoingDataPromises, <<>>},
         UNCHANGED <<nSentBytes, nAccepted, nOnWire>>,
         OpsWithin(flight', nOnWire)
  PROVE  StreamInv' /\ StreamStep
<1>1. StreamInv'
  BY DEF StreamInv, OpsWithin
<1>2. Stream!Lose
  BY DEF Stream!Lose, Phase
<1> QED  BY <1>1, <1>2 DEF StreamStep, Stream!Next

LEMMA StreamFatal ==
  ASSUME StreamInv, NEW n, NEW r, FatalDisconnect(n, r), UNCHANGED <<nAccepted, nOnWire>>,
         OpsWithin(flight', nOnWire)
  PROVE  StreamInv' /\ StreamStep
<1>1. socket' = FALSE /\ state' = "Disconnected" /\ outgoingDataPromises' = <<>>
  BY DEF FatalDisconnect, ClearSocket
<1> QED  BY <1>1, StreamLost DEF FatalDisconnect

\* The write side is shut down when everything accepted is on the wire.
LEMMA StreamShuts ==
  ASSUME IndInv, StreamInv, socket, Drained, ~bShutdownCalled, Shutdown, state' = "Disconnected",
         UNCHANGED <<socket, nSentBytes, nOutgoingQueuedBytes, outgoingDataPromises,
                     nAccepted, nOnWire, flight>>
  PROVE  StreamInv' /\ StreamStep
<1>t. StreamTyped /\ OpsCounted
  BY DEF IndInv, TypeOK, StreamTyped
<1>1. bShutdownCalled'
  BY DEF Shutdown
<1>2. nOnWire = nAccepted /\ nSentBytes = nAccepted
  BY <1>t DEF StreamInv, StreamTyped, Drained
<1>3. outgoingDataPromises = <<>>
  <2>1. ASSUME Len(outgoingDataPromises) # 0 PROVE FALSE
    <3>1. 1 \in 1 .. Len(outgoingDataPromises)
      BY <1>t, <2>1 DEF StreamTyped
    <3>2. outgoingDataPromises[1] \in Nat
      BY <1>t, <3>1 DEF StreamTyped
    <3> QED  BY <1>t, <1>2, <3>1, <3>2 DEF StreamInv, PromisesPlaced, StreamTyped
  <2> QED  BY <1>t, <2>1 DEF StreamTyped
<1>4. StreamInv'
  BY DEF StreamInv, OpsWithin
<1>5. Stream!Shut
  BY <1>1, <1>2, <1>3 DEF Stream!Shut, Phase
<1> QED  BY <1>4, <1>5 DEF StreamStep, Stream!Next

\* f_SendData places the promise where the bytes of its message end.
LEMMA StreamSends ==
  ASSUME IndInv, StreamInv, NEW n \in Nat \ {0}, SendData(n)
  PROVE  StreamInv' /\ StreamStep
<1> DEFINE promises == outgoingDataPromises
<1>t. StreamTyped /\ MaxBytes \in Nat
  BY SendAssumption DEF IndInv, TypeOK, StreamTyped
<1>1. /\ socket /\ state = "Connected" /\ nAccepted + n <= MaxBytes
      /\ nAccepted' = nAccepted + n /\ nOutgoingQueuedBytes' = nOutgoingQueuedBytes + n
      /\ promises' = Append(promises, nSentBytes + nOutgoingQueuedBytes + n)
      /\ UNCHANGED <<socket, state, bShutdownCalled, nSentBytes, nOnWire, flight>>
  BY DEF SendData, WriteQueuedMessages, Idle, IndInv, Lifecycle, lifeVars, operationVars
<1>2. promises' = Append(promises, nAccepted + n)
  BY <1>1 DEF StreamInv
<1>3. PromisesPlaced(promises', nSentBytes', nAccepted')
  <2>1. /\ Len(promises') = Len(promises) + 1 /\ Len(promises) \in Nat
        /\ promises'[Len(promises) + 1] = nAccepted + n
        /\ \A i \in 1 .. Len(promises) : promises'[i] = promises[i] /\ promises[i] \in Nat
    BY <1>t, <1>2 DEF StreamTyped
  <2>2. nSentBytes <= nAccepted
    BY <1>t DEF StreamInv, StreamTyped
  <2>3. ASSUME NEW i \in 1 .. Len(promises')
        PROVE  nSentBytes < promises'[i] /\ promises'[i] <= nAccepted + n
    BY <1>t, <1>1, <2>1, <2>2 DEF StreamInv, PromisesPlaced, StreamTyped
  <2>4. ASSUME NEW i \in 1 .. Len(promises'), NEW j \in 1 .. Len(promises'), i <= j
        PROVE  promises'[i] <= promises'[j]
    <3>1. CASE j \in 1 .. Len(promises)
      <4>1. i \in 1 .. Len(promises)
        BY <2>1, <2>4, <3>1
      <4> QED  BY <1>1, <2>1, <2>4, <3>1, <4>1 DEF StreamInv, PromisesPlaced
    <3>2. CASE j = Len(promises) + 1 /\ i = j
      <4>1. promises'[j] = promises'[i] /\ promises'[j] = nAccepted + n
        BY <2>1, <3>2
      <4> QED  BY <1>t, <4>1 DEF StreamTyped
    <3>3. CASE j = Len(promises) + 1 /\ i \in 1 .. Len(promises)
      <4>1. promises'[j] = nAccepted + n /\ promises'[i] = promises[i] /\ promises[i] \in Nat
        BY <2>1, <3>3
      <4>2. promises[i] <= nAccepted
        BY <1>1, <3>3 DEF StreamInv, PromisesPlaced
      <4> QED  BY <1>t, <4>1, <4>2 DEF StreamTyped
    <3> QED  BY <2>1, <2>4, <3>1, <3>2, <3>3
  <2> QED  BY <1>1, <2>3, <2>4 DEF PromisesPlaced
<1>4. OpsWithin(flight, nOnWire)'
  <2>1. \A i \in 1 .. Len(flight) : flight[i].to \in Nat
    BY <1>t, FlightTyped DEF StreamTyped
  <2> QED  BY <1>t, <1>1, <2>1 DEF StreamInv, StreamTyped, OpsWithin
<1>5. StreamInv'
  BY <1>t, <1>1, <1>3, <1>4 DEF StreamInv, StreamTyped
<1>6. Stream!Send(n)
  BY <1>1, <1>2 DEF Stream!Send, Phase, StreamInv
<1>7. n \in 0 .. MaxBytes
  BY <1>t, <1>1 DEF StreamTyped
<1> QED  BY <1>5, <1>6, <1>7 DEF StreamStep, Stream!Next

\* The kernel takes an operation.
LEMMA StreamTransmits ==
  ASSUME IndInv, StreamInv, KernelCompletes
  PROVE  StreamInv' /\ StreamStep
<1>t. StreamTyped
  BY DEF IndInv, TypeOK, StreamTyped
<1>1. PICK k \in DOMAIN flight :
        /\ flight' = [flight EXCEPT ![k].status = "Done"]
        /\ nOnWire' = IF nOnWire < flight[k].to THEN flight[k].to ELSE nOnWire
  BY DEF KernelCompletes
<1>2. UNCHANGED <<state, socket, bShutdownCalled, nSentBytes, nOutgoingQueuedBytes,
                  outgoingDataPromises, nAccepted>>
  BY DEF KernelCompletes, lifeVars, queueVars
<1>3. \A i \in 1 .. Len(flight) : flight[i] \in Operation /\ flight[i].to \in Nat
  BY <1>t, FlightTyped DEF StreamTyped
<1>4. k \in 1 .. Len(flight)
  BY <1>t DEF StreamTyped
<1>5. nOnWire' \in nOnWire .. nAccepted /\ flight[k].to <= nOnWire' /\ nOnWire' \in Nat
  <2>1. flight[k].to \in Nat /\ flight[k].to <= nAccepted /\ nOnWire <= nAccepted
    BY <1>3, <1>4 DEF StreamInv, OpsWithin
  <2>2. nOnWire' = IF nOnWire < flight[k].to THEN flight[k].to ELSE nOnWire
    BY <1>1
  <2> QED  BY <1>t, <2>1, <2>2 DEF StreamTyped
<1>6. OpsWithin(flight, nOnWire)'
  <2>1. Len(flight') = Len(flight)
    BY <1>t, <1>1 DEF StreamTyped
  <2>2. ASSUME NEW i \in 1 .. Len(flight)
        PROVE  flight'[i].to = flight[i].to /\ (i # k => flight'[i] = flight[i])
    BY <1>t, <1>1, <1>3 DEF StreamTyped, Operation
  <2>3. ASSUME NEW i \in 1 .. Len(flight), flight'[i].status = "Done"
        PROVE  flight'[i].to <= nOnWire'
    <3>1. CASE i = k
      BY <1>5, <2>2, <3>1
    <3>2. CASE i # k
      BY <1>t, <1>3, <1>5, <2>2, <2>3, <3>2 DEF StreamInv, OpsWithin, StreamTyped
    <3> QED  BY <3>1, <3>2
  <2> QED  BY <1>2, <2>1, <2>2, <2>3 DEF StreamInv, OpsWithin
<1>7. StreamInv'
  BY <1>t, <1>2, <1>5, <1>6 DEF StreamInv, StreamTyped
<1>8. Stream!Transmit
  BY <1>2, <1>5 DEF Stream!Transmit, Phase
<1> QED  BY <1>7, <1>8 DEF StreamStep, Stream!Next

\* An operation is appended, or the oldest one is taken.
LEMMA AppendWithin ==
  ASSUME StreamTyped, StreamInv, NEW op \in Operation, op.to <= nAccepted, op.status = "Kernel",
         flight' = Append(flight, op)
  PROVE  OpsWithin(flight', nOnWire)
<1>1. /\ Len(flight') = Len(flight) + 1 /\ Len(flight) \in Nat
      /\ flight'[Len(flight) + 1] = op
      /\ \A i \in 1 .. Len(flight) : flight'[i] = flight[i]
  BY DEF StreamTyped
<1> SUFFICES ASSUME NEW i \in 1 .. Len(flight')
             PROVE  /\ flight'[i].to <= nAccepted
                    /\ flight'[i].status = "Done" => flight'[i].to <= nOnWire
  BY DEF OpsWithin
<1>2. CASE i = Len(flight) + 1
  BY <1>1, <1>2
<1>3. CASE i \in 1 .. Len(flight)
  BY <1>1, <1>3 DEF StreamInv, OpsWithin
<1> QED  BY <1>1, <1>2, <1>3

LEMMA TailWithin ==
  ASSUME StreamTyped, StreamInv, flight # <<>>, flight' = Tail(flight)
  PROVE  OpsWithin(flight', nOnWire)
<1>1. /\ Len(flight') = Len(flight) - 1 /\ Len(flight) \in Nat
      /\ \A i \in 1 .. Len(flight') : flight'[i] = flight[i + 1]
  BY DEF StreamTyped
<1> QED  BY <1>1 DEF StreamInv, OpsWithin

\* The kernel refuses or cancels what is left.
LEMMA FinishWithin ==
  ASSUME StreamTyped, StreamInv, NEW s \in {"Error", "Cancelled"}, Finish(s)
  PROVE  OpsWithin(flight', nOnWire)
<1>1. Len(flight) \in Nat /\ DOMAIN flight = 1 .. Len(flight)
  BY DEF StreamTyped
<1>2. flight' = [i \in 1 .. Len(flight) |->
                   IF InKernel(i) THEN [flight[i] EXCEPT !.status = s] ELSE flight[i]]
  BY <1>1 DEF Finish
<1>3. Len(flight') = Len(flight)
  BY <1>1, <1>2
<1>4. ASSUME NEW i \in 1 .. Len(flight)
      PROVE  /\ flight'[i].to = flight[i].to
             /\ flight'[i].status = "Done" => flight[i].status = "Done"
  <2>1. flight[i] \in Operation
    BY FlightTyped DEF StreamTyped
  <2> QED  BY <1>2, <2>1 DEF Operation
<1> QED  BY <1>3, <1>4 DEF StreamInv, OpsWithin

\* With a socket, what the transport took was accepted.
LEMMA TakenAccepted ==
  ASSUME IndInv, StreamInv, socket
  PROVE  nTaken <= nAccepted /\ GatherStart = nTaken
BY DEF IndInv, TypeOK, Reserved, StreamInv, GatherStart

\* A batch ends where bytes the caller sent end, a continuation behind them.
LEMMA StreamSubmits ==
  ASSUME IndInv, StreamInv, SubmitBatch
  PROVE  StreamInv' /\ StreamStep
<1>t. StreamTyped /\ TypeOK
  BY DEF IndInv, TypeOK, StreamTyped
<1>s. socket
  BY DEF IndInv, Lifecycle, SubmitBatch
<1>1. PICK nScheduled \in 1 .. GatherSendSpans :
        flight' = Append(flight, Batch(Head(freeReservations), nScheduled, GatherSendSpans))
  BY DEF SubmitBatch
<1> DEFINE op == Batch(Head(freeReservations), nScheduled, GatherSendSpans)
<1>2. TypeOK'
  BY SubmitTypes
<1>3. op \in Operation
  <2>1. flight' \in Seq(Operation) /\ flight \in Seq(Operation)
    BY <1>t, <1>2 DEF TypeOK
  <2>2. flight'[Len(flight) + 1] = op /\ Len(flight) + 1 \in 1 .. Len(flight')
    BY <1>1, <2>1
  <2> QED  BY <2>1, <2>2
<1>4. op.to <= nAccepted /\ op.status = "Kernel"
  <2>1. op.to = nSentBytes + nOutgoingSubmitted + nScheduled /\ op.status = "Kernel"
    BY DEF Batch, GatherStart
  <2>2. GatherSendSpans <= nOutgoingQueuedBytes - nOutgoingSubmitted
    BY <1>t, SendAssumption DEF GatherSendSpans, Minimum, TypeOK
  <2>3. nOutgoingQueuedBytes - nOutgoingSubmitted \in Int /\ GatherSendSpans \in Int
    BY <1>t, SendAssumption DEF GatherSendSpans, Minimum, TypeOK
  <2>4. nSentBytes + nOutgoingQueuedBytes = nAccepted
    BY <1>s DEF StreamInv
  <2> QED  BY <1>t, <2>1, <2>2, <2>3, <2>4 DEF TypeOK
<1>5. OpsWithin(flight', nOnWire)
  BY <1>t, <1>1, <1>3, <1>4, AppendWithin
<1>6. UNCHANGED <<state, socket, bShutdownCalled, nSentBytes, nOutgoingQueuedBytes,
                  outgoingDataPromises, nAccepted, nOnWire>>
  BY DEF SubmitBatch, lifeVars, queueVars
<1> QED  BY <1>5, <1>6, StreamStutters

LEMMA StreamDrains ==
  ASSUME IndInv, StreamInv, DrainSocketOutput
  PROVE  StreamInv' /\ StreamStep
<1>t. StreamTyped /\ TypeOK
  BY DEF IndInv, TypeOK, StreamTyped
<1>1. UNCHANGED <<state, socket, bShutdownCalled, nSentBytes, nOutgoingQueuedBytes,
                  outgoingDataPromises, nAccepted, nOnWire>>
  BY DEF DrainSocketOutput, lifeVars, queueVars, historyVars
<1>2. OpsWithin(flight', nOnWire)
  <2>1. CASE DrainWanted
    <3> DEFINE op == Continuation(NoReservation)
    <3>1. op \in Operation /\ op.to = nTaken /\ op.status = "Kernel"
      BY <1>t, SendAssumption DEF Continuation, Operation, TypeOK
    <3>2. socket
      BY DEF IndInv, Lifecycle, DrainSocketOutput
    <3>3. nTaken <= nAccepted
      BY <3>2, TakenAccepted
    <3> HIDE DEF op
    <3>4. flight' = Append(flight, op)
      BY <2>1 DEF DrainSocketOutput, op
    <3> QED  BY <1>t, <3>1, <3>3, <3>4, AppendWithin
  <2>2. CASE ~DrainWanted
    BY <2>2 DEF DrainSocketOutput, StreamInv
  <2> QED  BY <2>1, <2>2
<1> QED  BY <1>1, <1>2, StreamStutters

\* A completion resolves the promises its bytes reach, oldest first.
LEMMA StreamSettles ==
  ASSUME IndInv, StreamInv, SendCompleted
  PROVE  StreamInv' /\ StreamStep
<1> DEFINE promises == outgoingDataPromises
           n        == CarriedBytes
<1>t. StreamTyped /\ TypeOK
  BY DEF IndInv, TypeOK, StreamTyped
<1>1. /\ socket /\ flight # <<>> /\ flight' = Tail(flight) /\ Completed.status = "Done"
      /\ UNCHANGED <<state, socket, bShutdownCalled, nAccepted, nOnWire>>
  BY DEF SendCompleted, TakeCompletion, lifeVars, historyVars
<1>2. ConsumeSentBytes(n)
  <2>1. nSendPlaintextHeld + CarriedBytes = CarriedBytes
    BY <1>1, OldestOperation DEF IndInv, NothingHeld
  <2> QED  BY <2>1 DEF SendCompleted
<1>3. /\ n \in Nat /\ n <= nOutgoingQueuedBytes
      /\ Completed.from = nSentBytes /\ Completed = flight[1] /\ Completed \in Operation
  BY <1>1, OldestOperation
<1>4. nSentBytes' = Completed.to
  <2>1. Completed.to \in Nat
    BY <1>3 DEF Operation
  <2> QED  BY <1>t, <1>2, <1>3, <2>1 DEF ConsumeSentBytes, CarriedBytes, StreamTyped
<1>5. nSentBytes' <= nOnWire
  <2>1. 1 \in 1 .. Len(flight)
    BY <1>t, <1>1 DEF StreamTyped
  <2> QED  BY <1>1, <1>3, <1>4, <2>1 DEF StreamInv, OpsWithin
<1>6. /\ nSentBytes' = nSentBytes + n /\ nOutgoingQueuedBytes' = nOutgoingQueuedBytes - n
      /\ nSentBytes' \in Nat /\ nSentBytes' + nOutgoingQueuedBytes' = nAccepted
  BY <1>t, <1>1, <1>2, <1>3 DEF ConsumeSentBytes, StreamInv, StreamTyped
<1>7. PICK k \in 0 .. Len(promises) :
        /\ \A i \in 1 .. k : promises[i] <= nSentBytes'
        /\ k < Len(promises) => promises[k + 1] > nSentBytes'
        /\ promises' = SubSeq(promises, k + 1, Len(promises))
  <2>1. CASE n = 0
    <3>1. promises' = promises /\ nSentBytes' = nSentBytes
      BY <1>t, <1>2, <1>6, <2>1 DEF ConsumeSentBytes, StreamTyped
    <3>2. SubSeq(promises, 0 + 1, Len(promises)) = promises /\ Len(promises) \in Nat
      BY <1>t DEF StreamTyped
    <3>3. 0 < Len(promises) => promises[0 + 1] > nSentBytes'
      <4> SUFFICES ASSUME 0 < Len(promises) PROVE promises[1] > nSentBytes
        BY <3>1
      <4>1. 1 \in 1 .. Len(promises)
        BY <3>2
      <4>2. promises[1] \in Nat
        BY <1>t, <4>1 DEF StreamTyped
      <4> QED  BY <1>t, <1>1, <4>1, <4>2 DEF StreamInv, PromisesPlaced, StreamTyped
    <3>4. 0 \in 0 .. Len(promises) /\ \A i \in 1 .. 0 : promises[i] <= nSentBytes'
      BY <3>2
    <3> QED  BY <3>1, <3>2, <3>3, <3>4
  <2>2. CASE n # 0
    BY <1>2, <1>6, <2>2 DEF ConsumeSentBytes
  <2> QED  BY <2>1, <2>2
<1>8. PromisesPlaced(promises', nSentBytes', nAccepted)
  <2>1. /\ Len(promises') = Len(promises) - k /\ Len(promises) \in Nat /\ k \in Nat
        /\ \A i \in 1 .. Len(promises') :
             /\ promises'[i] = promises[k + i] /\ k + i \in 1 .. Len(promises)
             /\ promises[k + i] \in Nat
    BY <1>t, <1>7 DEF StreamTyped
  <2>2. ASSUME NEW i \in 1 .. Len(promises')
        PROVE  nSentBytes' < promises'[i] /\ promises'[i] <= nAccepted
    <3>1. promises[k + 1] > nSentBytes' /\ k + 1 \in 1 .. Len(promises) /\ promises[k + 1] \in Nat
      BY <1>t, <1>7, <2>1 DEF StreamTyped
    <3>2. promises[k + 1] <= promises[k + i] /\ promises[k + i] <= nAccepted
      BY <1>1, <2>1, <3>1 DEF StreamInv, PromisesPlaced
    <3> QED  BY <1>6, <2>1, <3>1, <3>2
  <2>3. ASSUME NEW i \in 1 .. Len(promises'), NEW j \in 1 .. Len(promises'), i <= j
        PROVE  promises'[i] <= promises'[j]
    BY <1>1, <2>1, <2>3 DEF StreamInv, PromisesPlaced
  <2> QED  BY <2>2, <2>3 DEF PromisesPlaced
<1>9. StreamInv'
  <2>1. OpsWithin(flight, nOnWire)'
    BY <1>t, <1>1, TailWithin DEF OpsWithin
  <2> QED  BY <1>1, <1>5, <1>6, <1>8, <2>1 DEF StreamInv
<1>10. Stream!Settle
  <2>1. nSentBytes' \in nSentBytes .. nOnWire
    BY <1>t, <1>3, <1>5, <1>6 DEF StreamTyped
  <2>2. Phase # "Gone" /\ UNCHANGED <<Phase, nAccepted, nOnWire>>
    BY <1>1 DEF Phase
  <2> QED  BY <1>7, <2>1, <2>2 DEF Stream!Settle
<1> QED  BY <1>9, <1>10 DEF StreamStep, Stream!Next

\* A close shuts the stream down at once if everything is on the wire, and
\* otherwise leaves that to the handler that finds it so.
LEMMA StreamCloses ==
  ASSUME IndInv, StreamInv, GracefulDisconnect
  PROVE  StreamInv' /\ StreamStep
<1>1. /\ socket /\ state = "Connected" /\ state' = "Disconnected" /\ ~bShutdownCalled
      /\ UNCHANGED <<socket, nSentBytes, nOutgoingQueuedBytes, outgoingDataPromises,
                     nAccepted, nOnWire, flight>>
  BY DEF GracefulDisconnect, Idle, IndInv, Lifecycle, TypeOK, StreamInv,
    queueVars, operationVars, historyVars
<1>2. CASE Drained
  BY <1>1, <1>2, StreamShuts DEF GracefulDisconnect
<1>3. CASE ~Drained
  <2>1. bShutdownCalled' = bShutdownCalled
    BY <1>3 DEF GracefulDisconnect
  <2>2. StreamInv'
    BY <1>1, <2>1 DEF StreamInv, OpsWithin
  <2>3. Stream!Close
    BY <1>1, <2>1 DEF Stream!Close, Phase
  <2> QED  BY <2>2, <2>3 DEF StreamStep, Stream!Next
<1> QED  BY <1>2, <1>3

LEMMA StreamUpdateEnds ==
  ASSUME IndInv, StreamInv, EndUpdateSend
  PROVE  StreamInv' /\ StreamStep
<1>1. /\ socket
      /\ UNCHANGED <<state, socket, nSentBytes, nOutgoingQueuedBytes, outgoingDataPromises,
                     nAccepted, nOnWire, flight>>
  BY DEF EndUpdateSend, IndInv, Lifecycle, queueVars, operationVars, historyVars
<1>2. CASE ShutdownDue
  BY <1>1, <1>2, StreamShuts DEF EndUpdateSend, ShutdownDue
<1>3. CASE ~ShutdownDue
  BY <1>1, <1>3, StreamStutters DEF EndUpdateSend, StreamInv
<1> QED  BY <1>2, <1>3

\* The transport or the timer ends the socket: its promises are abandoned.
LEMMA StreamEnds ==
  ASSUME StreamInv, FatalDisconnectNow, UNCHANGED flight
  PROVE  StreamInv' /\ StreamStep
<1>1. OpsWithin(flight', nOnWire)
  BY DEF StreamInv
<1> QED  BY <1>1, StreamFatal DEF FatalDisconnectNow, historyVars

\* The socket is dropped over a generation of which the platform took a part.
LEMMA StreamPart ==
  ASSUME IndInv, StreamInv, SubmitPart \/ DrainPart
  PROVE  StreamInv' /\ StreamStep
<1>t. StreamTyped
  BY DEF IndInv, TypeOK, StreamTyped
<1>1. /\ socket /\ FatalDisconnect(nSendOpsInFlight, NoReservation)
      /\ UNCHANGED <<nAccepted, nOnWire>>
  BY PartTaken
<1>2. PICK op \in Operation :
        /\ flight' = Append(flight, op)
        /\ op.status = "Kernel"
        /\ op.to <= nSentBytes + nOutgoingQueuedBytes
  BY PartTaken
<1>3. nSentBytes + nOutgoingQueuedBytes = nAccepted
  BY <1>1 DEF StreamInv
<1>4. OpsWithin(flight', nOnWire)
  BY <1>t, <1>2, <1>3, AppendWithin
<1> QED  BY <1>1, <1>4, StreamFatal

\* Every step of the actor is a step of the stream it promises, or none.
LEMMA StreamKept ==
  ASSUME StreamReceives, MessagesHaveBytes, IndInv, StreamInv, [Next]_vars
  PROVE  StreamInv' /\ StreamStep
<1> USE DEF lifeVars, queueVars, operationVars, historyVars
<1>t. StreamTyped
  BY DEF IndInv, TypeOK, StreamTyped
<1>o. OpsWithin(flight, nOnWire)
  BY DEF StreamInv
<1>1. CASE User
  <2>1. ASSUME NEW n \in MinMessage .. MaxMessage, SendData(n) PROVE StreamInv' /\ StreamStep
    <3>1. n \in Nat \ {0}
      BY SendAssumption DEF MessagesHaveBytes
    <3> QED  BY <2>1, <3>1, StreamSends
  <2>2. CASE GracefulDisconnect
    BY <2>2, StreamCloses
  <2>3. CASE GracefulDisconnectFails
    BY <2>3, StreamEnds DEF GracefulDisconnectFails
  <2>4. CASE Destroy
    BY <1>o, <2>4, StreamLost DEF Destroy, ClearSocket, StreamInv
  <2> QED  BY <1>1, <2>1, <2>2, <2>3, <2>4 DEF User
<1>2. CASE Network
  <2>1. CASE StateWrite \/ ReceiveStreamOutput \/ ReadinessOutput \/ RecordLayerEnds
    BY <1>o, <2>1, StreamStutters
    DEF StateWrite, ReceiveStreamOutput, ReadinessOutput, RecordLayerEnds
  <2>2. CASE StateClosed
    BY <2>2, StreamEnds DEF StateClosed
  <2>3. CASE KernelFails
    BY <1>t, <2>3, FinishWithin, StreamStutters DEF KernelFails, Finish
  <2> QED  BY <1>2, <2>1, <2>2, <2>3 DEF Network
<1>3. CASE RunHandler
  <2>1. CASE SubmitBatch
    BY <2>1, StreamSubmits
  <2>2. CASE RefuseBatch \/ EndUpdateSendFails \/ DrainRefused
    BY <2>2, StreamEnds DEF RefuseBatch, EndUpdateSendFails, DrainRefused
  <2>3. CASE EndUpdateSend
    BY <2>3, StreamUpdateEnds
  <2>4. CASE DrainSocketOutput
    BY <2>4, StreamDrains
  <2>5. CASE SubmitPart \/ DrainPart
    BY <2>5, StreamPart
  <2> QED  BY <1>3, <2>1, <2>2, <2>3, <2>4, <2>5 DEF RunHandler
<1>4. CASE HandleCompletion
  <2>1. CASE SendCompleted
    BY <2>1, StreamSettles
  <2>2. CASE SendContinued
    BY <2>2, NoContinuation
  <2>3. CASE SendFailed
    <3>1. OpsWithin(flight', nOnWire)
      BY <1>t, <2>3, TailWithin DEF SendFailed, TakeCompletion
    <3> QED  BY <2>3, <3>1, StreamFatal DEF SendFailed
  <2>4. CASE SendCompletedWithoutSocket
    <3>1. OpsWithin(flight', nOnWire)
      BY <1>t, <2>4, TailWithin DEF SendCompletedWithoutSocket, TakeCompletion
    <3>2. /\ socket' = FALSE
          /\ UNCHANGED <<state, bShutdownCalled, nSentBytes, outgoingDataPromises,
                         nAccepted, nOnWire>>
      BY <1>t, <2>4 DEF SendCompletedWithoutSocket, StreamTyped
    <3> QED  BY <3>1, <3>2, StreamLost DEF StreamInv
  <2>5. CASE SendCompletedDestroyed
    <3>1. OpsWithin(flight', nOnWire)
      BY <1>t, <2>5, TailWithin DEF SendCompletedDestroyed, TakeCompletion
    <3> QED  BY <2>5, <3>1, StreamStutters DEF SendCompletedDestroyed
  <2> QED  BY <1>4, <2>1, <2>2, <2>3, <2>4, <2>5, NoContinuation DEF HandleCompletion
<1>5. CASE HandleRelease
  BY <1>o, <1>5, StreamStutters DEF HandleRelease, SendBufferReleased
<1>6. CASE KernelEnds
  <2>1. CASE KernelCompletes
    BY <2>1, StreamTransmits
  <2>2. CASE KernelCancels
    BY <1>t, <2>2, FinishWithin, StreamStutters DEF KernelCancels, Finish
  <2> QED  BY <1>6, <2>1, <2>2 DEF KernelEnds
<1>7. CASE DestroyDone
  <2>1. /\ socket' = FALSE /\ outgoingDataPromises' = <<>>
        /\ UNCHANGED <<state, bShutdownCalled, nSentBytes, nAccepted, nOnWire, flight>>
    BY <1>t, <1>7 DEF DestroyDone, IndInv, Lifecycle, StreamTyped
  <2> QED  BY <1>o, <2>1, StreamLost DEF StreamInv
<1>8. CASE Terminated \/ UNCHANGED vars
  BY <1>o, <1>8, StreamStutters DEF Terminated, vars
<1> QED
  BY <1>1, <1>2, <1>3, <1>4, <1>5, <1>6, <1>7, <1>8 DEF Next

LEMMA StreamStarts == Init => StreamInv /\ Stream!Init
<1> SUFFICES ASSUME Init PROVE StreamInv /\ Stream!Init
  OBVIOUS
<1>1. StreamInv
  BY DEF Init, StreamInv, OpsWithin, PromisesPlaced
<1>2. Stream!Init
  BY DEF Init, Stream!Init, Phase
<1> QED  BY <1>1, <1>2

-----------------------------------------------------------------------------
(* Sums.                                                                   *)

\* A set of naturals that holds 0 and each successor holds every natural.
LEMMA Induct ==
  ASSUME NEW S \in SUBSET Nat, 0 \in S, \A n \in S : n + 1 \in S
  PROVE  S = Nat
<1> SUFFICES ASSUME Nat \ S # {} PROVE FALSE
  OBVIOUS
<1> DEFINE T == Nat \ S
<1>1. IsWellFoundedOn(OpToRel(<, Nat), Nat)
  BY NatLessThanWellFounded
<1>2. PICK x \in T : \A y \in T : ~(<<y, x>> \in OpToRel(<, Nat))
  <2> HIDE DEF OpToRel
  <2> QED  BY <1>1, WFMin
<1>3. x # 0 /\ x - 1 \in Nat /\ x - 1 < x
  OBVIOUS
<1>4. x - 1 \in S
  BY <1>2, <1>3 DEF OpToRel
<1> QED  BY <1>4

\* t lists the sums of the first 0, 1, ..., n numbers of w.
IsTotal(w, n, t) ==
  /\ t \in [0 .. n -> Nat]
  /\ t[0] = 0
  /\ \A i \in 1 .. n : t[i] = t[i - 1] + w[i]

LEMMA TotalExists ==
  ASSUME NEW w, NEW n \in Nat, \A i \in 1 .. n : w[i] \in Nat
  PROVE  \E t : IsTotal(w, n, t)
<1> DEFINE S == {m \in Nat : m <= n => \E t : IsTotal(w, m, t)}
<1>1. 0 \in S
  <2>1. IsTotal(w, 0, [i \in 0 .. 0 |-> 0])
    BY DEF IsTotal
  <2> QED  BY <2>1
<1>2. ASSUME NEW m \in S PROVE m + 1 \in S
  <2> SUFFICES ASSUME m + 1 <= n PROVE \E t : IsTotal(w, m + 1, t)
    OBVIOUS
  <2>1. PICK t : IsTotal(w, m, t)
    BY <1>2
  <2>2. w[m + 1] \in Nat
    OBVIOUS
  <2> DEFINE u == [i \in 0 .. m + 1 |-> IF i <= m THEN t[i] ELSE t[m] + w[m + 1]]
  <2>3. t[m] \in Nat /\ \A i \in 0 .. m : t[i] \in Nat
    BY <2>1 DEF IsTotal
  <2>4. u \in [0 .. m + 1 -> Nat]
    BY <2>2, <2>3
  <2>5. u[0] = 0
    BY <2>1 DEF IsTotal
  <2>6. ASSUME NEW i \in 1 .. m + 1 PROVE u[i] = u[i - 1] + w[i]
    <3>1. CASE i = m + 1
      BY <3>1
    <3>2. CASE i \in 1 .. m
      BY <2>1, <3>2 DEF IsTotal
    <3> QED  BY <3>1, <3>2
  <2> HIDE DEF u
  <2>7. IsTotal(w, m + 1, u)
    BY <2>4, <2>5, <2>6 DEF IsTotal
  <2> QED  BY <2>7
<1> HIDE DEF S
<1>3. S = Nat
  BY <1>1, <1>2, Induct DEF S
<1> QED  BY <1>3 DEF S

\* Its last entry is the sum.
LEMMA TotalIsSum ==
  ASSUME NEW w, NEW n \in Nat, NEW t, IsTotal(w, n, t)
  PROVE  SumTo(w, n) = t[n]
<1> DEFINE F(s) == [i \in 0 .. n |-> IF i = 0 THEN 0 ELSE s[i - 1] + w[i]]
           u    == CHOOSE s : s = F(s)
<1>1. t = F(t)
  <2>1. t \in [0 .. n -> Nat] /\ DOMAIN t = 0 .. n
    BY DEF IsTotal
  <2>2. \A i \in 0 .. n : t[i] = IF i = 0 THEN 0 ELSE t[i - 1] + w[i]
    BY DEF IsTotal
  <2> QED  BY <2>1, <2>2
<1>2. u = F(u)
  <2> HIDE DEF F
  <2> QED  BY <1>1
<1>3. SumTo(w, n) = u[n]
  BY DEF SumTo
<1> HIDE DEF u
<1> DEFINE S == {m \in Nat : m <= n => u[m] = t[m]}
<1>4. 0 \in S
  BY <1>2 DEF IsTotal
<1>5. ASSUME NEW m \in S PROVE m + 1 \in S
  <2> SUFFICES ASSUME m + 1 <= n PROVE u[m + 1] = t[m + 1]
    OBVIOUS
  <2>1. m + 1 \in 0 .. n /\ m + 1 # 0 /\ m + 1 - 1 = m /\ m + 1 \in 1 .. n
    OBVIOUS
  <2>2. u[m + 1] = u[m] + w[m + 1]
    BY <1>2, <2>1
  <2>3. t[m + 1] = t[m] + w[m + 1]
    BY <2>1 DEF IsTotal
  <2> QED  BY <1>5, <2>2, <2>3
<1> HIDE DEF S
<1>6. S = Nat
  BY <1>4, <1>5, Induct DEF S
<1> QED  BY <1>3, <1>6 DEF S

\* The sum of numbers is a number, and one more number is added to it.
LEMMA SumType ==
  ASSUME NEW w, NEW n \in Nat, \A i \in 1 .. n : w[i] \in Nat
  PROVE  SumTo(w, n) \in Nat
<1>1. PICK t : IsTotal(w, n, t)
  BY TotalExists
<1>2. SumTo(w, n) = t[n]
  BY <1>1, TotalIsSum
<1> QED  BY <1>1, <1>2 DEF IsTotal

LEMMA SumZero ==
  ASSUME NEW w
  PROVE  SumTo(w, 0) = 0
<1>1. IsTotal(w, 0, [i \in 0 .. 0 |-> 0])
  BY DEF IsTotal
<1> QED  BY <1>1, TotalIsSum

LEMMA SumAppend ==
  ASSUME NEW w, NEW v, NEW n \in Nat, \A i \in 1 .. n + 1 : v[i] \in Nat,
         \A i \in 1 .. n : w[i] = v[i]
  PROVE  SumTo(v, n + 1) = SumTo(w, n) + v[n + 1]
<1>1. PICK t : IsTotal(v, n + 1, t)
  BY TotalExists
<1> DEFINE u == [i \in 0 .. n |-> t[i]]
<1>2. IsTotal(w, n, u)
  <2>1. u \in [0 .. n -> Nat] /\ u[0] = 0
    BY <1>1 DEF IsTotal
  <2>2. ASSUME NEW i \in 1 .. n PROVE u[i] = u[i - 1] + w[i]
    BY <1>1 DEF IsTotal
  <2> HIDE DEF u
  <2> QED  BY <2>1, <2>2 DEF IsTotal
<1>3. SumTo(w, n) = t[n]
  <2>1. u[n] = t[n]
    OBVIOUS
  <2> HIDE DEF u
  <2> QED  BY <1>2, <2>1, TotalIsSum
<1>4. SumTo(v, n + 1) = t[n + 1]
  BY <1>1, TotalIsSum
<1>5. t[n + 1] = t[n + 1 - 1] + v[n + 1]
  BY <1>1 DEF IsTotal
<1> QED  BY <1>3, <1>4, <1>5

\* The first number is taken off.
LEMMA SumTail ==
  ASSUME NEW w, NEW v, NEW n \in Nat, \A i \in 1 .. n + 1 : w[i] \in Nat,
         \A i \in 1 .. n : v[i] = w[i + 1]
  PROVE  SumTo(w, n + 1) = w[1] + SumTo(v, n)
<1>1. PICK t : IsTotal(v, n, t)
  BY TotalExists
<1> DEFINE u == [i \in 0 .. n + 1 |-> IF i = 0 THEN 0 ELSE w[1] + t[i - 1]]
<1>2. IsTotal(w, n + 1, u)
  <2>1. \A i \in 0 .. n : t[i] \in Nat
    BY <1>1 DEF IsTotal
  <2>2. w[1] \in Nat
    OBVIOUS
  <2>3. u \in [0 .. n + 1 -> Nat] /\ u[0] = 0
    BY <2>1, <2>2
  <2>4. ASSUME NEW i \in 1 .. n + 1 PROVE u[i] = u[i - 1] + w[i]
    <3>1. CASE i = 1
      BY <1>1, <2>2, <3>1 DEF IsTotal
    <3>2. CASE i \in 2 .. n + 1
      <4>1. i - 1 \in 1 .. n /\ i - 1 + 1 = i /\ i - 1 - 1 \in 0 .. n
        BY <3>2
      <4>2. t[i - 1] = t[i - 1 - 1] + v[i - 1] /\ v[i - 1] = w[i]
        BY <1>1, <4>1 DEF IsTotal
      <4> QED  BY <2>1, <2>2, <3>2, <4>1, <4>2
    <3> QED  BY <3>1, <3>2
  <2> HIDE DEF u
  <2> QED  BY <2>3, <2>4 DEF IsTotal
<1>3. u[n + 1] = w[1] + t[n]
  OBVIOUS
<1> HIDE DEF u
<1>4. SumTo(w, n + 1) = u[n + 1]
  BY <1>2, TotalIsSum
<1>5. SumTo(v, n) = t[n]
  BY <1>1, TotalIsSum
<1> QED  BY <1>3, <1>4, <1>5

\* One number grows by d.
LEMMA SumBump ==
  ASSUME NEW w, NEW v, NEW n \in Nat, NEW j \in 1 .. n, NEW d \in Nat,
         \A i \in 1 .. n : w[i] \in Nat,
         v[j] = w[j] + d, \A i \in 1 .. n : i # j => v[i] = w[i]
  PROVE  SumTo(v, n) = SumTo(w, n) + d
<1>1. PICK t : IsTotal(w, n, t)
  BY TotalExists
<1> DEFINE u == [i \in 0 .. n |-> IF i < j THEN t[i] ELSE t[i] + d]
<1>2. IsTotal(v, n, u)
  <2>1. \A i \in 0 .. n : t[i] \in Nat
    BY <1>1 DEF IsTotal
  <2>2. u \in [0 .. n -> Nat] /\ u[0] = 0
    BY <1>1, <2>1 DEF IsTotal
  <2>3. ASSUME NEW i \in 1 .. n PROVE u[i] = u[i - 1] + v[i]
    <3>1. t[i] = t[i - 1] + w[i] /\ w[i] \in Nat /\ t[i] \in Nat /\ t[i - 1] \in Nat
      BY <1>1, <2>1 DEF IsTotal
    <3>2. u[i] = (IF i < j THEN t[i] ELSE t[i] + d)
      OBVIOUS
    <3>3. u[i - 1] = (IF i - 1 < j THEN t[i - 1] ELSE t[i - 1] + d)
      OBVIOUS
    <3>4. v[i] = IF i = j THEN w[i] + d ELSE w[i]
      OBVIOUS
    <3> HIDE DEF u
    <3> QED  BY <3>1, <3>2, <3>3, <3>4
  <2> HIDE DEF u
  <2> QED  BY <2>2, <2>3 DEF IsTotal
<1>3. u[n] = t[n] + d
  OBVIOUS
<1> HIDE DEF u
<1> QED  BY <1>1, <1>2, <1>3, TotalIsSum

LEMMA SumSame ==
  ASSUME NEW w, NEW v, NEW n \in Nat, \A i \in 1 .. n : w[i] \in Nat,
         \A i \in 1 .. n : v[i] = w[i]
  PROVE  SumTo(v, n) = SumTo(w, n)
<1>1. PICK t : IsTotal(w, n, t)
  BY TotalExists
<1>2. IsTotal(v, n, t)
  BY <1>1 DEF IsTotal
<1> QED  BY <1>1, <1>2, TotalIsSum

-----------------------------------------------------------------------------
(* The byte window and the pinned generations.                             *)

WindowInv ==
  socket =>
    /\ nSendBytesUnreleased = Gathered(flight) + BytesOwed(unreleased)
    /\ nPinned = Len(flight) + OpsOwed(unreleased)

\* A gather that is appended, taken or left alone.
LEMMA GatheredType ==
  ASSUME NEW ops \in Seq(Operation)
  PROVE  /\ \A i \in 1 .. Len(ops) : ops[i].gathered \in Nat
         /\ Gathered(ops) \in Nat
<1>1. \A i \in 1 .. Len(ops) : ops[i] \in Operation
  OBVIOUS
<1>2. \A i \in 1 .. Len(ops) : ops[i].gathered \in Nat
  BY <1>1, SendAssumption DEF Operation
<1> DEFINE w == [i \in 1 .. Len(ops) |-> ops[i].gathered]
<1>3. Len(ops) \in Nat /\ \A i \in 1 .. Len(ops) : w[i] \in Nat
  BY <1>2
<1> HIDE DEF w
<1>4. SumTo(w, Len(ops)) \in Nat
  BY <1>3, SumType
<1> QED  BY <1>2, <1>4 DEF w, Gathered

LEMMA FlightAppended ==
  ASSUME flight \in Seq(Operation), NEW op \in Operation, flight' = Append(flight, op)
  PROVE  Gathered(flight') = Gathered(flight) + op.gathered /\ Len(flight') = Len(flight) + 1
<1> DEFINE n == Len(flight)
           w == [i \in 1 .. n |-> flight[i].gathered]
           v == [i \in 1 .. Len(flight') |-> flight'[i].gathered]
<1>1. /\ n \in Nat /\ Len(flight') = n + 1 /\ flight'[n + 1] = op
      /\ \A i \in 1 .. n : flight'[i] = flight[i]
      /\ \A i \in 1 .. n + 1 : flight'[i] \in Operation
  OBVIOUS
<1>2. \A i \in 1 .. n + 1 : flight'[i].gathered \in Nat
  <2>1. flight' \in Seq(Operation)
    OBVIOUS
  <2> QED  BY <1>1, <2>1, GatheredType
<1>3. /\ \A i \in 1 .. n + 1 : v[i] \in Nat
      /\ \A i \in 1 .. n : w[i] = v[i]
      /\ v[n + 1] = op.gathered
  BY <1>1, <1>2
<1>4. Gathered(flight) = SumTo(w, n) /\ Gathered(flight') = SumTo(v, n + 1)
  BY <1>1 DEF Gathered
<1> HIDE DEF w, v, n
<1>5. SumTo(v, n + 1) = SumTo(w, n) + v[n + 1]
  BY <1>1, <1>3, SumAppend
<1> QED  BY <1>1, <1>3, <1>4, <1>5 DEF n

LEMMA FlightTaken ==
  ASSUME flight \in Seq(Operation), flight # <<>>, flight' = Tail(flight)
  PROVE  Gathered(flight) = Completed.gathered + Gathered(flight') /\ Len(flight) = Len(flight') + 1
<1> DEFINE n == Len(flight')
           w == [i \in 1 .. Len(flight) |-> flight[i].gathered]
           v == [i \in 1 .. n |-> flight'[i].gathered]
<1>1. /\ n \in Nat /\ Len(flight) = n + 1 /\ Completed = flight[1]
      /\ \A i \in 1 .. n : flight'[i] = flight[i + 1]
      /\ \A i \in 1 .. n + 1 : flight[i] \in Operation
  BY DEF Completed
<1>2. \A i \in 1 .. n + 1 : flight[i].gathered \in Nat
  BY <1>1, SendAssumption DEF Operation
<1>3. /\ \A i \in 1 .. n + 1 : w[i] \in Nat
      /\ \A i \in 1 .. n : v[i] = w[i + 1]
      /\ w[1] = Completed.gathered
  BY <1>1, <1>2
<1>4. Gathered(flight) = SumTo(w, n + 1) /\ Gathered(flight') = SumTo(v, n)
  BY <1>1 DEF Gathered
<1> HIDE DEF w, v, n
<1>5. SumTo(w, n + 1) = w[1] + SumTo(v, n)
  BY <1>1, <1>3, SumTail
<1> QED  BY <1>1, <1>3, <1>4, <1>5 DEF n

LEMMA FlightKept ==
  ASSUME flight \in Seq(Operation), Len(flight') = Len(flight),
         \A i \in 1 .. Len(flight) : flight'[i].gathered = flight[i].gathered
  PROVE  Gathered(flight') = Gathered(flight)
<1> DEFINE n == Len(flight)
           w == [i \in 1 .. n |-> flight[i].gathered]
           v == [i \in 1 .. Len(flight') |-> flight'[i].gathered]
<1>1. n \in Nat /\ \A i \in 1 .. n : flight[i] \in Operation
  OBVIOUS
<1>2. \A i \in 1 .. n : flight[i].gathered \in Nat
  BY <1>1, SendAssumption DEF Operation
<1>3. \A i \in 1 .. n : w[i] \in Nat /\ v[i] = w[i]
  BY <1>1, <1>2
<1>4. Gathered(flight) = SumTo(w, n) /\ Gathered(flight') = SumTo(v, n)
  BY DEF Gathered
<1> HIDE DEF w, v, n
<1>5. SumTo(v, n) = SumTo(w, n)
  BY <1>1, <1>3, SumSame
<1> QED  BY <1>4, <1>5

\* One more release of size n is owed.
LEMMA ReleaseOwed ==
  ASSUME NEW u \in [0 .. MaxGather -> Nat], NEW v \in [0 .. MaxGather -> Nat],
         NEW n \in 0 .. MaxGather,
         v[n] = u[n] + 1, \A i \in 0 .. MaxGather : i # n => v[i] = u[i]
  PROVE  /\ OpsOwed(v) = OpsOwed(u) + 1 /\ BytesOwed(v) = BytesOwed(u) + n
         /\ OpsOwed(u) \in Nat /\ BytesOwed(u) \in Nat
<1> DEFINE x == [i \in 1 .. MaxGather |-> i * u[i]]
           y == [i \in 1 .. MaxGather |-> i * v[i]]
<1>m. MaxGather \in Nat
  BY SendAssumption
<1>1. \A i \in 1 .. MaxGather : u[i] \in Nat /\ x[i] \in Nat /\ x[i] = i * u[i]
  BY <1>m
<1>2. \A i \in 1 .. MaxGather : y[i] = IF i = n THEN x[i] + n ELSE x[i]
  <2> SUFFICES ASSUME NEW i \in 1 .. MaxGather
               PROVE  y[i] = IF i = n THEN x[i] + n ELSE x[i]
    OBVIOUS
  <2>1. y[i] = i * v[i] /\ x[i] = i * u[i] /\ u[i] \in Nat /\ i \in Nat
    BY <1>m
  <2>2. i = n => i * (u[i] + 1) = i * u[i] + i
    BY <2>1
  <2>3. v[i] = IF i = n THEN u[i] + 1 ELSE u[i]
    BY <1>m
  <2> HIDE DEF x, y
  <2> QED  BY <2>1, <2>2, <2>3
<1>o. /\ OpsOwed(u) = u[0] + SumTo(u, MaxGather) /\ OpsOwed(v) = v[0] + SumTo(v, MaxGather)
      /\ BytesOwed(u) = SumTo(x, MaxGather) /\ BytesOwed(v) = SumTo(y, MaxGather)
  BY DEF OpsOwed, BytesOwed
<1> HIDE DEF x, y
<1>3. SumTo(u, MaxGather) \in Nat /\ SumTo(x, MaxGather) \in Nat /\ u[0] \in Nat
  BY <1>m, <1>1, SumType
<1>4. CASE n = 0
  <2>1. SumTo(v, MaxGather) = SumTo(u, MaxGather)
    <3>1. \A i \in 1 .. MaxGather : v[i] = u[i]
      BY <1>m, <1>4
    <3> QED  BY <1>m, <1>1, <3>1, SumSame
  <2>2. SumTo(y, MaxGather) = SumTo(x, MaxGather)
    <3>1. \A i \in 1 .. MaxGather : y[i] = x[i]
      BY <1>m, <1>2, <1>4
    <3> QED  BY <1>m, <1>1, <3>1, SumSame
  <2>3. v[0] = u[0] + 1
    BY <1>m, <1>4
  <2> QED  BY <1>o, <1>3, <1>4, <2>1, <2>2, <2>3
<1>5. CASE n \in 1 .. MaxGather
  <2>1. SumTo(v, MaxGather) = SumTo(u, MaxGather) + 1
    <3>1. v[n] = u[n] + 1 /\ \A i \in 1 .. MaxGather : i # n => v[i] = u[i]
      BY <1>m, <1>5
    <3>2. 1 \in Nat /\ \A i \in 1 .. MaxGather : u[i] \in Nat
      BY <1>1
    <3> QED  BY <1>m, <1>5, <3>1, <3>2, SumBump
  <2>2. SumTo(y, MaxGather) = SumTo(x, MaxGather) + n
    <3>1. n \in Nat /\ \A i \in 1 .. MaxGather : x[i] \in Nat
      BY <1>m, <1>1
    <3>2. y[n] = x[n] + n /\ \A i \in 1 .. MaxGather : i # n => y[i] = x[i]
      BY <1>2, <1>5
    <3> QED  BY <1>m, <1>5, <3>1, <3>2, SumBump
  <2>3. v[0] = u[0]
    BY <1>m, <1>5
  <2> QED  BY <1>o, <1>3, <2>1, <2>2, <2>3
<1> QED  BY <1>m, <1>4, <1>5

LEMMA OwedType ==
  ASSUME NEW u \in [0 .. MaxGather -> Nat]
  PROVE  OpsOwed(u) \in Nat /\ BytesOwed(u) \in Nat
<1> DEFINE v == [u EXCEPT ![0] = @ + 1]
<1>1. /\ v \in [0 .. MaxGather -> Nat] /\ 0 \in 0 .. MaxGather
      /\ v[0] = u[0] + 1 /\ \A i \in 0 .. MaxGather : i # 0 => v[i] = u[i]
  BY SendAssumption
<1> HIDE DEF v
<1> QED  BY <1>1, ReleaseOwed

LEMMA OneMoreOwed ==
  ASSUME unreleased \in [0 .. MaxGather -> Nat], NEW n \in 0 .. MaxGather,
         unreleased' = [unreleased EXCEPT ![n] = @ + 1]
  PROVE  /\ OpsOwed(unreleased') = OpsOwed(unreleased) + 1
         /\ BytesOwed(unreleased') = BytesOwed(unreleased) + n
<1>1. /\ unreleased' \in [0 .. MaxGather -> Nat]
      /\ unreleased'[n] = unreleased[n] + 1
      /\ \A i \in 0 .. MaxGather : i # n => unreleased'[i] = unreleased[i]
  OBVIOUS
<1> QED  BY <1>1, ReleaseOwed

LEMMA OneLessOwed ==
  ASSUME unreleased \in [0 .. MaxGather -> Nat], NEW n \in 0 .. MaxGather,
         unreleased[n] > 0, unreleased' = [unreleased EXCEPT ![n] = @ - 1]
  PROVE  /\ OpsOwed(unreleased) = OpsOwed(unreleased') + 1
         /\ BytesOwed(unreleased) = BytesOwed(unreleased') + n
         /\ OpsOwed(unreleased') \in Nat /\ BytesOwed(unreleased') \in Nat
<1>1. /\ unreleased' \in [0 .. MaxGather -> Nat]
      /\ unreleased[n] = unreleased'[n] + 1
      /\ \A i \in 0 .. MaxGather : i # n => unreleased[i] = unreleased'[i]
  OBVIOUS
<1> QED  BY <1>1, ReleaseOwed

\* Nothing the window measures changes.
LEMMA WindowSame ==
  ASSUME WindowInv, UNCHANGED <<socket, nSendBytesUnreleased, nPinned, flight, unreleased>>
  PROVE  WindowInv'
BY DEF WindowInv

LEMMA WindowStatus ==
  ASSUME WindowInv, flight \in Seq(Operation), Len(flight') = Len(flight),
         \A i \in 1 .. Len(flight) : flight'[i].gathered = flight[i].gathered,
         UNCHANGED <<socket, nSendBytesUnreleased, nPinned, unreleased>>
  PROVE  WindowInv'
BY FlightKept DEF WindowInv

LEMMA WindowFinish ==
  ASSUME TypeOK, WindowInv, NEW s, Finish(s)
  PROVE  WindowInv'
<1>1. flight \in Seq(Operation) /\ DOMAIN flight = 1 .. Len(flight) /\ Len(flight) \in Nat
  BY DEF TypeOK
<1>2. flight' = [i \in 1 .. Len(flight) |->
                   IF InKernel(i) THEN [flight[i] EXCEPT !.status = s] ELSE flight[i]]
  BY <1>1 DEF Finish
<1>3. ASSUME NEW i \in 1 .. Len(flight) PROVE flight'[i].gathered = flight[i].gathered
  <2>1. flight[i] \in Operation
    BY <1>1
  <2> QED  BY <1>2, <2>1 DEF Operation
<1>4. Len(flight') = Len(flight)
  BY <1>1, <1>2
<1> QED
  BY <1>1, <1>3, <1>4, WindowStatus DEF Finish, lifeVars, transportVars

LEMMA WindowKernel ==
  ASSUME TypeOK, WindowInv, KernelCompletes
  PROVE  WindowInv'
<1>1. flight \in Seq(Operation)
  BY DEF TypeOK
<1>2. PICK k \in DOMAIN flight : flight' = [flight EXCEPT ![k].status = "Done"]
  BY DEF KernelCompletes
<1>3. Len(flight') = Len(flight)
  BY <1>1, <1>2
<1>4. ASSUME NEW i \in 1 .. Len(flight) PROVE flight'[i].gathered = flight[i].gathered
  <2>1. flight[i] \in Operation
    BY <1>1
  <2> QED  BY <1>1, <1>2, <2>1 DEF Operation
<1> QED
  BY <1>1, <1>3, <1>4, WindowStatus DEF KernelCompletes, lifeVars, transportVars

\* A batch and a continuation pin a generation and wait for their release.
LEMMA WindowAppend ==
  ASSUME TypeOK, WindowInv, NEW op \in Operation, flight' = Append(flight, op),
         nSendBytesUnreleased' = nSendBytesUnreleased + op.gathered,
         nPinned' = nPinned + 1, UNCHANGED <<socket, unreleased>>
  PROVE  WindowInv'
<1>1. flight \in Seq(Operation) /\ op.gathered \in Nat
  BY SendAssumption DEF TypeOK, Operation
<1>2. Gathered(flight') = Gathered(flight) + op.gathered /\ Len(flight') = Len(flight) + 1
  BY <1>1, FlightAppended
<1>3. Gathered(flight) \in Nat /\ OpsOwed(unreleased) \in Nat /\ BytesOwed(unreleased) \in Nat /\ Len(flight) \in Nat
  BY <1>1, GatheredType, OwedType DEF TypeOK
<1>4. unreleased' = unreleased
  OBVIOUS
<1> QED  BY <1>1, <1>2, <1>3, <1>4 DEF WindowInv

LEMMA WindowSubmit ==
  ASSUME IndInv, WindowInv, SubmitBatch
  PROVE  WindowInv'
<1>t. TypeOK /\ TypeOK'
  BY SubmitTypes DEF IndInv
<1>1. PICK nScheduled \in 1 .. GatherSendSpans :
        flight' = Append(flight, Batch(Head(freeReservations), nScheduled, GatherSendSpans))
  BY DEF SubmitBatch
<1> DEFINE op == Batch(Head(freeReservations), nScheduled, GatherSendSpans)
<1>2. op \in Operation
  <2>1. flight' \in Seq(Operation) /\ flight \in Seq(Operation)
    BY <1>t DEF TypeOK
  <2>2. flight'[Len(flight) + 1] = op /\ Len(flight) + 1 \in 1 .. Len(flight')
    BY <1>1, <2>1
  <2> QED  BY <2>1, <2>2
<1>3. /\ op.gathered = GatherSendSpans
      /\ nSendBytesUnreleased' = nSendBytesUnreleased + GatherSendSpans
      /\ nPinned' = nPinned + 1 /\ UNCHANGED <<socket, unreleased>>
  BY DEF SubmitBatch, Batch, lifeVars
<1> HIDE DEF op
<1> QED  BY <1>t, <1>1, <1>2, <1>3, WindowAppend DEF op

LEMMA WindowDrain ==
  ASSUME IndInv, WindowInv, DrainSocketOutput
  PROVE  WindowInv'
<1>t. TypeOK
  BY DEF IndInv
<1>1. CASE DrainWanted
  <2> DEFINE op == Continuation(NoReservation)
  <2>1. op \in Operation /\ op.gathered = 0
    BY <1>t, SendAssumption DEF Continuation, Operation, TypeOK
  <2>2. /\ flight' = Append(flight, op) /\ nPinned' = nPinned + 1
        /\ UNCHANGED <<socket, unreleased, nSendBytesUnreleased>>
    BY <1>1 DEF DrainSocketOutput, lifeVars
  <2>3. nSendBytesUnreleased' = nSendBytesUnreleased + op.gathered
    BY <1>t, <2>1, <2>2 DEF TypeOK
  <2> HIDE DEF op
  <2> QED  BY <1>t, <2>1, <2>2, <2>3, WindowAppend
<1>2. CASE ~DrainWanted
  BY <1>2, WindowSame DEF DrainSocketOutput, lifeVars
<1> QED  BY <1>1, <1>2

\* A completion hands its gather over to the releases that are owed.
LEMMA WindowCompleted ==
  ASSUME IndInv, WindowInv, SendCompleted
  PROVE  WindowInv'
<1>t. TypeOK
  BY DEF IndInv
<1> DEFINE g == Completed.gathered
<1>1. /\ flight \in Seq(Operation) /\ flight # <<>> /\ flight' = Tail(flight)
      /\ unreleased \in [0 .. MaxGather -> Nat]
      /\ unreleased' = [unreleased EXCEPT ![g] = @ + 1]
      /\ UNCHANGED <<socket, nSendBytesUnreleased, nPinned>>
  BY <1>t DEF SendCompleted, TakeCompletion, TypeOK, lifeVars
<1>2. g \in 0 .. MaxGather
  <2>1. Completed \in Operation
    BY <1>t, TakeTypes DEF SendCompleted
  <2> QED  BY <2>1 DEF Operation
<1>3. Gathered(flight) = g + Gathered(flight') /\ Len(flight) = Len(flight') + 1
  BY <1>1, FlightTaken
<1> HIDE DEF g
<1>4. OpsOwed(unreleased') = OpsOwed(unreleased) + 1 /\ BytesOwed(unreleased') = BytesOwed(unreleased) + g
  BY <1>1, <1>2, OneMoreOwed
<1>5. /\ Gathered(flight) \in Nat /\ OpsOwed(unreleased) \in Nat /\ BytesOwed(unreleased) \in Nat
      /\ Len(flight') \in Nat
  BY <1>1, GatheredType, OwedType
<1>6. Gathered(flight') \in Nat
  <2>1. flight' \in Seq(Operation)
    BY <1>1
  <2> QED  BY <2>1, GatheredType
<1>7. g \in Nat
  BY <1>2, SendAssumption
<1>8. ASSUME socket
      PROVE  /\ nSendBytesUnreleased = Gathered(flight') + BytesOwed(unreleased')
             /\ nPinned = Len(flight') + OpsOwed(unreleased')
  <2>1. /\ nSendBytesUnreleased = Gathered(flight) + BytesOwed(unreleased)
        /\ nPinned = Len(flight) + OpsOwed(unreleased)
    BY <1>8 DEF WindowInv
  <2>2. Gathered(flight) + BytesOwed(unreleased) = Gathered(flight') + BytesOwed(unreleased')
    BY <1>3, <1>4, <1>5, <1>6, <1>7
  <2>3. Len(flight) + OpsOwed(unreleased) = Len(flight') + OpsOwed(unreleased')
    BY <1>3, <1>4, <1>5
  <2> QED  BY <2>1, <2>2, <2>3
<1> QED  BY <1>1, <1>8 DEF WindowInv

\* A release takes its own bytes off the window and unpins one generation.
LEMMA WindowReleased ==
  ASSUME IndInv, WindowInv, NEW n \in 0 .. MaxGather, SendBufferReleased(n)
  PROVE  WindowInv'
<1>t. TypeOK
  BY DEF IndInv
<1>1. CASE ~socket
  BY <1>1 DEF SendBufferReleased, WindowInv, lifeVars
<1>2. CASE socket
  <2>1. /\ unreleased \in [0 .. MaxGather -> Nat] /\ unreleased[n] > 0
        /\ unreleased' = [unreleased EXCEPT ![n] = @ - 1]
        /\ nSendBytesUnreleased' = nSendBytesUnreleased - Returned(n)
        /\ nPinned' = nPinned - Minimum(1, nPinned)
        /\ UNCHANGED <<socket, flight>>
    BY <1>t, <1>2 DEF SendBufferReleased, Idle, IndInv, Lifecycle, TypeOK, lifeVars
  <2>2. /\ OpsOwed(unreleased) = OpsOwed(unreleased') + 1 /\ BytesOwed(unreleased) = BytesOwed(unreleased') + n
        /\ OpsOwed(unreleased') \in Nat /\ BytesOwed(unreleased') \in Nat
    BY <2>1, OneLessOwed
  <2>3. Gathered(flight) \in Nat /\ Len(flight) \in Nat /\ Gathered(flight') = Gathered(flight)
    BY <1>t, <2>1, GatheredType DEF TypeOK
  <2>4. /\ nSendBytesUnreleased = Gathered(flight) + BytesOwed(unreleased)
        /\ nPinned = Len(flight) + OpsOwed(unreleased)
    BY <1>2 DEF WindowInv
  <2>n. n \in Nat
    BY SendAssumption
  <2>5. Returned(n) = n /\ Minimum(1, nPinned) = 1
    <3>1. n <= nSendBytesUnreleased /\ 1 <= nPinned
      BY <2>n, <2>2, <2>3, <2>4
    <3>2. nSendBytesUnreleased \in Nat /\ nPinned \in Nat
      BY <1>t DEF TypeOK
    <3> QED  BY <2>n, <3>1, <3>2 DEF Returned, Minimum
  <2>6. /\ nSendBytesUnreleased' = Gathered(flight') + BytesOwed(unreleased')
        /\ nPinned' = Len(flight') + OpsOwed(unreleased')
    BY <2>n, <2>1, <2>2, <2>3, <2>4, <2>5
  <2> QED  BY <2>6 DEF WindowInv
<1> QED  BY <1>1, <1>2

LEMMA WindowGone ==
  ASSUME ~socket'
  PROVE  WindowInv'
BY DEF WindowInv

LEMMA WindowKept ==
  ASSUME StreamReceives, IndInv, WindowInv, [Next]_vars
  PROVE  WindowInv'
<1> USE DEF lifeVars, operationVars, transportVars
<1>t. TypeOK
  BY DEF IndInv
<1>1. CASE User
  <2>1. ASSUME NEW n \in MinMessage .. MaxMessage, SendData(n) PROVE WindowInv'
    BY <2>1, WindowSame DEF SendData
  <2>2. CASE GracefulDisconnect
    <3>1. UNCHANGED <<socket, nSendBytesUnreleased, nPinned, flight, unreleased>>
      BY <2>2 DEF GracefulDisconnect, Shutdown
    <3> QED  BY <3>1, WindowSame
  <2>3. CASE GracefulDisconnectFails \/ Destroy
    BY <2>3, WindowGone
    DEF GracefulDisconnectFails, Destroy, FatalDisconnectNow, FatalDisconnect, ClearSocket
  <2> QED  BY <1>1, <2>1, <2>2, <2>3 DEF User
<1>2. CASE Network
  <2>1. CASE StateWrite \/ ReceiveStreamOutput \/ ReadinessOutput \/ RecordLayerEnds
    BY <2>1, WindowSame DEF StateWrite, ReceiveStreamOutput, ReadinessOutput, RecordLayerEnds
  <2>2. CASE StateClosed
    BY <2>2, WindowGone DEF StateClosed, FatalDisconnectNow, FatalDisconnect, ClearSocket
  <2>3. CASE KernelFails
    BY <1>t, <2>3, WindowFinish DEF KernelFails
  <2> QED  BY <1>2, <2>1, <2>2, <2>3 DEF Network
<1>3. CASE RunHandler
  <2>1. CASE SubmitBatch
    BY <2>1, WindowSubmit
  <2>2. CASE RefuseBatch \/ EndUpdateSendFails \/ DrainRefused
    BY <2>2, WindowGone
    DEF RefuseBatch, EndUpdateSendFails, DrainRefused, FatalDisconnectNow, FatalDisconnect,
      ClearSocket
  <2>3. CASE EndUpdateSend
    <3>1. UNCHANGED <<socket, nSendBytesUnreleased, nPinned, flight, unreleased>>
      BY <2>3 DEF EndUpdateSend, Shutdown
    <3> QED  BY <3>1, WindowSame
  <2>4. CASE DrainSocketOutput
    BY <2>4, WindowDrain
  <2>5. CASE SubmitPart \/ DrainPart
    BY <2>5, WindowGone DEF SubmitPart, DrainPart, FatalDisconnect, ClearSocket
  <2> QED  BY <1>3, <2>1, <2>2, <2>3, <2>4, <2>5 DEF RunHandler
<1>4. CASE HandleCompletion
  <2>1. CASE SendCompleted
    BY <2>1, WindowCompleted
  <2>2. CASE SendContinued
    BY <2>2, NoContinuation
  <2>3. CASE SendFailed
    BY <2>3, WindowGone DEF SendFailed, FatalDisconnect, ClearSocket
  <2>4. CASE SendCompletedWithoutSocket
    BY <1>t, <2>4, WindowGone DEF SendCompletedWithoutSocket, TypeOK
  <2>5. CASE SendCompletedDestroyed
    <3>1. ~socket
      BY <2>5 DEF SendCompletedDestroyed, IndInv, Lifecycle
    <3> QED  BY <2>5, <3>1, WindowGone DEF SendCompletedDestroyed
  <2> QED  BY <1>4, <2>1, <2>2, <2>3, <2>4, <2>5, NoContinuation DEF HandleCompletion
<1>5. CASE HandleRelease
  BY <1>5, WindowReleased DEF HandleRelease
<1>6. CASE KernelEnds
  BY <1>t, <1>6, WindowFinish, WindowKernel DEF KernelEnds, KernelCancels
<1>7. CASE DestroyDone
  BY <1>7, WindowSame DEF DestroyDone
<1>8. CASE Terminated \/ UNCHANGED vars
  BY <1>8, WindowSame DEF Terminated, vars
<1> QED
  BY <1>1, <1>2, <1>3, <1>4, <1>5, <1>6, <1>7, <1>8 DEF Next

LEMMA WindowStarts ==
  ASSUME Init
  PROVE  WindowInv
<1>1. /\ flight = <<>> /\ Len(flight) = 0 /\ nSendBytesUnreleased = 0 /\ nPinned = 0
      /\ unreleased = [n \in 0 .. MaxGather |-> 0] /\ MaxGather \in Nat
  BY SendAssumption DEF Init
<1>2. Gathered(flight) = 0
  BY <1>1, SumZero DEF Gathered
<1> DEFINE z == [n \in 1 .. MaxGather |-> n * unreleased[n]]
<1>3. unreleased[0] = 0 /\ \A i \in 1 .. MaxGather : unreleased[i] = 0 /\ z[i] = 0
  BY <1>1
<1> HIDE DEF z
<1>4. ASSUME NEW w, \A i \in 1 .. MaxGather : w[i] = 0
      PROVE  SumTo(w, MaxGather) = 0
  <2>1. IsTotal(w, MaxGather, [i \in 0 .. MaxGather |-> 0])
    BY <1>1, <1>4 DEF IsTotal
  <2> QED  BY <1>1, <2>1, TotalIsSum
<1>5. SumTo(unreleased, MaxGather) = 0 /\ SumTo(z, MaxGather) = 0
  BY <1>3, <1>4
<1> QED  BY <1>1, <1>2, <1>3, <1>5 DEF WindowInv, OpsOwed, BytesOwed, z

-----------------------------------------------------------------------------
(* The theorems.                                                           *)

\* What is reserved, in flight, queued and owed stays of its kind whatever is
\* sent, accepted, completed, released or dropped.
THEOREM TypeCorrect ==
  ASSUME StreamReceives
  PROVE  Spec => []TypeOK
<1>1. IndInv => TypeOK
  BY DEF IndInv
<1> QED BY <1>1, Inductive, PTL

\* Every gather of fp_SubmitSendOp continues where the bytes handed to the
\* transport end.
THEOREM GatherContinuesSafe ==
  ASSUME StreamReceives
  PROVE  Spec => []GatherContinues
<1>1. IndInv => GatherContinues
  BY DEF IndInv, Reserved, GatherContinues
<1> QED BY <1>1, Inductive, PTL

\* Every live reservation is carried by exactly one operation and the free list
\* of f_SizeSendReservations holds each of the others once.
THEOREM ReservationsOwnedSafe ==
  ASSUME StreamReceives
  PROVE  Spec => []ReservationsOwned
<1>1. IndInv => ReservationsOwned
  BY DEF IndInv
<1> QED BY <1>1, Inductive, PTL

\* m_nSendOpsInFlight is the number of completions the actor is still owed, but
\* for the operation of a generation the platform took in part: after that one the
\* count is one short, and the socket is gone.
THEOREM OpsCountedSafe ==
  ASSUME StreamReceives
  PROVE  Spec => []OpsCounted
<1>1. IndInv => OpsCounted
  BY DEF IndInv
<1> QED BY <1>1, Inductive, PTL

\* Between handlers the library's records wait only for a release
\* (fp_DrainSocketOutput).
THEOREM OutputDrainedSafe ==
  ASSUME StreamReceives
  PROVE  Spec => []OutputDrained
<1>1. IndInv => OutputDrained
  BY DEF IndInv
<1> QED BY <1>1, Inductive, PTL

\* A dropped socket leaves no byte, reservation or deferred cleanup behind once
\* the last counted completion is handled, in whichever order the drop and it
\* come, and whether or not an operation escaped the count.
THEOREM TransferStateReleasedSafe ==
  ASSUME StreamReceives
  PROVE  Spec => []TransferStateReleased
<1>1. Init => CleanupOwed
  BY DEF Init, CleanupOwed
<1>2. IndInv /\ CleanupOwed /\ [Next]_vars => CleanupOwed'
  BY CleanupStep
<1>3. CleanupOwed => TransferStateReleased
  BY DEF CleanupOwed, TransferStateReleased
<1> QED BY <1>1, <1>2, <1>3, Inductive, PTL DEF Spec

\* The byte window of fp_SubmitSendOp and the pins of the transport count exactly
\* the operations whose release is owed, for every window, depth and pool.
THEOREM WindowAccountingSafe ==
  ASSUME StreamReceives
  PROVE  Spec => []WindowAccounting
<1>1. Init => WindowInv
  BY WindowStarts
<1>2. IndInv /\ WindowInv /\ [Next]_vars => WindowInv'
  BY WindowKept
<1>3. IndInv /\ WindowInv => WindowAccounting
  BY DEF IndInv, InUseCounted, WindowInv, WindowAccounting
<1> QED  BY <1>1, <1>2, <1>3, Inductive, PTL DEF Spec

\* ImplementsStream, the promise of f_SendData to its callers: for every depth,
\* window, pool and message size the actor resolves its promises in order and
\* only for bytes the kernel took, and shuts down only behind the last byte.
THEOREM StreamImplemented ==
  ASSUME StreamReceives, MessagesHaveBytes
  PROVE  Spec => ImplementsStream
<1>1. Init => IndInv /\ StreamInv /\ Stream!Init
  BY InitInv, StreamStarts
<1>2. IndInv /\ StreamInv /\ [Next]_vars => IndInv' /\ StreamInv'
  BY NextInv, StreamKept
<1>3. IndInv /\ StreamInv /\ [Next]_vars => [Stream!Next]_(Stream!vars)
  BY StreamKept DEF StreamStep
<1> QED  BY <1>1, <1>2, <1>3, PTL DEF Spec, ImplementsStream, Stream!Spec

\* A promise whose bytes are all reported sent is never left open, as long as a
\* message has a byte (f_ConsumeSentBytes; a message without one is resolved by
\* the next bytes behind it, if any follow).
THEOREM PromisesAheadSafe ==
  ASSUME StreamReceives, MessagesHaveBytes
  PROVE  Spec => []PromisesAhead
<1>1. Init => IndInv /\ StreamInv
  BY InitInv, StreamStarts
<1>2. IndInv /\ StreamInv /\ [Next]_vars => IndInv' /\ StreamInv'
  BY NextInv, StreamKept
<1>3. IndInv /\ StreamInv => PromisesAhead
  <2> SUFFICES ASSUME IndInv, StreamInv, socket, NEW i \in DOMAIN outgoingDataPromises
               PROVE  outgoingDataPromises[i] > nSentBytes
    BY DEF PromisesAhead
  <2>1. outgoingDataPromises \in Seq(Nat) /\ nSentBytes \in Nat
    BY DEF IndInv, TypeOK
  <2>2. i \in 1 .. Len(outgoingDataPromises) /\ outgoingDataPromises[i] \in Nat
    BY <2>1
  <2>3. nSentBytes < outgoingDataPromises[i]
    BY <2>2 DEF StreamInv, PromisesPlaced
  <2> QED  BY <2>1, <2>2, <2>3
<1> QED  BY <1>1, <1>2, <1>3, PTL DEF Spec
=============================================================================

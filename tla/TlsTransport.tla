---------------------------- MODULE TlsTransport ----------------------------
(***************************************************************************)
(* CSSLTransport, between the TLS library and the platform socket: the     *)
(* generations of sealed records on their way out (tx), and the queue of   *)
(* ciphertext on its way in with the plaintext held over (rx).             *)
(*                                                                         *)
(* A sealed record is one byte and is known by its number in seal order.   *)
(* What comes in is counted in units of the peer's stream, known by their  *)
(* position in it.  The operators compute what the member functions of     *)
(* the transport leave behind; the calls they make on the platform socket  *)
(* are in what they are given and return.                                  *)
(***************************************************************************)
EXTENDS Naturals, Sequences, FiniteSets

CONSTANTS
  OutboundCap,    \* mp_nOutboundCap, in records
  MaxSendDepth,   \* mc_nMaxSendDepth
  InboundSize,    \* mp_nCipherSize, in units
  QueueCapacity,  \* mc_nCipherQueueCapacity
  HoldSize        \* mc_nPlainHoldSize, in units of plaintext

ASSUME TransportAssumption ==
  /\ OutboundCap \in Nat \ {0}
  /\ MaxSendDepth \in Nat \ {0}
  /\ InboundSize \in Nat \ {0}
  /\ QueueCapacity \in Nat \ {0}
  /\ HoldSize \in Nat \ {0}

Least(a, b) == IF a <= b THEN a ELSE b
Most(a, b) == IF a >= b THEN a ELSE b

First(s, n) == SubSeq(s, 1, n)
From(s, n) == SubSeq(s, n + 1, Len(s))

\* The sequences of a sequence, one after the other.
Concatenated(s) ==
  LET Upto[n \in 0 .. Len(s)] == IF n = 0 THEN <<>> ELSE Upto[n - 1] \o s[n]
  IN  Upto[Len(s)]

\* The elements of a sequence at some of its places, in their order: SelectSeq, by
\* places and not by a test, so that proofs can unfold it.
Selected(s, places) ==
  LET Upto[n \in 0 .. Len(s)] ==
        IF n = 0 THEN <<>> ELSE IF n \in places THEN Append(Upto[n - 1], s[n]) ELSE Upto[n - 1]
  IN  Upto[Len(s)]

-----------------------------------------------------------------------------
(* The send half.                                                          *)

\* COut: the records from m_iSent to m_nFill, and m_nPinnedBytes.
EmptyGeneration == [records |-> <<>>, pinned |-> 0]

NoOutput ==
  [out |-> <<EmptyGeneration>>, fill |-> 1, unsent |-> <<>>, free |-> <<>>,
   nPinned |-> 0, nPinnedBytes |-> 0, pending |-> 0, unpinned |-> 0,
   depth |-> 1, window |-> 0, effective |-> 0, completion |-> FALSE]

IsFull(tx) == tx.pending >= OutboundCap

\* fp_GetEffectiveSendWindow
WindowFloor(tx) == Least(tx.window, OutboundCap)
EffectiveSendWindow(tx) ==
  IF tx.effective = 0 THEN WindowFloor(tx) ELSE Least(Most(tx.effective, WindowFloor(tx)), tx.window)

\* fp_SendWindowFull
SendWindowFull(tx) ==
  IF tx.window = 0 THEN tx.nPinned >= tx.depth ELSE tx.nPinnedBytes >= EffectiveSendWindow(tx)

\* fp_ConsiderSendWindowGrowth: what the delivery rate of the path may make of it.
GrownWindows(tx) ==
  IF tx.window = 0 THEN {tx}
  ELSE {tx} \cup {[tx EXCEPT !.effective = n] : n \in WindowFloor(tx) .. tx.window}

\* f_SetSendWindow of the transport, before anything is pinned
WithWindow(tx, n) == [tx EXCEPT !.window = n]

\* f_SetSendDepth
WithDepth(tx, n) == [tx EXCEPT !.depth = Least(Most(n, 1), MaxSendDepth)]

IsPinned(tx, i) == tx.out[i].pinned # 0

\* fp_Append, and f_BeginSeal with f_CommitSeal: behind what the fill still has to send
AppendToFill(tx, records) == [tx EXCEPT !.out[tx.fill].records = @ \o records]

\* fp_NoteFillGained, for what f_Write or a seal appends to the fill
Gain(tx, records) ==
  LET had == tx.out[tx.fill].records # <<>>
  IN  [AppendToFill(tx, records) EXCEPT
         !.pending = @ + Len(records),
         !.unpinned = @ + Len(records),
         !.unsent = IF ~had /\ records # <<>> THEN Append(@, tx.fill) ELSE @]

\* fp_TakeFreeEntry for a new fill: the newest free generation, or one more.
AdvanceFill(tx) ==
  IF tx.free # <<>>
  THEN [tx EXCEPT !.fill = Head(tx.free), !.free = Tail(@)]
  ELSE [tx EXCEPT !.out = Append(@, EmptyGeneration), !.fill = Len(tx.out) + 1]

\* f_BeginSend: the oldest unsent generation is pinned and the fill moves off it.
Pinned(tx, i, n) ==
  [tx EXCEPT
     !.unsent = Tail(@),
     !.out[i].pinned = n,
     !.nPinned = @ + 1,
     !.nPinnedBytes = @ + n,
     !.unpinned = @ - n]
BeginSend(tx) ==
  LET i == Head(tx.unsent)
      begun == Pinned(tx, i, Len(tx.out[i].records))
  IN  IF i = tx.fill THEN AdvanceFill(begun) ELSE begun

\* f_SendCompleted
SendDrained(tx, i) ==
  [tx EXCEPT !.pending = @ - Len(tx.out[i].records), !.out[i].records = <<>>]

\* fp_ReleasePin: a generation whose send was never accepted goes back to the
\* head, a drained one to the free list.
ReleasePin(tx, i) ==
  LET left == Len(tx.out[i].records)
      unpinned == [tx EXCEPT
                     !.nPinned = @ - 1,
                     !.nPinnedBytes = @ - tx.out[i].pinned,
                     !.out[i].pinned = 0]
  IN  IF ~IsPinned(tx, i) THEN tx
      ELSE IF left > 0
           THEN [unpinned EXCEPT !.unpinned = @ + left, !.unsent = <<i>> \o @]
           ELSE [unpinned EXCEPT !.free = <<i>> \o @]

\* Mutant: records leave around generations the kernel still holds.
AroundPins(tx) == FALSE

\* f_Flush leaves everything while a generation is pinned.
FlushWaits(tx) == tx.nPinned > 0

UnsentRecords(tx) == Concatenated([k \in 1 .. Len(tx.unsent) |-> tx.out[tx.unsent[k]].records])

\* The records one f_Flush gives to a socket that takes room of them.
Flushable(tx, room) ==
  IF FlushWaits(tx) THEN <<>> ELSE First(UnsentRecords(tx), Least(room, Len(UnsentRecords(tx))))

\* f_Flush after n records: drained generations are free again, except the fill.
RecordsBefore(tx, k) == Len(Concatenated([j \in 1 .. k |-> tx.out[tx.unsent[j]].records]))
DrainedBy(tx, n) == Cardinality({k \in 1 .. Len(tx.unsent) : RecordsBefore(tx, k) <= n})
Flushed(tx, n) ==
  LET Freed[k \in 0 .. Len(tx.unsent)] ==
        IF k = 0 THEN tx.free
        ELSE IF tx.unsent[k] = tx.fill THEN Freed[k - 1] ELSE <<tx.unsent[k]>> \o Freed[k - 1]
      Gone(drained) ==
        [tx EXCEPT
           !.out = [i \in DOMAIN tx.out |->
                      IF \E k \in 1 .. drained : i = tx.unsent[k] THEN EmptyGeneration
                      ELSE IF drained < Len(tx.unsent) /\ i = tx.unsent[drained + 1]
                      THEN [tx.out[i] EXCEPT !.records = From(@, n - RecordsBefore(tx, drained))]
                      ELSE tx.out[i]],
           !.unsent = From(@, drained),
           !.free = Freed[drained],
           !.pending = @ - n,
           !.unpinned = @ - n]
  IN  Gone(DrainedBy(tx, n))

\* A flush did all it could: nothing is left, and it answered mc_Data.
FlushDone(tx) == ~FlushWaits(tx) /\ tx.unsent = <<>>

-----------------------------------------------------------------------------
(* The receive half.                                                       *)

\* CCipherSegment: who owns the bytes, and which they are.  "Segment" is a
\* buffer of the receive stream, charged to it while it lives; "Fill" is
\* mp_pCipherFill; "Copy" is any other buffer of the transport.
Piece(owner, data, charge) == [owner |-> owner, data |-> data, charge |-> charge]

NoInput ==
  [queue |-> <<>>, head |-> 0, hasFill |-> FALSE, fillUsed |-> 0, held |-> <<>>,
   afterHeld |-> "Nothing", completion |-> FALSE, endOfStream |-> FALSE]

Live(rx) == From(rx.queue, rx.head)
CipherPending(rx) == Concatenated([k \in 1 .. Len(Live(rx)) |-> Live(rx)[k].data])

\* What the queue keeps charged to the receive stream.
Charged(rx) ==
  LET Upto[n \in 0 .. Len(rx.queue)] == IF n = 0 THEN 0 ELSE Upto[n - 1] + rx.queue[n].charge
  IN  Upto[Len(rx.queue)]

ClearCipherQueue(rx) == [rx EXCEPT !.queue = <<>>, !.head = 0, !.fillUsed = 0]

\* fp_ReclaimCipherConsumed
ReclaimConsumed(rx) == [rx EXCEPT !.queue = Live(rx), !.head = 0]

\* fp_CompactCipher: one buffer of its own for all that is queued
CompactCipher(rx) ==
  LET Whole(data) == IF data = <<>> THEN <<>> ELSE <<Piece("Copy", data, 0)>>
  IN  [ClearCipherQueue(rx) EXCEPT !.queue = Whole(CipherPending(rx)), !.hasFill = FALSE]

\* fp_PushCipherSegment
Push(rx, piece) ==
  LET Onto(ready) ==
        [ready EXCEPT !.queue = Append(@, IF piece.owner = "Fill" /\ ~ready.hasFill
                                          THEN [piece EXCEPT !.owner = "Copy"] ELSE piece)]
  IN  Onto(IF Len(rx.queue) < QueueCapacity THEN rx
           ELSE IF rx.head > 0 THEN ReclaimConsumed(rx) ELSE CompactCipher(rx))

\* f_AppendCipherSegment
AppendSegment(rx, data) == Push(rx, Piece("Segment", data, Len(data)))

\* Where f_FillCipher puts what it reads: nothing may point into a fill that is
\* used again, and a fill that is used up stays with the pieces in it.
ReadyFill(rx) ==
  IF Live(rx) = <<>>
  THEN [ClearCipherQueue(rx) EXCEPT !.hasFill = TRUE]
  ELSE IF ~rx.hasFill \/ rx.fillUsed >= InboundSize
       THEN [rx EXCEPT
               !.queue = [k \in DOMAIN @ |->
                            IF @[k].owner = "Fill" THEN [@[k] EXCEPT !.owner = "Copy"] ELSE @[k]],
               !.hasFill = TRUE,
               !.fillUsed = 0]
       ELSE rx
FillRoom(rx) == InboundSize - ReadyFill(rx).fillUsed

\* fp_AppendOwnedCipher
FillCipher(rx, data) ==
  LET Into(ready, last) ==
        IF Live(ready) # <<>> /\ ready.queue[last].owner = "Fill"
        THEN [ready EXCEPT !.queue[last].data = @ \o data]
        ELSE Push(ready, Piece("Fill", data, 0))
      Filled(ready) == Into(ready, Len(ready.queue))
  IN  Filled([ReadyFill(rx) EXCEPT !.fillUsed = @ + Len(data)])

\* f_ConsumeCipher: a piece that is used up lets go of its buffer.
UnitsBefore(rx, k) == Len(Concatenated([j \in 1 .. k |-> rx.queue[j].data]))
UsedBy(rx, n) == Cardinality({k \in rx.head + 1 .. Len(rx.queue) : UnitsBefore(rx, k) <= n})
ConsumedUpto(rx, n, head) ==
  [rx EXCEPT
     !.head = head,
     !.queue = [k \in DOMAIN rx.queue |->
                  IF k \in rx.head + 1 .. head THEN Piece("Copy", <<>>, 0)
                  ELSE IF k = head + 1
                  THEN [rx.queue[k] EXCEPT !.data = From(@, n - UnitsBefore(rx, head))]
                  ELSE rx.queue[k]]]
Tidied(rx) ==
  CASE Live(rx) = <<>> -> ClearCipherQueue(rx)
    [] Live(rx) # <<>> /\ rx.head >= Len(Live(rx)) -> ReclaimConsumed(rx)
    [] OTHER -> rx
ConsumeCipher(rx, n) ==
  IF n = 0 THEN rx ELSE Tidied(ConsumedUpto(rx, n, rx.head + UsedBy(rx, n)))

\* f_BeginHold and f_CommitHold: the plaintext of one record, when nothing is held.
HoldPlain(rx, plain) == [rx EXCEPT !.held = plain]

\* f_TakeHeld
HeldFor(rx, room) == First(rx.held, Least(room, Len(rx.held)))
HeldTaken(rx, room) == [rx EXCEPT !.held = From(@, Len(HeldFor(rx, room)))]

\* Mutant: a record that has stalled stays in the buffers of the stream.
LeaveStalled(rx) == rx

\* f_CompactCipherIfStalled
CompactIfStalled(rx) ==
  IF \E k \in DOMAIN Live(rx) : Live(rx)[k].owner = "Segment" THEN CompactCipher(rx) ELSE rx
=============================================================================

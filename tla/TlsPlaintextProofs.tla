------------------------- MODULE TlsPlaintextProofs -------------------------
(***************************************************************************)
(* The plaintext of the peer is given once, whole and in order.  First     *)
(* what the queue of the transport does to the stream, then what the       *)
(* library opens of it, then each operation of the socket and each handler *)
(* of its owner: they keep the socket in step with the units that are on   *)
(* their way to it in segments.                                            *)
(***************************************************************************)
EXTENDS TlsConnectionProofs

-----------------------------------------------------------------------------
(* The queue of ciphertext.                                                *)

Owners == {"Segment", "Fill", "Copy"}
Pieces == [owner : Owners, data : Datas, charge : Nat]

Carried(q) == [k \in 1 .. Len(q) |-> q[k].data]
DataOf(q) == Concatenated(Carried(q))

LEMMA CarriedIs ==
  ASSUME NEW q \in Seq(Pieces)
  PROVE  /\ Carried(q) \in Seq(Datas) /\ Len(Carried(q)) = Len(q)
         /\ \A k \in 1 .. Len(q) : Carried(q)[k] = q[k].data
<1>0. \A k \in 1 .. Len(q) : q[k] \in Pieces
  OBVIOUS
<1>1. \A k \in 1 .. Len(q) : q[k].data \in Datas
  BY <1>0 DEF Pieces
<1> QED  BY <1>1 DEF Carried

LEMMA DataOfType ==
  ASSUME NEW q \in Seq(Pieces)
  PROVE  DataOf(q) \in Datas
BY CarriedIs, ConcatType DEF DataOf

LEMMA DataOfNone ==
  DataOf(<<>>) = <<>>
<1>1. Carried(<<>>) = <<>>
  BY DEF Carried
<1> QED  BY <1>1, ConcatNone DEF DataOf

LEMMA DataOfSame ==
  ASSUME NEW p \in Seq(Pieces), NEW q \in Seq(Pieces), Len(p) = Len(q),
         \A k \in 1 .. Len(p) : p[k].data = q[k].data
  PROVE  DataOf(p) = DataOf(q)
<1>1. PICK n \in Nat : n = Len(p) /\ n = Len(q)
  OBVIOUS
<1>2. Carried(p) = [k \in 1 .. n |-> p[k].data] /\ Carried(q) = [k \in 1 .. n |-> q[k].data]
  BY <1>1 DEF Carried
<1>3. \A k \in 1 .. n : p[k].data = q[k].data
  BY <1>1
<1>4. [k \in 1 .. n |-> p[k].data] = [k \in 1 .. n |-> q[k].data]
  BY <1>3
<1> QED  BY <1>2, <1>4 DEF DataOf

LEMMA DataOfAppend ==
  ASSUME NEW q \in Seq(Pieces), NEW x \in Pieces
  PROVE  DataOf(Append(q, x)) = Joined(DataOf(q), x.data)
<1>1. PICK n \in Nat : n = Len(q)
  OBVIOUS
<1>2. PICK m \in Nat : m = n + 1
  OBVIOUS
<1>3. PICK g \in Seq(Pieces) : g = Append(q, x) /\ Len(g) = m /\ g[m] = x /\ \A k \in 1 .. n : g[k] = q[k]
  <2>1. /\ Append(q, x) \in Seq(Pieces) /\ Len(Append(q, x)) = Len(q) + 1
        /\ \A k \in 1 .. Len(q) : Append(q, x)[k] = q[k]
        /\ Append(q, x)[Len(q) + 1] = x
    BY AppendProperties
  <2> QED  BY <1>1, <1>2, <2>1
<1>4. PICK e : e = Carried(q) /\ Len(e) = n /\ \A k \in 1 .. n : e[k] = q[k].data
  BY <1>1, CarriedIs
<1>5. PICK f : f = Carried(g) /\ Len(f) = m /\ \A k \in 1 .. m : f[k] = g[k].data
  <2>1. Len(Carried(g)) = Len(g) /\ \A k \in 1 .. Len(g) : Carried(g)[k] = g[k].data
    BY CarriedIs
  <2>2. Len(g) = m
    BY <1>3
  <2> QED  BY <2>1, <2>2
<1>6. f[m] = x.data /\ \A k \in 1 .. n : f[k] = e[k]
  <2>1. m \in 1 .. m /\ \A k \in 1 .. n : k \in 1 .. m
    BY <1>2
  <2> QED  BY <1>3, <1>4, <1>5, <2>1
<1>7. Concatenated(f) = Joined(Concatenated(e), f[m])
  <2>1. m = n + 1 /\ Len(e) = n /\ Len(f) = m /\ \A k \in 1 .. n : f[k] = e[k]
    BY <1>2, <1>4, <1>5, <1>6
  <2> QED  BY <2>1, JoinsLast
<1> QED  BY <1>3, <1>4, <1>5, <1>6, <1>7 DEF DataOf

LEMMA CarriedBoth ==
  ASSUME NEW p \in Seq(Pieces), NEW q \in Seq(Pieces)
  PROVE  Carried(Joined(p, q)) = Joined(Carried(p), Carried(q))
<1>1. PICK n \in Nat, m \in Nat : n = Len(p) /\ m = Len(q)
  OBVIOUS
<1>2. PICK j \in Seq(Pieces) : /\ j = Joined(p, q) /\ Len(j) = n + m
                               /\ \A i \in 1 .. n : j[i] = p[i]
                               /\ \A i \in 1 .. m : j[n + i] = q[i]
  <2>1. Joined(p, q) \in Seq(Pieces) /\ Len(Joined(p, q)) = Len(p) + Len(q)
    BY JoinedIs
  <2>2. \A i \in 1 .. Len(p) : Joined(p, q)[i] = p[i]
    BY JoinedIs
  <2>3. \A i \in 1 .. Len(q) : Joined(p, q)[Len(p) + i] = q[i]
    BY JoinedIs
  <2> QED  BY <1>1, <2>1, <2>2, <2>3
<1>3. PICK a \in Seq(Datas) : a = Carried(p) /\ Len(a) = n /\ \A i \in 1 .. n : a[i] = p[i].data
  BY <1>1, CarriedIs
<1>4. PICK b \in Seq(Datas) : b = Carried(q) /\ Len(b) = m /\ \A i \in 1 .. m : b[i] = q[i].data
  BY <1>1, CarriedIs
<1>5. PICK d \in Seq(Datas) : d = Carried(j) /\ Len(d) = n + m /\ \A i \in 1 .. n + m : d[i] = j[i].data
  BY <1>2, CarriedIs
<1>6. PICK e \in Seq(Datas) : /\ e = Joined(a, b) /\ Len(e) = n + m
                              /\ \A i \in 1 .. n : e[i] = a[i]
                              /\ \A i \in 1 .. m : e[n + i] = b[i]
  <2>1. Joined(a, b) \in Seq(Datas) /\ Len(Joined(a, b)) = Len(a) + Len(b)
    BY JoinedIs
  <2>2. \A i \in 1 .. Len(a) : Joined(a, b)[i] = a[i]
    BY JoinedIs
  <2>3. \A i \in 1 .. Len(b) : Joined(a, b)[Len(a) + i] = b[i]
    BY JoinedIs
  <2> QED  BY <1>3, <1>4, <2>1, <2>2, <2>3
<1>7. \A i \in 1 .. Len(d) : d[i] = e[i]
  <2> TAKE i \in 1 .. Len(d)
  <2>1. i \in 1 .. n + m /\ d[i] = j[i].data
    BY <1>5
  <2>2. CASE i <= n
    <3>1. i \in 1 .. n
      BY <2>1, <2>2
    <3> QED  BY <1>2, <1>3, <1>6, <2>1, <3>1
  <2>3. CASE i > n
    <3>1. PICK k \in 1 .. m : i = n + k
      <4>1. i - n \in 1 .. m /\ i = n + (i - n)
        BY ONLY <2>1, <2>3
      <4> QED  BY <4>1
    <3>2. j[n + k] = q[k] /\ e[n + k] = b[k] /\ b[k] = q[k].data
      BY <1>2, <1>4, <1>6, <3>1
    <3> QED  BY <2>1, <3>1, <3>2
  <2>4. i <= n \/ i > n
    BY <2>1
  <2> QED  BY <2>2, <2>3, <2>4
<1>8. d = e
  BY <1>5, <1>6, <1>7, SeqEqual
<1> QED  BY <1>2, <1>3, <1>4, <1>5, <1>6, <1>8

LEMMA DataOfBoth ==
  ASSUME NEW p \in Seq(Pieces), NEW q \in Seq(Pieces)
  PROVE  DataOf(Joined(p, q)) = Joined(DataOf(p), DataOf(q))
<1>1. PICK a \in Seq(Datas) : a = Carried(p)
  BY CarriedIs
<1>2. PICK b \in Seq(Datas) : b = Carried(q)
  BY CarriedIs
<1>3. Concatenated(Joined(a, b)) = Joined(Concatenated(a), Concatenated(b))
  BY ConcatBoth
<1> QED  BY <1>1, <1>2, <1>3, CarriedBoth DEF DataOf

LEMMA DataOfSilent ==
  ASSUME NEW q \in Seq(Pieces), \A k \in 1 .. Len(q) : q[k].data = <<>>
  PROVE  DataOf(q) = <<>>
<1>1. PICK n \in Nat : n = Len(q)
  OBVIOUS
<1>2. PICK f : f = Carried(q) /\ Len(f) = n /\ \A k \in 1 .. n : f[k] = q[k].data
  BY <1>1, CarriedIs
<1>3. \A k \in 1 .. n : f[k] = <<>>
  BY <1>1, <1>2
<1>4. Concatenated(f) = <<>>
  BY <1>2, <1>3, ConcatSilent
<1> QED  BY <1>2, <1>4 DEF DataOf

\* Of a queue, what its first pieces and what the others carry.
LEMMA DataOfParts ==
  ASSUME NEW q \in Seq(Pieces), NEW n \in 0 .. Len(q)
  PROVE  /\ First(q, n) \in Seq(Pieces) /\ From(q, n) \in Seq(Pieces)
         /\ DataOf(q) = Joined(DataOf(First(q, n)), DataOf(From(q, n)))
<1>1. PICK a \in Seq(Pieces) : a = First(q, n)
  BY FirstIs
<1>2. PICK b \in Seq(Pieces) : b = From(q, n)
  BY FromIs
<1>3. Joined(a, b) = q
  BY <1>1, <1>2, SplitAt
<1>4. DataOf(Joined(a, b)) = Joined(DataOf(a), DataOf(b))
  BY DataOfBoth
<1> QED  BY <1>1, <1>2, <1>3, <1>4

RxFields ==
  {"queue", "head", "hasFill", "fillUsed", "held", "afterHeld", "completion", "endOfStream"}
Queueing == {"queue", "head", "hasFill", "fillUsed"}

\* A queue: of what is consumed, nothing is left.
QueueOk(rx) ==
  /\ DOMAIN rx = RxFields
  /\ rx.queue \in Seq(Pieces)
  /\ rx.head \in 0 .. Len(rx.queue)
  /\ \A k \in 1 .. rx.head : rx.queue[k].data = <<>>
  /\ rx.fillUsed \in Nat

\* An operation on the queue leaves this pending.
Queues(rx, to, data) == QueueOk(to) /\ Same(rx, to, Queueing) /\ CipherPending(to) = data

LEMMA PendingIs ==
  ASSUME NEW rx, QueueOk(rx)
  PROVE  /\ CipherPending(rx) = DataOf(rx.queue) /\ CipherPending(rx) = DataOf(Live(rx))
         /\ CipherPending(rx) \in Datas
         /\ Live(rx) \in Seq(Pieces) /\ Len(Live(rx)) = Len(rx.queue) - rx.head
         /\ \A k \in 1 .. Len(rx.queue) - rx.head : Live(rx)[k] = rx.queue[rx.head + k]
<1>0. PICK q \in Seq(Pieces) : q = rx.queue
  BY DEF QueueOk
<1>1. PICK h \in 0 .. Len(q) : q = rx.queue /\ h = rx.head
  BY <1>0 DEF QueueOk
<1>2. PICK n \in Nat : n = Len(q) /\ h <= n /\ h \in Nat
  OBVIOUS
<1>3. PICK a \in Seq(Pieces) : a = First(q, h) /\ Len(a) = h /\ \A k \in 1 .. h : a[k] = q[k]
  BY FirstIs
<1>4. PICK b \in Seq(Pieces) : b = From(q, h) /\ Len(b) = n - h /\ \A k \in 1 .. n - h : b[k] = q[h + k]
  <2>1. From(q, h) \in Seq(Pieces) /\ Len(From(q, h)) = Len(q) - h
    BY FromIs
  <2>2. \A k \in 1 .. Len(q) - h : From(q, h)[k] = q[h + k]
    BY FromIs
  <2> QED  BY <1>2, <2>1, <2>2
<1>5. \A k \in 1 .. Len(a) : a[k].data = <<>>
  BY <1>1, <1>3 DEF QueueOk
<1>6. DataOf(a) = <<>>
  BY <1>5, DataOfSilent
<1>7. DataOf(q) = Joined(DataOf(a), DataOf(b))
  BY <1>3, <1>4, DataOfParts
<1>8. PICK d \in Datas : d = DataOf(b)
  BY DataOfType
<1>9. DataOf(q) = d
  BY <1>6, <1>7, <1>8, DataJoins
<1>10. Live(rx) = b
  BY <1>1, <1>4 DEF Live
<1>11. CipherPending(rx) = DataOf(b)
  BY <1>10 DEF CipherPending, DataOf, Carried
<1> QED  BY <1>1, <1>2, <1>4, <1>8, <1>9, <1>10, <1>11

\* What a queue becomes when it is put together anew.
LEMMA Requeued ==
  ASSUME NEW rx, QueueOk(rx), NEW to, Same(rx, to, Queueing), to.queue \in Seq(Pieces),
         to.head \in 0 .. Len(to.queue), \A k \in 1 .. to.head : to.queue[k].data = <<>>,
         to.fillUsed \in Nat
  PROVE  Queues(rx, to, DataOf(to.queue))
<1>1. QueueOk(to)
  BY DEF QueueOk, Same
<1> QED  BY <1>1, PendingIs DEF Queues

LEMMA QueuesOn ==
  ASSUME NEW rx, NEW to, NEW d, Queues(rx, to, d), NEW last, NEW e, Queues(to, last, e)
  PROVE  Queues(rx, last, e)
BY SameOnward DEF Queues

LEMMA ClearIs ==
  ASSUME NEW rx, QueueOk(rx)
  PROVE  /\ Queues(rx, ClearCipherQueue(rx), <<>>) /\ ClearCipherQueue(rx).queue = <<>>
         /\ ClearCipherQueue(rx).fillUsed = 0 /\ ClearCipherQueue(rx).head = 0
<1> DEFINE to == ClearCipherQueue(rx)
<1>1. /\ Same(rx, to, Queueing) /\ to.queue = <<>> /\ to.head = 0 /\ to.fillUsed = 0
  BY DEF ClearCipherQueue, QueueOk, RxFields, Same, Queueing
<1> HIDE DEF to
<1>2. to.queue \in Seq(Pieces) /\ to.head \in 0 .. Len(to.queue) /\ to.fillUsed \in Nat
  BY <1>1
<1>3. \A k \in 1 .. to.head : to.queue[k].data = <<>>
  BY <1>1
<1>4. Queues(rx, to, DataOf(to.queue))
  BY <1>1, <1>2, <1>3, Requeued
<1> QED  BY <1>1, <1>4, DataOfNone DEF to

LEMMA ReclaimIs ==
  ASSUME NEW rx, QueueOk(rx)
  PROVE  Queues(rx, ReclaimConsumed(rx), CipherPending(rx))
<1> DEFINE to == ReclaimConsumed(rx)
<1>1. /\ Same(rx, to, Queueing) /\ to.queue = Live(rx) /\ to.head = 0 /\ to.fillUsed = rx.fillUsed
  BY DEF ReclaimConsumed, QueueOk, RxFields, Same, Queueing
<1> HIDE DEF to
<1>2. to.queue \in Seq(Pieces) /\ CipherPending(rx) = DataOf(to.queue)
  BY <1>1, PendingIs
<1>3. to.head \in 0 .. Len(to.queue) /\ to.fillUsed \in Nat
  BY <1>1, <1>2 DEF QueueOk
<1>4. \A k \in 1 .. to.head : to.queue[k].data = <<>>
  BY <1>1
<1>5. Queues(rx, to, DataOf(to.queue))
  BY <1>1, <1>2, <1>3, <1>4, Requeued
<1> QED  BY <1>2, <1>5 DEF to

LEMMA OnePiece ==
  ASSUME NEW x \in Pieces
  PROVE  <<x>> \in Seq(Pieces) /\ DataOf(<<x>>) = x.data
<1>1. <<>> \in Seq(Pieces)
  OBVIOUS
<1>2. Append(<<>>, x) = <<x>>
  OBVIOUS
<1>3. DataOf(Append(<<>>, x)) = Joined(DataOf(<<>>), x.data)
  BY <1>1, DataOfAppend
<1>4. PICK d \in Datas : d = x.data
  BY DEF Pieces
<1>5. Joined(<<>>, d) = d
  BY DataJoins
<1> QED  BY <1>2, <1>3, <1>4, <1>5, DataOfNone

LEMMA PieceIs ==
  ASSUME NEW owner \in Owners, NEW data \in Datas, NEW charge \in Nat
  PROVE  /\ Piece(owner, data, charge) \in Pieces /\ Piece(owner, data, charge).data = data
         /\ Piece(owner, data, charge).owner = owner
BY DEF Piece, Pieces

LEMMA CompactIs ==
  ASSUME NEW rx, QueueOk(rx)
  PROVE  Queues(rx, CompactCipher(rx), CipherPending(rx))
<1> DEFINE to == CompactCipher(rx)
<1>0. PICK d \in Datas : d = CipherPending(rx)
  BY PendingIs
<1>1. /\ Same(rx, to, Queueing) /\ to.head = 0 /\ to.fillUsed = 0
      /\ to.queue = IF d = <<>> THEN <<>> ELSE <<Piece("Copy", d, 0)>>
  BY <1>0 DEF CompactCipher, ClearCipherQueue, QueueOk, RxFields, Same, Queueing
<1> HIDE DEF to
<1>2. PICK x \in Pieces : x = Piece("Copy", d, 0) /\ x.data = d
  BY PieceIs DEF Owners
<1>3. to.queue \in Seq(Pieces) /\ DataOf(to.queue) = d
  <2>1. CASE d = <<>>
    BY <1>1, <2>1, DataOfNone
  <2>2. CASE d # <<>>
    BY <1>1, <1>2, <2>2, OnePiece
  <2> QED  BY <2>1, <2>2
<1>4. to.head \in 0 .. Len(to.queue) /\ to.fillUsed \in Nat
  BY <1>1, <1>3
<1>5. \A k \in 1 .. to.head : to.queue[k].data = <<>>
  BY <1>1
<1>6. Queues(rx, to, DataOf(to.queue))
  BY <1>1, <1>3, <1>4, <1>5, Requeued
<1> QED  BY <1>0, <1>3, <1>6 DEF to

LEMMA PushIs ==
  ASSUME NEW rx, QueueOk(rx), NEW piece \in Pieces
  PROVE  Queues(rx, Push(rx, piece), Joined(CipherPending(rx), piece.data))
<1> DEFINE ready == IF Len(rx.queue) < QueueCapacity THEN rx
                    ELSE IF rx.head > 0 THEN ReclaimConsumed(rx) ELSE CompactCipher(rx)
           x == IF piece.owner = "Fill" /\ ~ready.hasFill
                THEN [piece EXCEPT !.owner = "Copy"] ELSE piece
           to == [ready EXCEPT !.queue = Append(@, x)]
<1>1. Push(rx, piece) = to
  BY DEF Push
<1>2. Queues(rx, rx, CipherPending(rx))
  BY SameIs DEF Queues
<1>3. ready \in {rx, ReclaimConsumed(rx), CompactCipher(rx)}
  OBVIOUS
<1> HIDE DEF ready
<1>4. Queues(rx, ready, CipherPending(rx))
  BY <1>2, <1>3, ReclaimIs, CompactIs
<1>5. x \in Pieces /\ x.data = piece.data
  BY DEF Pieces, Owners
<1> HIDE DEF x
<1>6. QueueOk(ready) /\ CipherPending(ready) = CipherPending(rx)
  BY <1>4 DEF Queues
<1>7. Same(ready, to, Queueing) /\ to.queue = Append(ready.queue, x) /\ to.head = ready.head
      /\ to.fillUsed = ready.fillUsed
  BY <1>6 DEF QueueOk, RxFields, Same, Queueing
<1> HIDE DEF to
<1>8. PICK q \in Seq(Pieces) : q = ready.queue
  BY <1>6 DEF QueueOk
<1>9. PICK g \in Seq(Pieces) : g = Append(q, x) /\ Len(g) = Len(q) + 1 /\ \A k \in 1 .. Len(q) : g[k] = q[k]
  <2>1. Append(q, x) \in Seq(Pieces) /\ Len(Append(q, x)) = Len(q) + 1
    BY <1>5, AppendProperties
  <2>2. \A k \in 1 .. Len(q) : Append(q, x)[k] = q[k]
    BY <1>5, AppendProperties
  <2> QED  BY <2>1, <2>2
<1>10. to.queue \in Seq(Pieces) /\ to.head \in 0 .. Len(to.queue) /\ to.fillUsed \in Nat
  BY <1>6, <1>7, <1>8, <1>9 DEF QueueOk
<1>11. \A k \in 1 .. to.head : to.queue[k].data = <<>>
  <2>1. \A k \in 1 .. ready.head : k \in 1 .. Len(q) /\ q[k].data = <<>>
    BY <1>6, <1>8 DEF QueueOk
  <2> QED  BY <1>7, <1>8, <1>9, <2>1
<1>12. Queues(ready, to, DataOf(to.queue))
  BY <1>6, <1>7, <1>10, <1>11, Requeued
<1>13. DataOf(g) = Joined(DataOf(q), x.data)
  BY <1>5, <1>9, DataOfAppend
<1>14. DataOf(q) = CipherPending(rx)
  BY <1>6, <1>8, PendingIs
<1>15. DataOf(to.queue) = Joined(CipherPending(rx), piece.data)
  BY <1>5, <1>7, <1>8, <1>9, <1>13, <1>14
<1> QED  BY <1>1, <1>4, <1>12, <1>15, QueuesOn

LEMMA AppendSegmentIs ==
  ASSUME NEW rx, QueueOk(rx), NEW data \in Datas
  PROVE  Queues(rx, AppendSegment(rx, data), Joined(CipherPending(rx), data))
<1>1. Len(data) \in Nat
  BY DEF Datas
<1>2. PICK x \in Pieces : x = Piece("Segment", data, Len(data)) /\ x.data = data
  BY <1>1, PieceIs DEF Owners
<1>3. Queues(rx, Push(rx, x), Joined(CipherPending(rx), x.data))
  BY PushIs
<1> QED  BY <1>2, <1>3 DEF AppendSegment

LEMMA CompactStalledIs ==
  ASSUME NEW rx, QueueOk(rx)
  PROVE  Queues(rx, CompactIfStalled(rx), CipherPending(rx))
<1>1. Queues(rx, rx, CipherPending(rx))
  BY SameIs DEF Queues
<1>2. CompactIfStalled(rx) \in {rx, CompactCipher(rx)}
  BY DEF CompactIfStalled
<1> QED  BY <1>1, <1>2, CompactIs

LEMMA ReadyFillIs ==
  ASSUME NEW rx, QueueOk(rx)
  PROVE  /\ Queues(rx, ReadyFill(rx), CipherPending(rx))
         /\ FillRoom(rx) \in Nat \ {0}
<1> DEFINE cleared == [ClearCipherQueue(rx) EXCEPT !.hasFill = TRUE]
           anew == [rx EXCEPT
               !.queue = [k \in DOMAIN @ |->
                            IF @[k].owner = "Fill" THEN [@[k] EXCEPT !.owner = "Copy"] ELSE @[k]],
               !.hasFill = TRUE,
               !.fillUsed = 0]
<1>0. Queues(rx, rx, CipherPending(rx))
  BY SameIs DEF Queues
<1>1. CASE Live(rx) = <<>>
  <2>1. ReadyFill(rx) = cleared
    BY <1>1 DEF ReadyFill
  <2>2. PICK e : e = ClearCipherQueue(rx)
    OBVIOUS
  <2>3. Queues(rx, e, <<>>) /\ e.queue = <<>> /\ e.fillUsed = 0 /\ e.head = 0
    BY <2>2, ClearIs
  <2>4. Same(rx, cleared, Queueing) /\ cleared.queue = <<>> /\ cleared.fillUsed = 0 /\ cleared.head = 0
    BY <2>2, <2>3 DEF Queues, QueueOk, Same, RxFields, Queueing
  <2> HIDE DEF cleared
  <2>5. cleared.queue \in Seq(Pieces) /\ cleared.head \in 0 .. Len(cleared.queue) /\ cleared.fillUsed \in Nat
    BY <2>4
  <2>6. \A k \in 1 .. cleared.head : cleared.queue[k].data = <<>>
    BY <2>4
  <2>7. Queues(rx, cleared, DataOf(cleared.queue))
    BY <2>4, <2>5, <2>6, Requeued
  <2>8. CipherPending(rx) = <<>>
    BY <1>1, PendingIs, DataOfNone
  <2>9. FillRoom(rx) = InboundSize
    BY <2>1, <2>4, TransportAssumption DEF FillRoom
  <2> QED  BY <2>1, <2>4, <2>7, <2>8, <2>9, DataOfNone, TransportAssumption
<1>2. CASE Live(rx) # <<>> /\ (~rx.hasFill \/ rx.fillUsed >= InboundSize)
  <2>1. ReadyFill(rx) = anew
    BY <1>2 DEF ReadyFill
  <2>2. PICK q \in Seq(Pieces) : q = rx.queue
    BY DEF QueueOk
  <2>3. PICK n \in Nat : n = Len(q)
    OBVIOUS
  <2> DEFINE g == [k \in 1 .. n |-> IF q[k].owner = "Fill" THEN [q[k] EXCEPT !.owner = "Copy"] ELSE q[k]]
  <2>4. DOMAIN q = 1 .. n /\ \A k \in 1 .. n : q[k] \in Pieces
    BY <2>3
  <2>5. \A k \in 1 .. n : g[k] \in Pieces /\ g[k].data = q[k].data
    BY <2>4 DEF Pieces, Owners
  <2>6. Same(rx, anew, Queueing) /\ anew.queue = g /\ anew.head = rx.head /\ anew.fillUsed = 0
    BY <2>2, <2>4 DEF QueueOk, RxFields, Same, Queueing
  <2>7. DOMAIN g = 1 .. n
    OBVIOUS
  <2> HIDE DEF g, anew
  <2>8. g \in Seq(Pieces) /\ Len(g) = n
    <3>1. g \in [1 .. n -> Pieces]
      <4>1. g = [k \in 1 .. n |-> g[k]]
        BY DEF g
      <4> QED  BY <2>5, <4>1
    <3> QED  BY <3>1
  <2>9. DataOf(g) = DataOf(q)
    BY <2>3, <2>5, <2>8, DataOfSame
  <2>10. anew.queue \in Seq(Pieces) /\ anew.head \in 0 .. Len(anew.queue) /\ anew.fillUsed \in Nat
    BY <2>2, <2>3, <2>6, <2>8 DEF QueueOk
  <2>11. \A k \in 1 .. anew.head : anew.queue[k].data = <<>>
    <3>1. \A k \in 1 .. rx.head : k \in 1 .. n /\ q[k].data = <<>>
      BY <2>2, <2>3 DEF QueueOk
    <3> QED  BY <2>5, <2>6, <3>1
  <2>12. Queues(rx, anew, DataOf(anew.queue))
    BY <2>6, <2>10, <2>11, Requeued
  <2>13. CipherPending(rx) = DataOf(q)
    BY <2>2, PendingIs
  <2>14. FillRoom(rx) = InboundSize
    BY <2>1, <2>6, TransportAssumption DEF FillRoom
  <2> QED  BY <2>1, <2>6, <2>9, <2>12, <2>13, <2>14, TransportAssumption
<1>3. CASE Live(rx) # <<>> /\ ~(~rx.hasFill \/ rx.fillUsed >= InboundSize)
  <2>1. ReadyFill(rx) = rx
    BY <1>3 DEF ReadyFill
  <2>2. rx.fillUsed \in Nat /\ ~(rx.fillUsed >= InboundSize)
    BY <1>3 DEF QueueOk
  <2>3. FillRoom(rx) = InboundSize - rx.fillUsed
    BY <2>1 DEF FillRoom
  <2> QED  BY <1>0, <2>1, <2>2, <2>3, TransportAssumption
<1> QED  BY <1>1, <1>2, <1>3

\* What the last piece takes more of.
LEMMA LastGrows ==
  ASSUME NEW q \in Seq(Pieces), q # <<>>, NEW data \in Datas
  PROVE  LET g == [q EXCEPT ![Len(q)].data = @ \o data] IN
         /\ g \in Seq(Pieces) /\ Len(g) = Len(q)
         /\ \A k \in 1 .. Len(q) - 1 : g[k] = q[k]
         /\ DataOf(g) = Joined(DataOf(q), data)
<1>1. PICK p \in Seq(Pieces), x \in Pieces : q = Append(p, x)
  BY SequenceEmptyOrAppend
<1>2. PICK n \in Nat : n = Len(p)
  OBVIOUS
<1>3. Len(q) = n + 1 /\ q[n + 1] = x /\ \A k \in 1 .. n : q[k] = p[k]
  <2>1. Len(q) = Len(p) + 1 /\ q[Len(p) + 1] = x /\ \A k \in 1 .. Len(p) : q[k] = p[k]
    BY <1>1, AppendProperties
  <2> QED  BY <1>2, <2>1
<1>4. PICK e \in Datas : e = x.data
  BY DEF Pieces
<1>5. PICK j \in Datas : j = Joined(e, data) /\ j = e \o data
  BY DataJoins DEF Joined
<1>6. PICK y \in Pieces : y = [x EXCEPT !.data = j] /\ y.data = j
  <2>1. x \in [owner : Owners, data : Datas, charge : Nat] /\ j \in Datas
    BY <1>5 DEF Pieces
  <2> HIDE <1>4, <1>5
  <2>2. [x EXCEPT !.data = j] \in [owner : Owners, data : Datas, charge : Nat]
    BY <2>1, Zenon
  <2>3. [x EXCEPT !.data = j].data = j
    BY <2>1
  <2> QED  BY <2>2, <2>3 DEF Pieces
<1>7. PICK g \in Seq(Pieces) : g = Append(p, y) /\ Len(g) = n + 1 /\ g[n + 1] = y /\ \A k \in 1 .. n : g[k] = p[k]
  <2>1. /\ Append(p, y) \in Seq(Pieces) /\ Len(Append(p, y)) = Len(p) + 1
        /\ Append(p, y)[Len(p) + 1] = y
    BY AppendProperties
  <2>2. \A k \in 1 .. Len(p) : Append(p, y)[k] = p[k]
    BY AppendProperties
  <2> QED  BY <1>2, <2>1, <2>2
<1> DEFINE z == [q EXCEPT ![Len(q)].data = @ \o data]
<1>8. z = [k \in DOMAIN q |-> IF k = n + 1 THEN y ELSE q[k]]
  <2>1. z = [q EXCEPT ![n + 1] = [q[n + 1] EXCEPT !.data = q[n + 1].data \o data]]
    BY <1>3
  <2>2. [q[n + 1] EXCEPT !.data = q[n + 1].data \o data] = y
    BY <1>3, <1>4, <1>5, <1>6
  <2>3. z = [q EXCEPT ![n + 1] = y]
    BY <2>1, <2>2
  <2> HIDE DEF z
  <2> QED  BY <2>3
<1> HIDE DEF z
<1>9. DOMAIN q = 1 .. n + 1 /\ DOMAIN g = 1 .. n + 1
  BY <1>3, <1>7
<1>10. z = g
  <2>1. \A k \in 1 .. n + 1 : z[k] = g[k]
    <3> TAKE k \in 1 .. n + 1
    <3>1. CASE k = n + 1
      BY <1>7, <1>8, <1>9, <3>1
    <3>2. CASE k # n + 1
      <4>1. k \in 1 .. n
        BY <3>2
      <4> QED  BY <1>3, <1>7, <1>8, <1>9, <3>2, <4>1
    <3> QED  BY <3>1, <3>2
  <2>2. DOMAIN z = 1 .. n + 1 /\ z = [k \in 1 .. n + 1 |-> z[k]]
    BY <1>8, <1>9
  <2>3. g = [k \in 1 .. n + 1 |-> g[k]]
    BY <1>9
  <2> QED  BY <2>1, <2>2, <2>3
<1>11. DataOf(g) = Joined(DataOf(p), y.data)
  BY <1>7, DataOfAppend
<1>12. DataOf(q) = Joined(DataOf(p), x.data)
  BY <1>1, DataOfAppend
<1>13. PICK b \in Datas : b = DataOf(p)
  BY DataOfType
<1>14. Joined(Joined(b, e), data) = Joined(b, Joined(e, data))
  BY DataJoinsBoth
<1>15. DataOf(g) = Joined(DataOf(q), data)
  BY <1>4, <1>5, <1>6, <1>11, <1>12, <1>13, <1>14
<1>16. \A k \in 1 .. Len(q) - 1 : g[k] = q[k]
  BY <1>3, <1>7
<1> QED  BY <1>3, <1>7, <1>10, <1>15, <1>16 DEF z

LEMMA FillCipherIs ==
  ASSUME NEW rx, QueueOk(rx), NEW data \in Datas
  PROVE  Queues(rx, FillCipher(rx, data), Joined(CipherPending(rx), data))
<1>1. PICK e : e = ReadyFill(rx)
  OBVIOUS
<1>2. Queues(rx, e, CipherPending(rx))
  BY <1>1, ReadyFillIs
<1>3. PICK n \in Nat : n = Len(data)
  BY DEF Datas
<1>4. PICK ready : ready = [e EXCEPT !.fillUsed = @ + n]
  OBVIOUS
<1>5. QueueOk(e) /\ CipherPending(e) = CipherPending(rx)
  BY <1>2 DEF Queues
<1>6. /\ Same(e, ready, Queueing) /\ ready.queue = e.queue /\ ready.head = e.head
      /\ ready.fillUsed = e.fillUsed + n /\ ready.hasFill = e.hasFill
  BY <1>4, <1>5 DEF QueueOk, RxFields, Same, Queueing
<1>7. Queues(e, ready, DataOf(ready.queue))
  <2>1. ready.queue \in Seq(Pieces) /\ ready.head \in 0 .. Len(ready.queue) /\ ready.fillUsed \in Nat
    BY <1>5, <1>6 DEF QueueOk
  <2>2. \A k \in 1 .. ready.head : ready.queue[k].data = <<>>
    BY <1>5, <1>6 DEF QueueOk
  <2> QED  BY <1>5, <1>6, <2>1, <2>2, Requeued
<1>8. DataOf(ready.queue) = CipherPending(rx)
  BY <1>5, <1>6, PendingIs
<1>9. Queues(rx, ready, CipherPending(rx))
  BY <1>2, <1>7, <1>8, QueuesOn
<1>10. QueueOk(ready) /\ CipherPending(ready) = CipherPending(rx)
  BY <1>9 DEF Queues
<1>11. PICK q \in Seq(Pieces) : q = ready.queue
  BY <1>10 DEF QueueOk
<1>12. CASE Live(ready) # <<>> /\ ready.queue[Len(ready.queue)].owner = "Fill"
  <2> DEFINE to == [ready EXCEPT !.queue[Len(ready.queue)].data = @ \o data]
             g == [q EXCEPT ![Len(q)].data = @ \o data]
  <2>1. FillCipher(rx, data) = to
    BY <1>1, <1>3, <1>4, <1>12 DEF FillCipher
  <2>2. Len(Live(ready)) = Len(q) - ready.head /\ Live(ready) \in Seq(Pieces)
    BY <1>10, <1>11, PendingIs
  <2>3. ready.head < Len(q) /\ ready.head \in Nat /\ Len(q) \in Nat
    <3>1. Len(Live(ready)) # 0
      BY <1>12, <2>2
    <3> QED  BY <1>10, <1>11, <2>2, <3>1 DEF QueueOk
  <2>4. q # <<>>
    BY <2>3
  <2>5. /\ g \in Seq(Pieces) /\ Len(g) = Len(q) /\ DataOf(g) = Joined(DataOf(q), data)
        /\ \A k \in 1 .. Len(q) - 1 : g[k] = q[k]
    BY <2>4, LastGrows
  <2>6. /\ Same(ready, to, Queueing) /\ to.queue = g /\ to.head = ready.head
        /\ to.fillUsed = ready.fillUsed
    <3>1. to = [ready EXCEPT !.queue = g]
      BY <1>11
    <3> HIDE DEF g, to
    <3> QED  BY <1>10, <3>1 DEF QueueOk, RxFields, Same, Queueing
  <2> HIDE DEF g, to
  <2>7. to.queue \in Seq(Pieces) /\ to.head \in 0 .. Len(to.queue) /\ to.fillUsed \in Nat
    BY <1>10, <2>3, <2>5, <2>6 DEF QueueOk
  <2>8. \A k \in 1 .. to.head : to.queue[k].data = <<>>
    <3>1. \A k \in 1 .. ready.head : q[k].data = <<>> /\ k \in 1 .. Len(q) - 1
      BY <1>10, <1>11, <2>3 DEF QueueOk
    <3> QED  BY <2>5, <2>6, <3>1
  <2>9. Queues(ready, to, DataOf(g))
    BY <1>10, <2>6, <2>7, <2>8, Requeued
  <2>10. DataOf(q) = CipherPending(rx)
    BY <1>8, <1>11
  <2> QED  BY <1>9, <2>1, <2>5, <2>9, <2>10, QueuesOn
<1>13. CASE ~(Live(ready) # <<>> /\ ready.queue[Len(ready.queue)].owner = "Fill")
  <2>1. FillCipher(rx, data) = Push(ready, Piece("Fill", data, 0))
    BY <1>1, <1>3, <1>4, <1>13 DEF FillCipher
  <2>2. PICK x \in Pieces : x = Piece("Fill", data, 0) /\ x.data = data
    BY PieceIs DEF Owners
  <2>3. Queues(ready, Push(ready, x), Joined(CipherPending(ready), x.data))
    BY <1>10, PushIs
  <2> QED  BY <1>9, <1>10, <2>1, <2>2, <2>3, QueuesOn
<1> QED  BY <1>12, <1>13

\* How much a queue carries up to a piece.
UnitsTo(q, k) == Len(DataOf(First(q, k)))

LEMMA FirstNext ==
  ASSUME NEW q \in Seq(Pieces), NEW k \in Nat, NEW m \in Nat, m = k + 1, m <= Len(q)
  PROVE  First(q, m) = Append(First(q, k), q[m]) /\ q[m] \in Pieces
<1>1. k \in 0 .. Len(q) /\ m \in 0 .. Len(q) /\ m \in 1 .. Len(q)
  OBVIOUS
<1>2. q[m] \in Pieces
  BY <1>1
<1>3. PICK x \in Pieces : x = q[m]
  BY <1>2
<1>4. PICK a \in Seq(Pieces) : a = First(q, k) /\ Len(a) = k /\ \A i \in 1 .. k : a[i] = q[i]
  BY <1>1, FirstIs
<1>5. PICK b \in Seq(Pieces) : b = First(q, m) /\ Len(b) = m /\ \A i \in 1 .. m : b[i] = q[i]
  BY <1>1, FirstIs
<1>6. PICK g \in Seq(Pieces) : g = Append(a, x) /\ Len(g) = m /\ g[m] = x /\ \A i \in 1 .. k : g[i] = a[i]
  <2>1. /\ Append(a, x) \in Seq(Pieces) /\ Len(Append(a, x)) = Len(a) + 1
        /\ Append(a, x)[Len(a) + 1] = x
    BY AppendProperties
  <2>2. \A i \in 1 .. Len(a) : Append(a, x)[i] = a[i]
    BY AppendProperties
  <2> QED  BY <1>4, <2>1, <2>2
<1>7. \A i \in 1 .. Len(b) : b[i] = g[i]
  <2> TAKE i \in 1 .. Len(b)
  <2>1. i = m \/ i \in 1 .. k
    BY <1>5
  <2>2. i \in 1 .. m
    BY <1>5
  <2> QED  BY <1>3, <1>4, <1>5, <1>6, <2>1, <2>2
<1>8. b = g
  BY <1>5, <1>6, <1>7, SeqEqual
<1> QED  BY <1>2, <1>3, <1>4, <1>5, <1>6, <1>8

LEMMA UnitsToNext ==
  ASSUME NEW q \in Seq(Pieces), NEW k \in Nat, NEW m \in Nat, m = k + 1, m <= Len(q)
  PROVE  UnitsTo(q, k) \in Nat /\ q[m].data \in Datas /\ Len(q[m].data) \in Nat
         /\ UnitsTo(q, m) = UnitsTo(q, k) + Len(q[m].data)
<1>1. k \in 0 .. Len(q)
  OBVIOUS
<1>2. PICK a \in Seq(Pieces) : a = First(q, k)
  BY <1>1, FirstIs
<1>3. PICK x \in Pieces : x = q[m] /\ First(q, m) = Append(a, x)
  BY <1>2, FirstNext
<1>4. DataOf(Append(a, x)) = Joined(DataOf(a), x.data)
  BY DataOfAppend
<1>5. PICK d \in Datas : d = DataOf(a)
  BY DataOfType
<1>6. PICK e \in Datas : e = x.data
  BY DEF Pieces
<1>7. Len(d) \in Nat /\ Len(e) \in Nat /\ Len(Joined(d, e)) = Len(d) + Len(e)
  <2>1. d \in Seq(Nat) /\ e \in Seq(Nat)
    BY DEF Datas
  <2>2. Len(d) \in Nat /\ Len(e) \in Nat
    BY <2>1
  <2> QED  BY <2>1, <2>2, JoinedIs
<1> QED  BY <1>2, <1>3, <1>4, <1>5, <1>6, <1>7 DEF UnitsTo

LEMMA UnitsToIs ==
  ASSUME NEW rx, QueueOk(rx), NEW k \in 0 .. Len(rx.queue)
  PROVE  UnitsBefore(rx, k) = UnitsTo(rx.queue, k)
<1>1. PICK q \in Seq(Pieces) : q = rx.queue
  BY DEF QueueOk
<1>2. PICK f \in Seq(Pieces) : f = First(q, k) /\ Len(f) = k /\ \A i \in 1 .. k : f[i] = q[i]
  BY <1>1, FirstIs
<1>3. [j \in 1 .. k |-> q[j].data] = [j \in 1 .. k |-> f[j].data]
  BY <1>2
<1>4. Carried(f) = [j \in 1 .. k |-> q[j].data]
  BY <1>2, <1>3 DEF Carried
<1> QED  BY <1>1, <1>2, <1>4 DEF UnitsBefore, UnitsTo, DataOf

\* Up to which piece n units use a queue.
LEMMA UsedUpTo ==
  ASSUME NEW q \in Seq(Pieces), NEW h \in 0 .. Len(q), UnitsTo(q, h) = 0, NEW n \in Nat
  PROVE  \E e \in h .. Len(q) : \A k \in h + 1 .. Len(q) : UnitsTo(q, k) <= n <=> k <= e
<1>1. PICK N \in Nat : N = Len(q) /\ h \in Nat /\ h <= N
  OBVIOUS
<1> DEFINE Upto(m) == \E e \in h .. h + m : \A k \in h + 1 .. h + m : UnitsTo(q, k) <= n <=> k <= e
           S == {m \in Nat : h + m <= N => Upto(m)}
<1>2. 0 \in S
  <2>1. h \in h .. h + 0 /\ \A k \in h + 1 .. h + 0 : FALSE
    BY <1>1
  <2> QED  BY <2>1
<1>3. ASSUME NEW m \in S PROVE m + 1 \in S
  <2> SUFFICES ASSUME h + (m + 1) <= N PROVE Upto(m + 1)
    OBVIOUS
  <2>0. m \in Nat
    OBVIOUS
  <2>1. Upto(m)
    BY <1>1, <2>0
  <2>2. PICK e \in h .. h + m : \A k \in h + 1 .. h + m : UnitsTo(q, k) <= n <=> k <= e
    BY <2>1
  <2> HIDE DEF S, Upto
  <2>3. PICK l \in Nat : l = h + m /\ e \in Nat /\ h <= e /\ e <= l
    BY <1>1, <2>0, <2>2
  <2>4. PICK l1 \in Nat : l1 = l + 1 /\ l1 <= Len(q) /\ l1 = h + (m + 1)
    BY <1>1, <2>0, <2>3
  <2>5. UnitsTo(q, l) \in Nat /\ Len(q[l1].data) \in Nat
        /\ UnitsTo(q, l1) = UnitsTo(q, l) + Len(q[l1].data)
    BY <2>3, <2>4, UnitsToNext
  <2>6. PICK v \in Nat, w \in Nat : v = UnitsTo(q, l) /\ w = UnitsTo(q, l1) /\ v <= w
    BY <2>5
  <2>7. CASE w <= n
    <3>1. e = l
      <4>1. CASE m = 0
        BY <1>1, <2>3, <4>1
      <4>2. CASE m # 0
        <5>1. l \in h + 1 .. h + m
          BY <1>1, <2>0, <2>3, <4>2
        <5>2. v <= n
          BY <2>6, <2>7
        <5>3. l <= e
          BY <2>2, <2>6, <5>1, <5>2
        <5> QED  BY <2>3, <5>3
      <4> QED  BY <4>1, <4>2
    <3>2. l1 \in h .. h + (m + 1)
      BY <1>1, <2>3, <2>4
    <3>3. \A k \in h + 1 .. h + (m + 1) : UnitsTo(q, k) <= n <=> k <= l1
      <4> TAKE k \in h + 1 .. h + (m + 1)
      <4>1. k \in Nat /\ k <= l1 /\ (k = l1 \/ k \in h + 1 .. h + m)
        BY <1>1, <2>0, <2>3, <2>4
      <4>2. k = l1 \/ k <= e
        BY <2>3, <2>4, <3>1, <4>1
      <4> QED  BY <2>2, <2>6, <2>7, <4>1, <4>2
    <3> QED  BY <3>2, <3>3 DEF Upto
  <2>8. CASE ~(w <= n)
    <3>1. e \in h .. h + (m + 1)
      BY <1>1, <2>0, <2>3
    <3>2. \A k \in h + 1 .. h + (m + 1) : UnitsTo(q, k) <= n <=> k <= e
      <4> TAKE k \in h + 1 .. h + (m + 1)
      <4>1. k = l1 \/ k \in h + 1 .. h + m
        BY <1>1, <2>0, <2>3, <2>4
      <4>2. ~(l1 <= e)
        BY <2>3, <2>4
      <4> QED  BY <2>2, <2>6, <2>8, <4>1, <4>2
    <3> QED  BY <3>1, <3>2 DEF Upto
  <2> QED  BY <2>7, <2>8
<1> HIDE DEF S
<1>4. S = Nat
  BY <1>2, <1>3, Induct DEF S
<1>5. N - h \in Nat /\ h + (N - h) = N
  BY <1>1
<1>6. Upto(N - h)
  <2>1. PICK m \in Nat : m = N - h /\ h + m = N
    BY <1>5
  <2> HIDE DEF Upto
  <2>2. m \in S
    BY <1>4
  <2>3. Upto(m)
    BY <1>1, <2>1, <2>2 DEF S
  <2> QED  BY <2>1, <2>3
<1> QED  BY <1>1, <1>5, <1>6

LEMMA SeqIs ==
  ASSUME NEW S, NEW n \in Nat, NEW f \in [1 .. n -> S]
  PROVE  f \in Seq(S) /\ Len(f) = n
OBVIOUS

\* What is left of a queue of which so much is used.
Emptied == Piece("Copy", <<>>, 0)
Cut(q, h, e, n) ==
  [k \in DOMAIN q |->
     IF k \in h + 1 .. e THEN Emptied
     ELSE IF k = e + 1 THEN [q[k] EXCEPT !.data = From(q[k].data, n - UnitsTo(q, e))] ELSE q[k]]

LEMMA EmptiedIs == Emptied \in Pieces /\ Emptied.data = <<>>
<1>1. <<>> \in Datas /\ "Copy" \in Owners /\ 0 \in Nat
  BY DataNone DEF Owners
<1> QED  BY <1>1, PieceIs DEF Emptied

LEMMA PieceCut ==
  ASSUME NEW x \in Pieces, NEW d \in Datas
  PROVE  [x EXCEPT !.data = d] \in Pieces /\ [x EXCEPT !.data = d].data = d
<1>1. x \in [owner : Owners, data : Datas, charge : Nat]
  BY DEF Pieces
<1>2. [x EXCEPT !.data = d] \in [owner : Owners, data : Datas, charge : Nat]
  BY <1>1, Zenon
<1>3. [x EXCEPT !.data = d].data = d
  BY <1>1
<1> QED  BY <1>2, <1>3 DEF Pieces

LEMMA CutAll ==
  ASSUME NEW q \in Seq(Pieces), NEW h \in 0 .. Len(q), \A k \in 1 .. h : q[k].data = <<>>,
         NEW n \in Nat, n <= Len(DataOf(q)), UnitsTo(q, Len(q)) <= n
  PROVE  /\ Cut(q, h, Len(q), n) \in Seq(Pieces) /\ Len(Cut(q, h, Len(q), n)) = Len(q)
         /\ \A k \in 1 .. Len(q) : Cut(q, h, Len(q), n)[k].data = <<>>
         /\ DataOf(Cut(q, h, Len(q), n)) = From(DataOf(q), n)
<1>1. PICK N \in Nat : N = Len(q) /\ h \in Nat /\ h <= N
  OBVIOUS
<1>2. DOMAIN q = 1 .. N /\ \A k \in 1 .. N : q[k] \in Pieces
  BY <1>1
<1> DEFINE g == Cut(q, h, N, n)
<1>3. DOMAIN g = 1 .. N /\ g = [k \in 1 .. N |-> g[k]]
  BY <1>2 DEF Cut
<1>4. \A k \in 1 .. N : g[k] = IF k \in h + 1 .. N THEN Emptied ELSE q[k]
  BY <1>1, <1>2 DEF Cut
<1> HIDE DEF g
<1>5. \A k \in 1 .. N : g[k] \in Pieces /\ g[k].data = <<>>
  <2> TAKE k \in 1 .. N
  <2>1. CASE k \in h + 1 .. N
    BY <1>4, <2>1, EmptiedIs
  <2>2. CASE ~(k \in h + 1 .. N)
    <3>1. k \in 1 .. h
      BY <1>1, <2>2
    <3> QED  BY <1>2, <1>4, <2>2, <3>1
  <2> QED  BY <2>1, <2>2
<1>6. g \in Seq(Pieces) /\ Len(g) = N
  <2>1. g \in [1 .. N -> Pieces]
    BY <1>3, <1>5
  <2> QED  BY <1>1, <2>1
<1>7. DataOf(g) = <<>>
  BY <1>5, <1>6, DataOfSilent
<1>8. First(q, N) = q
  <2>1. PICK f \in Seq(Pieces) : f = First(q, N) /\ Len(f) = N /\ \A k \in 1 .. N : f[k] = q[k]
    <3>1. N \in 0 .. Len(q)
      BY <1>1
    <3> QED  BY <3>1, FirstIs
  <2>2. f = q
    BY <1>1, <2>1, SeqEqual
  <2> QED  BY <2>1, <2>2
<1>9. PICK d \in Datas : d = DataOf(q)
  BY DataOfType
<1>10. Len(d) \in Nat
  BY DEF Datas
<1>11. n = Len(d)
  BY <1>1, <1>8, <1>9, <1>10 DEF UnitsTo
<1>12. From(d, n) = <<>>
  BY <1>11, FromAll
<1> QED  BY <1>1, <1>5, <1>6, <1>7, <1>9, <1>12 DEF g

LEMMA CutSome ==
  ASSUME NEW q \in Seq(Pieces), NEW h \in 0 .. Len(q), \A k \in 1 .. h : q[k].data = <<>>,
         NEW e \in h .. Len(q), e < Len(q), NEW n \in Nat,
         UnitsTo(q, e) <= n, n <= UnitsTo(q, e + 1)
  PROVE  /\ Cut(q, h, e, n) \in Seq(Pieces) /\ Len(Cut(q, h, e, n)) = Len(q)
         /\ \A k \in 1 .. e : Cut(q, h, e, n)[k].data = <<>>
         /\ DataOf(Cut(q, h, e, n)) = From(DataOf(q), n)
<1>1. PICK N \in Nat : N = Len(q) /\ h \in Nat /\ e \in Nat /\ h <= e /\ e < N
  OBVIOUS
<1>2. DOMAIN q = 1 .. N /\ \A k \in 1 .. N : q[k] \in Pieces
  BY <1>1
<1>3. PICK m \in Nat : m = e + 1 /\ m <= N
  BY <1>1
<1>4. PICK a \in Seq(Pieces) : a = First(q, e)
  <2>1. e \in 0 .. Len(q)
    BY <1>1
  <2> QED  BY <2>1, FirstIs
<1>5. PICK x \in Pieces : x = q[m] /\ First(q, m) = Append(a, x)
  BY <1>1, <1>3, <1>4, FirstNext
<1>6. PICK b \in Seq(Pieces) : b = From(q, m) /\ Len(b) = N - m /\ \A k \in 1 .. N - m : b[k] = q[m + k]
  <2>1. m \in 0 .. Len(q)
    BY <1>1, <1>3
  <2>2. From(q, m) \in Seq(Pieces) /\ Len(From(q, m)) = Len(q) - m
    BY <2>1, FromIs
  <2>3. \A k \in 1 .. Len(q) - m : From(q, m)[k] = q[m + k]
    BY <2>1, FromIs
  <2> QED  BY <1>1, <2>2, <2>3
<1>7. PICK c \in Seq(Pieces) : c = Append(a, x)
  BY AppendProperties
<1>8. DataOf(q) = Joined(DataOf(c), DataOf(b))
  <2>1. m \in 0 .. Len(q)
    BY <1>1, <1>3
  <2> QED  BY ZenonT(60), <1>5, <1>6, <1>7, <2>1, DataOfParts
<1>9. PICK A \in Datas, X \in Datas, B \in Datas : A = DataOf(a) /\ X = x.data /\ B = DataOf(b)
  <2>1. DataOf(a) \in Datas /\ DataOf(b) \in Datas
    BY DataOfType
  <2>2. x.data \in Datas
    BY DEF Pieces
  <2> QED  BY <2>1, <2>2
<1>10. DataOf(c) = Joined(A, X)
  BY <1>7, <1>9, DataOfAppend
<1>11. DataOf(q) = Joined(Joined(A, X), B)
  BY <1>8, <1>9, <1>10
<1>12. PICK u \in Nat : u = Len(A) /\ u = UnitsTo(q, e) /\ u <= n /\ n <= u + Len(X)
  <2>1. UnitsTo(q, e) \in Nat /\ UnitsTo(q, m) = UnitsTo(q, e) + Len(q[m].data)
    BY <1>1, <1>3, UnitsToNext
  <2> QED  BY <1>3, <1>4, <1>5, <1>9, <2>1 DEF UnitsTo
<1>13. PICK Y \in Datas : Y = From(X, n - u) /\ From(DataOf(q), n) = Joined(Y, B)
  <2>1. PICK k \in 0 .. Len(X) : k = n - u /\ Len(A) + k = n
    <3>1. n - u \in 0 .. Len(X) /\ Len(A) + (n - u) = n
      BY ONLY <1>12
    <3> QED  BY <3>1
  <2>2. From(X, k) \in Datas
    BY CutInside
  <2>3. From(Joined(Joined(A, X), B), Len(A) + k) = Joined(From(X, k), B)
    BY CutInside
  <2> QED  BY <1>11, <2>1, <2>2, <2>3
<1>14. PICK y \in Pieces : y = [x EXCEPT !.data = Y] /\ y.data = Y
  BY PieceCut
<1> DEFINE g == Cut(q, h, e, n)
<1>15. DOMAIN g = 1 .. N /\ g = [k \in 1 .. N |-> g[k]]
  BY <1>2 DEF Cut
<1>16. \A k \in 1 .. N :
         g[k] = IF k \in h + 1 .. e THEN Emptied
                ELSE IF k = m THEN [q[k] EXCEPT !.data = From(q[k].data, n - u)] ELSE q[k]
  BY <1>2, <1>3, <1>12 DEF Cut
<1> HIDE DEF g
<1>17. g[m] = y
  <2>1. m \in 1 .. N /\ ~(m \in h + 1 .. e)
    BY <1>1, <1>3
  <2>2. g[m] = [q[m] EXCEPT !.data = From(q[m].data, n - u)]
    BY <1>16, <2>1
  <2> QED  BY <1>5, <1>9, <1>13, <1>14, <2>2
<1>18. \A k \in 1 .. e : g[k] \in Pieces /\ g[k].data = <<>>
  <2> TAKE k \in 1 .. e
  <2>0. k \in 1 .. N /\ k # m
    BY <1>1, <1>3
  <2>1. CASE k \in h + 1 .. e
    BY <1>16, <2>0, <2>1, EmptiedIs
  <2>2. CASE ~(k \in h + 1 .. e)
    <3>1. k \in 1 .. h
      BY <1>1, <2>2
    <3>2. g[k] = q[k]
      BY <1>16, <2>0, <2>2
    <3> QED  BY <1>2, <2>0, <3>1, <3>2
  <2> QED  BY <2>1, <2>2
<1>19. \A k \in m + 1 .. N : g[k] = q[k] /\ g[k] \in Pieces
  <2> TAKE k \in m + 1 .. N
  <2>1. k \in 1 .. N /\ k # m /\ ~(k \in h + 1 .. e)
    BY <1>1, <1>3
  <2> QED  BY <1>2, <1>16, <2>1
<1>20. g \in Seq(Pieces) /\ Len(g) = N
  <2>1. \A k \in 1 .. N : g[k] \in Pieces
    <3> TAKE k \in 1 .. N
    <3>1. k \in 1 .. e \/ k = m \/ k \in m + 1 .. N
      BY <1>1, <1>3
    <3> QED  BY <1>17, <1>18, <1>19, <3>1
  <2>2. g \in [1 .. N -> Pieces]
    BY <1>15, <2>1
  <2> QED  BY <2>2, SeqIs
<1>21. PICK p \in Seq(Pieces) : p = First(g, e) /\ Len(p) = e /\ \A k \in 1 .. e : p[k] = g[k]
  <2>1. e \in 0 .. Len(g)
    BY <1>1, <1>20
  <2> QED  BY <1>20, <2>1, FirstIs
<1>22. DataOf(p) = <<>>
  BY <1>18, <1>21, DataOfSilent
<1>23. First(g, m) = Append(p, y)
  <2>1. m = e + 1 /\ m <= Len(g)
    BY <1>3, <1>20
  <2> QED  BY <1>1, <1>17, <1>20, <1>21, <2>1, FirstNext
<1>24. PICK d \in Seq(Pieces) : d = Append(p, y)
  BY AppendProperties
<1>25. DataOf(d) = Y
  <2>1. DataOf(Append(p, y)) = Joined(DataOf(p), y.data)
    BY <1>14, DataOfAppend
  <2>2. DataOf(d) = Joined(<<>>, Y)
    BY <1>14, <1>22, <1>24, <2>1
  <2> QED  BY <2>2, DataJoins
<1>26. PICK f \in Seq(Pieces) : f = From(g, m) /\ Len(f) = N - m /\ \A k \in 1 .. N - m : f[k] = g[m + k]
  <2>1. m \in 0 .. Len(g)
    BY <1>3, <1>20
  <2>2. From(g, m) \in Seq(Pieces) /\ Len(From(g, m)) = Len(g) - m
    BY <1>20, <2>1, FromIs
  <2>3. \A k \in 1 .. Len(g) - m : From(g, m)[k] = g[m + k]
    BY <1>20, <2>1, FromIs
  <2> QED  BY <1>20, <2>2, <2>3
<1>27. f = b
  <2>1. \A k \in 1 .. Len(f) : f[k] = b[k]
    <3> TAKE k \in 1 .. Len(f)
    <3>0. N \in Nat /\ m \in Nat /\ k \in 1 .. N - m
      BY <1>3, <1>26
    <3>1. m + k \in m + 1 .. N
      BY <3>0
    <3> QED  BY <1>6, <1>19, <1>26, <3>0, <3>1
  <2> QED  BY <1>6, <1>26, <2>1, SeqEqual
<1>28. DataOf(g) = Joined(DataOf(d), DataOf(f))
  <2>1. m \in 0 .. Len(g)
    BY <1>3, <1>20
  <2> QED  BY <1>20, <1>23, <1>24, <1>26, <2>1, DataOfParts
<1>29. DataOf(g) = From(DataOf(q), n)
  BY <1>9, <1>13, <1>25, <1>27, <1>28
<1> QED  BY <1>1, <1>18, <1>20, <1>29 DEF g

LEMMA ConsumedIs ==
  ASSUME NEW rx, QueueOk(rx), NEW n \in Nat, n <= Len(CipherPending(rx))
  PROVE  Queues(rx, ConsumedUpto(rx, n, rx.head + UsedBy(rx, n)), From(CipherPending(rx), n))
<1>1. PICK q \in Seq(Pieces) : q = rx.queue
  BY DEF QueueOk
<1>2. PICK h \in 0 .. Len(q) : h = rx.head /\ \A k \in 1 .. h : q[k].data = <<>>
  BY <1>1 DEF QueueOk
<1>3. PICK N \in Nat : N = Len(q) /\ h \in Nat /\ h <= N
  OBVIOUS
<1>4. UnitsTo(q, h) = 0
  <2>1. PICK f \in Seq(Pieces) : f = First(q, h) /\ Len(f) = h /\ \A k \in 1 .. h : f[k] = q[k]
    BY FirstIs
  <2>2. DataOf(f) = <<>>
    BY <1>2, <2>1, DataOfSilent
  <2> QED  BY <2>1, <2>2 DEF UnitsTo
<1>5. PICK e \in h .. N : \A k \in h + 1 .. N : UnitsTo(q, k) <= n <=> k <= e
  BY <1>3, <1>4, UsedUpTo
<1>6. UsedBy(rx, n) = e - h
  <2>1. \A k \in h + 1 .. N : UnitsBefore(rx, k) = UnitsTo(q, k)
    <3>1. \A k \in h + 1 .. N : k \in 0 .. Len(rx.queue)
      BY <1>1, <1>3
    <3> QED  BY <1>1, <3>1, UnitsToIs
  <2>2. {k \in rx.head + 1 .. Len(rx.queue) : UnitsBefore(rx, k) <= n} = h + 1 .. e
    BY <1>1, <1>2, <1>3, <1>5, <2>1
  <2>3. Cardinality(h + 1 .. e) = IF h + 1 > e THEN 0 ELSE e - (h + 1) + 1
    BY <1>3, <1>5, FS_Interval
  <2>4. UsedBy(rx, n) = Cardinality(h + 1 .. e)
    BY <2>2, Zenon DEF UsedBy
  <2>5. e \in Nat /\ h <= e
    BY <1>3, <1>5
  <2> HIDE <2>2
  <2> QED  BY <1>3, <2>3, <2>4, <2>5
<1>7. rx.head + UsedBy(rx, n) = e
  BY <1>2, <1>3, <1>5, <1>6
<1>8. UnitsBefore(rx, e) = UnitsTo(q, e)
  <2>1. e \in 0 .. Len(rx.queue)
    BY <1>1, <1>3
  <2> QED  BY <1>1, <2>1, UnitsToIs
<1> DEFINE to == ConsumedUpto(rx, n, e)
<1>9. Same(rx, to, Queueing) /\ to.queue = Cut(q, h, e, n) /\ to.head = e /\ to.fillUsed = rx.fillUsed
  <2>1. rx.head = h
    BY <1>2
  <2>2. to = [rx EXCEPT !.head = e,
                        !.queue = [k \in DOMAIN rx.queue |->
                           IF k \in rx.head + 1 .. e THEN Piece("Copy", <<>>, 0)
                           ELSE IF k = e + 1
                           THEN [rx.queue[k] EXCEPT !.data = From(rx.queue[k].data, n - UnitsBefore(rx, e))]
                           ELSE rx.queue[k]]]
    BY DEF ConsumedUpto
  <2>3. to = [rx EXCEPT !.head = e, !.queue = Cut(q, h, e, n)]
    BY <1>1, <1>8, <2>1, <2>2 DEF Cut, Emptied
  <2> HIDE DEF to
  <2> QED  BY <2>3 DEF QueueOk, RxFields, Same, Queueing
<1> HIDE DEF to
<1>10. PICK g : g = Cut(q, h, e, n)
  OBVIOUS
<1>11. DataOf(q) = CipherPending(rx)
  BY <1>1, PendingIs
<1>12. /\ g \in Seq(Pieces) /\ Len(g) = N /\ DataOf(g) = From(DataOf(q), n)
       /\ \A k \in 1 .. e : g[k].data = <<>>
  <2>1. \A k \in 1 .. h : q[k].data = <<>>
    BY <1>2
  <2>2. UnitsTo(q, e) <= n
    <3>1. CASE e = h
      BY <1>4, <3>1
    <3>2. CASE e # h
      <4>1. e \in h + 1 .. N
        BY <1>3, <1>5, <3>2
      <4> QED  BY <1>5, <4>1
    <3> QED  BY <3>1, <3>2
  <2>3. CASE e = N
    <3>1. n <= Len(DataOf(q)) /\ UnitsTo(q, Len(q)) <= n
      BY <1>3, <1>11, <2>2, <2>3
    <3>2. /\ Cut(q, h, Len(q), n) \in Seq(Pieces) /\ Len(Cut(q, h, Len(q), n)) = Len(q)
          /\ DataOf(Cut(q, h, Len(q), n)) = From(DataOf(q), n)
      BY <2>1, <3>1, CutAll
    <3>3. \A k \in 1 .. Len(q) : Cut(q, h, Len(q), n)[k].data = <<>>
      BY <2>1, <3>1, CutAll
    <3> QED  BY <1>3, <1>10, <2>3, <3>2, <3>3
  <2>4. CASE e # N
    <3>1. e < Len(q) /\ e \in h .. Len(q) /\ e \in Nat
      BY <1>3, <1>5, <2>4
    <3>2. PICK m \in Nat : m = e + 1 /\ m \in h + 1 .. N /\ ~(m <= e) /\ m <= Len(q)
      BY <1>3, <3>1
    <3>3. ~(UnitsTo(q, m) <= n)
      BY <1>5, <3>2
    <3>4. UnitsTo(q, e) \in Nat /\ Len(q[m].data) \in Nat
          /\ UnitsTo(q, m) = UnitsTo(q, e) + Len(q[m].data)
      BY <3>1, <3>2, UnitsToNext
    <3>5. n <= UnitsTo(q, e + 1)
      <4>1. PICK v \in Nat : v = UnitsTo(q, m)
        BY <3>4
      <4> QED  BY <3>2, <3>3, <4>1
    <3>6. /\ Cut(q, h, e, n) \in Seq(Pieces) /\ Len(Cut(q, h, e, n)) = Len(q)
          /\ DataOf(Cut(q, h, e, n)) = From(DataOf(q), n)
      BY <2>1, <2>2, <3>1, <3>5, CutSome
    <3>7. \A k \in 1 .. e : Cut(q, h, e, n)[k].data = <<>>
      BY <2>1, <2>2, <3>1, <3>5, CutSome
    <3> QED  BY <1>3, <1>10, <3>6, <3>7
  <2> QED  BY <2>3, <2>4
<1>13. to.queue \in Seq(Pieces) /\ to.head \in 0 .. Len(to.queue) /\ to.fillUsed \in Nat
  BY <1>3, <1>5, <1>9, <1>10, <1>12 DEF QueueOk
<1>14. \A k \in 1 .. to.head : to.queue[k].data = <<>>
  BY <1>9, <1>10, <1>12
<1>15. Queues(rx, to, DataOf(to.queue))
  BY <1>9, <1>13, <1>14, Requeued
<1> QED  BY <1>7, <1>9, <1>10, <1>11, <1>12, <1>15 DEF to

LEMMA TidiedIs ==
  ASSUME NEW rx, QueueOk(rx)
  PROVE  Queues(rx, Tidied(rx), CipherPending(rx))
<1>1. Queues(rx, rx, CipherPending(rx))
  BY SameIs DEF Queues
<1>2. CASE Live(rx) = <<>>
  <2>1. CipherPending(rx) = <<>>
    BY <1>2, PendingIs, DataOfNone
  <2>2. Tidied(rx) = ClearCipherQueue(rx)
    BY <1>2 DEF Tidied
  <2> QED  BY <2>1, <2>2, ClearIs
<1>3. CASE Live(rx) # <<>>
  <2>1. Tidied(rx) \in {rx, ReclaimConsumed(rx)}
    BY <1>3 DEF Tidied
  <2> QED  BY <1>1, <2>1, ReclaimIs
<1> QED  BY <1>2, <1>3

LEMMA ConsumeIs ==
  ASSUME NEW rx, QueueOk(rx), NEW n \in Nat, n <= Len(CipherPending(rx))
  PROVE  Queues(rx, ConsumeCipher(rx, n), From(CipherPending(rx), n))
<1>0. PICK d \in Datas : d = CipherPending(rx)
  BY PendingIs
<1>1. CASE n = 0
  <2>1. From(d, 0) = d
    <3>1. <<>> \in Datas /\ Joined(<<>>, d) = d /\ Len(<<>>) = 0
      BY DataNone, DataJoins
    <3> QED  BY <3>1, FromJoined
  <2>2. ConsumeCipher(rx, n) = rx
    BY <1>1 DEF ConsumeCipher
  <2> QED  BY <1>0, <1>1, <2>1, <2>2, SameIs DEF Queues
<1>2. CASE n # 0
  <2>1. PICK to : to = ConsumedUpto(rx, n, rx.head + UsedBy(rx, n))
    OBVIOUS
  <2>2. ConsumeCipher(rx, n) = Tidied(to)
    BY <1>2, <2>1 DEF ConsumeCipher
  <2>3. Queues(rx, to, From(CipherPending(rx), n))
    BY <2>1, ConsumedIs
  <2>4. QueueOk(to) /\ CipherPending(to) = From(CipherPending(rx), n)
    BY <2>3 DEF Queues
  <2>5. Queues(to, Tidied(to), CipherPending(to))
    BY <2>4, TidiedIs
  <2> QED  BY <2>2, <2>3, <2>4, <2>5, QueuesOn
<1> QED  BY <1>1, <1>2

-----------------------------------------------------------------------------
(* The records of the peer's stream.                                       *)

LEMMA PlainNat ==
  ASSUME NEW k \in Nat
  PROVE  PlainBefore(k) \in Nat
<1> DEFINE D == {x \in 1 .. k : stream[x] = "data"}
<1>1. IsFiniteSet(1 .. k)
  BY FS_Interval
<1>2. IsFiniteSet(D)
  BY <1>1, FS_Subset
<1>3. Cardinality(D) \in Nat
  BY <1>2, FS_CardinalityType
<1>4. PlainBefore(k) = 2 * Cardinality(D)
  BY DEF PlainBefore, RecordPlain
<1> HIDE DEF D
<1> QED  BY <1>3, <1>4

\* The plaintext before a record is that before the one ahead of it, and its own.
LEMMA PlainNext ==
  ASSUME stream \in Seq(RecordKinds), NEW k \in Nat, NEW j \in Nat, j = k + 1, j <= Len(stream)
  PROVE  /\ PlainBefore(k) \in Nat
         /\ PlainBefore(j) = PlainBefore(k) + (IF stream[j] = "data" THEN RecordPlain ELSE 0)
<1> DEFINE D(i) == {x \in 1 .. i : stream[x] = "data"}
<1>1. IsFiniteSet(D(k)) /\ Cardinality(D(k)) \in Nat
  <2>1. IsFiniteSet(1 .. k)
    BY FS_Interval
  <2> QED  BY <2>1, FS_Subset, FS_CardinalityType
<1>2. j \notin D(k)
  OBVIOUS
<1>3. D(j) = IF stream[j] = "data" THEN D(k) \cup {j} ELSE D(k)
  OBVIOUS
<1>4. PlainBefore(k) = 2 * Cardinality(D(k)) /\ PlainBefore(j) = 2 * Cardinality(D(j))
  BY DEF PlainBefore, RecordPlain
<1> HIDE DEF D
<1>5. Cardinality(D(k) \cup {j}) = Cardinality(D(k)) + 1
  BY <1>1, <1>2, FS_AddElement
<1> QED  BY <1>1, <1>3, <1>4, <1>5 DEF RecordPlain

LEMMA PlainNone ==
  PlainBefore(0) = 0
<1>1. {i \in 1 .. 0 : stream[i] = "data"} = {}
  OBVIOUS
<1> QED  BY <1>1, FS_EmptySet DEF PlainBefore, RecordPlain

\* Records further on end no earlier, and have no less plaintext before them.
LEMMA FurtherOn ==
  ASSUME stream \in Seq(RecordKinds), NEW k \in Nat, NEW n \in Nat, k + n <= Len(stream)
  PROVE  /\ Ends(k) \in Nat /\ Ends(k + n) \in Nat /\ Ends(k) <= Ends(k + n)
         /\ PlainBefore(k) \in Nat /\ PlainBefore(k + n) \in Nat
         /\ PlainBefore(k) <= PlainBefore(k + n)
<1> DEFINE P(i) == PlainBefore(i) \in Nat
           S == {m \in Nat : k + m <= Len(stream) =>
                   /\ Ends(k) <= Ends(k + m)
                   /\ PlainBefore(k) \in Nat /\ PlainBefore(k + m) \in Nat
                   /\ PlainBefore(k) <= PlainBefore(k + m)}
<1>0. Len(stream) \in Nat /\ \A i \in 0 .. Len(stream) : Ends(i) \in Nat
  BY EndsAre
<1>1. 0 \in S
  <2>1. PlainBefore(k) \in Nat
    BY PlainNat
  <2> QED  BY <1>0, <2>1
<1>2. ASSUME NEW m \in S PROVE m + 1 \in S
  <2> SUFFICES ASSUME k + (m + 1) <= Len(stream)
               PROVE  /\ Ends(k) <= Ends(k + (m + 1))
                      /\ PlainBefore(k) \in Nat /\ PlainBefore(k + (m + 1)) \in Nat
                      /\ PlainBefore(k) <= PlainBefore(k + (m + 1))
    OBVIOUS
  <2>1. PICK j \in Nat : j = k + m
    OBVIOUS
  <2>2. PICK i \in Nat : i = k + (m + 1)
    OBVIOUS
  <2>3. i \in 1 .. Len(stream) /\ i - 1 = j /\ j \in 0 .. Len(stream) /\ i = j + 1 /\ m \in Nat
    BY <1>0, <2>1, <2>2
  <2>4. Ends(i) = Ends(j) + Size(stream[i])
    BY <2>3, EndsAre
  <2>5. Size(stream[i]) \in Nat
    BY SizeIs
  <2>6. /\ PlainBefore(j) \in Nat
        /\ PlainBefore(i) = PlainBefore(j) + (IF stream[i] = "data" THEN RecordPlain ELSE 0)
    BY <2>3, PlainNext
  <2>7. Ends(k) <= Ends(j) /\ PlainBefore(k) \in Nat /\ PlainBefore(k) <= PlainBefore(j)
    BY <1>0, <2>1, <2>3
  <2>8. Ends(k) \in Nat /\ Ends(j) \in Nat
    BY <1>0, <2>3
  <2> HIDE DEF S
  <2>9. Ends(k) <= Ends(i)
    BY <2>4, <2>5, <2>7, <2>8
  <2>10. PlainBefore(i) \in Nat /\ PlainBefore(k) <= PlainBefore(i)
    BY <2>6, <2>7 DEF RecordPlain
  <2> QED  BY <2>2, <2>7, <2>9, <2>10
<1> HIDE DEF S
<1>3. S = Nat
  BY <1>1, <1>2, Induct DEF S
<1>4. PICK i \in Nat : i = k + n
  OBVIOUS
<1>5. k \in 0 .. Len(stream) /\ i \in 0 .. Len(stream)
  BY <1>0, <1>4
<1>6. n \in S
  BY <1>3
<1> QED  BY <1>0, <1>4, <1>5, <1>6 DEF S

\* What the library opens of n units that begin with a record: whole records, and
\* their plaintext.
Loads(o, read, n) ==
  /\ o.records \in Nat /\ read + o.records <= Len(stream)
  /\ o.units \in Nat /\ o.units <= n
  /\ o.units = Ends(read + o.records) - Ends(read)
  /\ o.plain = Interval(PlainBefore(read), PlainBefore(read + o.records) - PlainBefore(read))

LEMMA NothingLoads ==
  ASSUME stream \in Seq(RecordKinds), NEW read \in Nat, read <= Len(stream), NEW n \in Nat, NEW is
  PROVE  Loads(OpensNothing(is), read, n)
<1> DEFINE o == OpensNothing(is)
<1>1. o.records = 0 /\ o.units = 0 /\ o.plain = <<>>
  BY DEF OpensNothing
<1> HIDE DEF o
<1>2. read + o.records = read /\ Len(stream) \in Nat
  BY <1>1
<1>3. Ends(read) \in Nat /\ PlainBefore(read) \in Nat
  <2>1. read + 0 <= Len(stream)
    OBVIOUS
  <2> QED  BY <2>1, FurtherOn
<1>4. Interval(PlainBefore(read), 0) = <<>>
  BY <1>3, IntervalNone
<1>5. PlainBefore(read) - PlainBefore(read) = 0 /\ Ends(read) - Ends(read) = 0
  BY <1>3
<1>6. o.plain = Interval(PlainBefore(read), PlainBefore(read) - PlainBefore(read))
  BY <1>1, <1>4, <1>5
<1>7. o.units = Ends(read) - Ends(read) /\ o.records \in Nat /\ o.units \in Nat /\ o.units <= n
  BY <1>1, <1>5
<1>8. read + o.records <= Len(stream)
  BY <1>2
<1>9. Loads(o, read, n)
  BY <1>2, <1>6, <1>7, <1>8 DEF Loads
<1> QED  BY <1>9 DEF o

LEMMA RecordsLoad ==
  ASSUME stream \in Seq(RecordKinds), NEW read \in Nat, read <= Len(stream), NEW n \in Nat,
         NEW room \in Nat, NEW most \in Fitting(read, n, room)
  PROVE  Loads(OpensRecords(read, most, Behind(read, most, n)), read, n)
<1> DEFINE then == Behind(read, most, n)
           o    == OpensRecords(read, most, then)
<1>0. most \in Nat /\ read + most <= Len(stream) /\ UnitsOf(read, most) <= n /\ Len(stream) \in Nat
  <2>1. Len(stream) \in Nat /\ read + 0 = read
    OBVIOUS
  <2>2. Ends(read) \in Nat
    BY <2>1, FurtherOn
  <2>3. CASE most = 0
    BY <2>1, <2>2, <2>3 DEF UnitsOf
  <2>4. CASE most # 0
    BY <2>1, <2>4 DEF Fitting, IsWhole
  <2> QED  BY <2>3, <2>4
<1>1. PICK h \in Nat : h = read + most
  BY <1>0
<1>2. /\ Ends(read) \in Nat /\ Ends(h) \in Nat /\ Ends(read) <= Ends(h)
      /\ PlainBefore(read) \in Nat /\ PlainBefore(h) \in Nat
      /\ PlainBefore(read) <= PlainBefore(h)
  BY <1>0, <1>1, FurtherOn
<1>3. o.plain = Interval(PlainBefore(read), PlainBefore(h) - PlainBefore(read))
  BY <1>1 DEF OpensRecords
<1>4. CASE then = "close"
  <2>1. /\ read + (most + 1) <= Len(stream) /\ UnitsOf(read, most + 1) <= n
        /\ stream[read + most + 1] = "close"
    BY <1>4 DEF Behind, IsWhole
  <2>2. o.records = most + 1 /\ o.units = UnitsOf(read, most + 1)
    BY <1>4 DEF OpensRecords
  <2> HIDE DEF o, then
  <2>3. PICK k \in Nat : k = h + 1
    BY <1>1
  <2>4. read + o.records = k /\ k = read + (most + 1) /\ read + most + 1 = k
    BY <1>0, <1>1, <2>2, <2>3
  <2>5. k <= Len(stream) /\ stream[k] = "close"
    BY <2>1, <2>4
  <2>6. PlainBefore(k) = PlainBefore(h)
    <3>1. PlainBefore(k) = PlainBefore(h) + (IF stream[k] = "data" THEN RecordPlain ELSE 0)
      BY <1>1, <2>3, <2>5, PlainNext
    <3> QED  BY <1>2, <2>5, <3>1
  <2>7. Ends(k) \in Nat /\ Ends(read) <= Ends(k)
    <3>1. most + 1 \in Nat /\ read + (most + 1) <= Len(stream)
      BY <1>0, <2>1
    <3> QED  BY <2>4, <3>1, FurtherOn
  <2>8. o.units = Ends(k) - Ends(read) /\ o.units <= n
    BY <2>1, <2>2, <2>4 DEF UnitsOf
  <2>9. o.records \in Nat /\ o.units \in Nat
    BY SMTT(60), <1>0, <1>2, <2>2, <2>7, <2>8
  <2>10. o.plain = Interval(PlainBefore(read), PlainBefore(k) - PlainBefore(read))
    BY <1>3, <2>6
  <2>11. read + o.records = k
    BY <2>4
  <2>12. Loads(o, read, n)
    BY <2>5, <2>8, <2>9, <2>10, <2>11 DEF Loads
  <2> QED  BY <2>12 DEF o, then
<1>5. CASE then # "close"
  <2>1. o.records = most /\ o.units = UnitsOf(read, most)
    BY <1>0, <1>5 DEF OpensRecords
  <2> HIDE DEF o, then
  <2>2. read + o.records = h
    BY <1>1, <2>1
  <2>3. o.units = Ends(h) - Ends(read) /\ o.units <= n
    BY <1>0, <1>1, <2>1 DEF UnitsOf
  <2>4. o.records \in Nat /\ o.units \in Nat
    BY <1>0, <1>2, <2>1, <2>3
  <2>5. h <= Len(stream)
    BY <1>0, <1>1
  <2>6. Loads(o, read, n)
    BY <1>3, <2>2, <2>3, <2>4, <2>5 DEF Loads
  <2> QED  BY <2>6 DEF o, then
<1> QED  BY <1>4, <1>5

LEMMA FittingIs ==
  ASSUME stream \in Seq(RecordKinds), NEW read \in Nat, read <= Len(stream), NEW n \in Nat,
         NEW room \in Nat
  PROVE  Greatest(Fitting(read, n, room)) \in Fitting(read, n, room)
<1>0. Len(stream) \in Nat /\ read + 0 = read
  OBVIOUS
<1>2. 0 \in Fitting(read, n, room)
  BY DEF Fitting
<1>3. Fitting(read, n, room) \in SUBSET (0 .. Len(stream))
  BY <1>0 DEF Fitting
<1> QED  BY <1>0, <1>2, <1>3, GreatestIs

\* The library opens whole records of a queue that begins with one.
LEMMA OpenedIs ==
  ASSUME stream \in Seq(RecordKinds), NEW c, c.read \in Nat, c.read <= Len(stream),
         NEW n \in Nat, CipherPending(c.rx) = Interval(Ends(c.read), n), NEW room \in Nat
  PROVE  Loads(Opened(c, room), c.read, n)
<1> DEFINE upto == OpensRecords(c.read, Greatest(Fitting(c.read, n, room)),
                               Behind(c.read, Greatest(Fitting(c.read, n, room)), n))
<1>1. Len(CipherPending(c.rx)) = n
  <2>1. c.read + 0 <= Len(stream)
    OBVIOUS
  <2>2. Ends(c.read) \in Nat
    BY <2>1, FurtherOn
  <2> QED  BY <2>2, IntervalIs
<1>2. Opened(c, room) \in {OpensNothing("Close"), OpensNothing("Error"), upto}
  BY <1>1 DEF Opened
<1>3. Loads(upto, c.read, n)
  BY FittingIs, RecordsLoad
<1> HIDE DEF upto
<1>4. Loads(OpensNothing("Close"), c.read, n) /\ Loads(OpensNothing("Error"), c.read, n)
  BY NothingLoads
<1> QED  BY <1>2, <1>3, <1>4

-----------------------------------------------------------------------------
(* A socket that gives the peer's plaintext in order.                      *)

HeldEnds == {"Nothing", "ReadFailed", "Shutdown"}

Shaped(c) ==
  /\ IsSocket(c)
  /\ c.read \in Nat /\ c.read <= Len(stream) /\ c.part \in Nat
  /\ QueueOk(c.rx) /\ c.rx.afterHeld \in HeldEnds

\* What was given and what is held are the plaintext of the records read.
Plain(c) ==
  \E g, m \in Nat :
    /\ c.given = Interval(0, g) /\ c.rx.held = Interval(g, m)
    /\ PlainBefore(c.read) = g + m
    /\ c.ssl = "Shutdown" => m = 0

Place(c) == Ends(c.read) + c.part

\* The queue goes on where the library has read to, up to n units before what was taken.
InStep(c, n) ==
  /\ c.taken \in Nat
  /\ \E p \in Nat : CipherPending(c.rx) = Interval(Place(c), p) /\ Place(c) + p + n = c.taken

Orderly(c, n) == Shaped(c) /\ Plain(c) /\ InStep(c, n)

LEMMA PlaceIs ==
  ASSUME stream \in Seq(RecordKinds), NEW c, Shaped(c)
  PROVE  /\ Ends(c.read) \in Nat /\ Place(c) \in Nat /\ PlainBefore(c.read) \in Nat
         /\ Len(stream) \in Nat /\ c.part \in Nat
<1>1. c.read \in Nat /\ c.read + 0 <= Len(stream) /\ c.part \in Nat
  BY DEF Shaped
<1>2. Ends(c.read) \in Nat /\ PlainBefore(c.read) \in Nat
  BY <1>1, FurtherOn
<1> QED  BY <1>1, <1>2 DEF Place

\* Plaintext held over is no part of the queue.
LEMMA HeldApart ==
  ASSUME NEW rx, QueueOk(rx), NEW to, Same(rx, to, {"held", "afterHeld", "endOfStream"})
  PROVE  QueueOk(to) /\ CipherPending(to) = CipherPending(rx) /\ to.completion = rx.completion
<1>1. DOMAIN to = RxFields /\ DOMAIN rx = RxFields
  BY DEF Same, QueueOk
<1>2. /\ to.queue = rx.queue /\ to.head = rx.head /\ to.fillUsed = rx.fillUsed
      /\ to.completion = rx.completion
  BY <1>1 DEF Same, RxFields
<1> QED  BY <1>1, <1>2 DEF QueueOk, CipherPending, Live

\* What stays as it was.
Reading == {"rx", "read", "part", "given", "taken", "ssl"}

LEMMA OrderlyStays ==
  ASSUME NEW c, NEW d, NEW n, Orderly(c, n), Same(c, d, Fields \ Reading)
  PROVE  /\ Orderly(d, n) /\ d.rx = c.rx /\ d.part = c.part /\ d.ssl = c.ssl /\ d.given = c.given
         /\ d.read = c.read /\ d.taken = c.taken
<1>1. DOMAIN c = Fields /\ DOMAIN d = Fields
  BY DEF Orderly, Shaped, IsSocket, Same
<1>2. /\ d.rx = c.rx /\ d.part = c.part /\ d.ssl = c.ssl /\ d.given = c.given
      /\ d.read = c.read /\ d.taken = c.taken
  BY <1>1 DEF Same, Reading, Fields
<1>3. Place(d) = Place(c)
  BY <1>2 DEF Place
<1>4. Shaped(d)
  BY <1>1, <1>2 DEF Orderly, Shaped, IsSocket
<1>5. Plain(d)
  BY <1>2 DEF Orderly, Plain
<1>6. InStep(d, n)
  BY <1>2, <1>3 DEF Orderly, InStep
<1> QED  BY <1>2, <1>4, <1>5, <1>6 DEF Orderly

LEMMA ShapedStays ==
  ASSUME NEW c, NEW d, NEW n, Shaped(c), InStep(c, n), Same(c, d, Fields \ (Reading \ {"given", "ssl"}))
  PROVE  /\ Shaped(d) /\ InStep(d, n) /\ d.rx = c.rx /\ d.part = c.part
         /\ d.read = c.read /\ d.taken = c.taken
<1>1. DOMAIN c = Fields /\ DOMAIN d = Fields
  BY DEF Shaped, IsSocket, Same
<1>2. d.rx = c.rx /\ d.part = c.part /\ d.read = c.read /\ d.taken = c.taken
  BY <1>1 DEF Same, Reading, Fields
<1>3. Place(d) = Place(c)
  BY <1>2 DEF Place
<1>4. Shaped(d)
  BY <1>1, <1>2 DEF Shaped, IsSocket
<1>6. InStep(d, n)
  BY <1>2, <1>3 DEF InStep
<1> QED  BY <1>2, <1>4, <1>6

\* The end of the plaintext that is held.
Unbroken(c) == c.ssl # "Shutdown"

LEMMA TakeHeldIs ==
  ASSUME stream \in Seq(RecordKinds), NEW c, NEW n, Orderly(c, n), Unbroken(c), NEW room \in Nat
  PROVE  LET d == TakeHeld(c, room) IN
         Orderly(d, n) /\ d.part = c.part /\ d.rx.completion = c.rx.completion
<1>1. PICK g, m \in Nat :
        /\ c.given = Interval(0, g) /\ c.rx.held = Interval(g, m)
        /\ PlainBefore(c.read) = g + m
  BY DEF Orderly, Plain
<1>2. PICK k \in Nat : k = Least(room, m) /\ k <= m
  BY DEF Least
<1>3. Len(c.rx.held) = m
  BY <1>1, IntervalIs
<1>4. HeldFor(c.rx, room) = Interval(g, k)
  BY <1>1, <1>2, <1>3, IntervalCut DEF HeldFor
<1>5. Len(HeldFor(c.rx, room)) = k
  BY <1>4, IntervalIs
<1>6. PICK h \in Nat : h = g + k
  OBVIOUS
<1>7. PICK r \in Nat : r = m - k
  BY <1>2
<1>8. From(c.rx.held, Len(HeldFor(c.rx, room))) = Interval(h, r)
  BY ONLY <1>1, <1>2, <1>5, <1>6, <1>7, IntervalCut
<1>9. c.given \o HeldFor(c.rx, room) = Interval(0, h)
  <2>1. Joined(Interval(0, g), Interval(0 + g, k)) = Interval(0, g + k)
    BY IntervalJoin
  <2>2. 0 + g = g
    OBVIOUS
  <2> QED  BY <1>1, <1>4, <1>6, <2>1, <2>2 DEF Joined
<1> DEFINE took == [c EXCEPT !.given = @ \o HeldFor(c.rx, room), !.rx = HeldTaken(@, room)]
           last == [took EXCEPT !.ssl = took.rx.afterHeld, !.rx.afterHeld = "Nothing"]
<1>10. DOMAIN c = Fields /\ DOMAIN c.rx = RxFields /\ QueueOk(c.rx)
  BY DEF Orderly, Shaped, IsSocket, QueueOk
<1>11. /\ DOMAIN took = Fields /\ Same(c, took, {"given", "rx"})
       /\ took.given = Interval(0, h) /\ took.rx = HeldTaken(c.rx, room)
  BY <1>9, <1>10 DEF Same, Fields
<1>12. /\ Same(c.rx, HeldTaken(c.rx, room), {"held"})
       /\ HeldTaken(c.rx, room).held = Interval(h, r)
       /\ HeldTaken(c.rx, room).afterHeld = c.rx.afterHeld
  BY <1>8, <1>10 DEF Same, RxFields, HeldTaken
<1> HIDE DEF took
<1>13. /\ Same(took, last, {"ssl", "rx"}) /\ last.ssl = c.rx.afterHeld
       /\ Same(took.rx, last.rx, {"afterHeld"}) /\ last.rx.afterHeld = "Nothing"
       /\ last.rx.held = took.rx.held
  BY <1>10, <1>11, <1>12 DEF Same, Fields, RxFields
<1> HIDE DEF last
<1>14. TakeHeld(c, room) = IF took.rx.held = <<>> /\ took.rx.afterHeld # "Nothing" THEN last ELSE took
  BY DEF TakeHeld, took, last
<1>15. ASSUME NEW d \in {took, last}
       PROVE  /\ Same(c, d, {"given", "rx", "ssl"}) /\ Same(c.rx, d.rx, {"held", "afterHeld", "endOfStream"})
              /\ d.given = Interval(0, h) /\ d.rx.held = Interval(h, r)
              /\ d.rx.afterHeld \in HeldEnds
  <2>1. c.rx.afterHeld \in HeldEnds
    BY DEF Orderly, Shaped
  <2>2. CASE d = took
    BY <1>11, <1>12, <2>1, <2>2 DEF Same
  <2>3. CASE d = last
    <3>1. Same(c, d, {"given", "rx", "ssl"})
      BY <1>11, <1>13, <2>3, SameOnward
    <3>2. Same(c.rx, d.rx, {"held", "afterHeld", "endOfStream"})
      BY <1>11, <1>12, <1>13, <2>3, SameOnward
    <3>3. d.given = took.given
      BY <1>11, <1>13, <2>3 DEF Same, Fields
    <3> QED  BY <1>11, <1>12, <1>13, <2>3, <3>1, <3>2, <3>3 DEF HeldEnds
  <2> QED  BY <2>2, <2>3
<1>16. ASSUME NEW d \in {took, last}, d.ssl = "Shutdown" => r = 0
       PROVE  Orderly(d, n) /\ d.part = c.part /\ d.rx.completion = c.rx.completion
  <2>1. Same(c, d, {"given", "rx", "ssl"}) /\ DOMAIN d = Fields
    BY <1>10, <1>15 DEF Same
  <2>2. d.read = c.read /\ d.part = c.part /\ d.taken = c.taken
    BY <1>10, <2>1 DEF Same, Fields
  <2>3. QueueOk(d.rx) /\ CipherPending(d.rx) = CipherPending(c.rx) /\ d.rx.completion = c.rx.completion
    BY <1>10, <1>15, HeldApart
  <2>4. Shaped(d)
    BY <1>15, <2>1, <2>2, <2>3 DEF Orderly, Shaped, IsSocket
  <2>5. h + r = g + m
    BY <1>2, <1>6, <1>7
  <2>6. Plain(d)
    BY <1>1, <1>15, <1>16, <2>2, <2>5 DEF Plain
  <2>7. InStep(d, n)
    BY <2>2, <2>3 DEF Orderly, InStep, Place
  <2> QED  BY <2>2, <2>3, <2>4, <2>6, <2>7 DEF Orderly
<1>17. took.ssl = c.ssl
  BY <1>10, <1>11 DEF Same, Fields
<1>18. took.rx.held = <<>> => r = 0
  <2>1. Len(Interval(h, r)) = r /\ Len(<<>>) = 0
    BY IntervalIs
  <2> QED  BY <1>11, <1>12, <2>1
<1> QED  BY <1>14, <1>16, <1>17, <1>18 DEF Unbroken

\* The library opens whole records: what it has of them is neither given nor held yet.
LEMMA OpenIs ==
  ASSUME stream \in Seq(RecordKinds), NEW c, NEW n \in Nat, Shaped(c), InStep(c, n), c.part = 0,
         NEW room \in Nat
  PROVE  LET d == Open(c, room).c
             o == Open(c, room).o IN
         /\ Shaped(d) /\ InStep(d, n) /\ d.part = 0
         /\ d.rx.held = c.rx.held /\ d.rx.completion = c.rx.completion
         /\ d.given = c.given /\ d.ssl = c.ssl
         /\ \E l \in Nat : /\ o.plain = Interval(PlainBefore(c.read), l)
                           /\ PlainBefore(d.read) = PlainBefore(c.read) + l
<1> DEFINE o == Opened(c, room)
           e == [c EXCEPT !.rx = ConsumeCipher(@, o.units), !.read = @ + o.records]
           w == Write(e, "ctl", o.replies)
<1>0. /\ Open(c, room).o = o /\ Open(c, room).c \in {e, w}
  BY DEF Open
<1>1. PICK p \in Nat : CipherPending(c.rx) = Interval(Place(c), p) /\ Place(c) + p + n = c.taken
  BY DEF InStep
<1>2. /\ DOMAIN c = Fields /\ QueueOk(c.rx) /\ c.read \in Nat /\ c.read <= Len(stream)
      /\ DOMAIN c.rx = RxFields
  BY DEF Shaped, IsSocket, QueueOk
<1>3. Place(c) = Ends(c.read) /\ Ends(c.read) \in Nat /\ PlainBefore(c.read) \in Nat
  BY PlaceIs DEF Place
<1>4. Loads(o, c.read, p)
  BY <1>1, <1>2, <1>3, OpenedIs
<1>5. PICK k \in Nat : k = c.read + o.records
  BY <1>2, <1>4 DEF Loads
<1>6. /\ k <= Len(stream) /\ o.units \in Nat /\ o.units <= p /\ o.units = Ends(k) - Ends(c.read)
      /\ o.plain = Interval(PlainBefore(c.read), PlainBefore(k) - PlainBefore(c.read))
      /\ o.records \in Nat
  BY <1>4, <1>5 DEF Loads
<1>7. /\ Ends(k) \in Nat /\ PlainBefore(k) \in Nat /\ PlainBefore(c.read) <= PlainBefore(k)
  BY <1>2, <1>5, <1>6, FurtherOn
<1>8. Len(CipherPending(c.rx)) = p
  BY <1>1, <1>3, IntervalIs
<1>9. Queues(c.rx, ConsumeCipher(c.rx, o.units), From(CipherPending(c.rx), o.units))
  BY <1>2, <1>6, <1>8, ConsumeIs
<1>10. PICK u \in Nat : u = o.units
  BY <1>6
<1>11. PICK q \in Nat : q = p - u
  BY <1>6, <1>10
<1>12. From(CipherPending(c.rx), o.units) = Interval(Ends(k), q)
  <2>1. u \in 0 .. p /\ Ends(c.read) + u = Ends(k)
    BY <1>3, <1>6, <1>7, <1>10
  <2>2. From(Interval(Ends(c.read), p), u) = Interval(Ends(c.read) + u, p - u)
    <3>1. PICK b \in Nat : b = Ends(c.read)
      BY <1>3
    <3>2. From(Interval(b, p), u) = Interval(b + u, p - u)
      BY <2>1, IntervalCut
    <3> QED  BY <3>1, <3>2
  <2> QED  BY <1>1, <1>3, <1>10, <1>11, <2>1, <2>2
<1>13. Ends(k) + q + n = c.taken
  <2> HIDE DEF o
  <2>1. Ends(c.read) + p + n = c.taken
    BY <1>1, <1>3
  <2>2. u = Ends(k) - Ends(c.read)
    BY <1>6, <1>10
  <2>3. Ends(k) + q = Ends(c.read) + p
    <3>1. PICK a \in Nat, b \in Nat : a = Ends(k) /\ b = Ends(c.read)
      BY <1>3, <1>7
    <3>2. u = a - b /\ q = p - u
      BY ONLY <1>11, <2>2, <3>1
    <3>3. a + q = b + p
      BY ONLY <3>2, a \in Nat, b \in Nat, p \in Nat, u \in Nat, q \in Nat
    <3> QED  BY ONLY <3>1, <3>3
  <2> QED  BY <2>1, <2>3
<1> HIDE DEF o
<1>14. /\ DOMAIN e = Fields /\ Same(c, e, {"rx", "read"})
       /\ e.rx = ConsumeCipher(c.rx, o.units) /\ e.read = k
  BY <1>2, <1>5 DEF Same, Fields
<1> HIDE DEF e
<1>15. /\ e.part = 0 /\ e.given = c.given /\ e.ssl = c.ssl /\ e.taken = c.taken
  BY <1>2, <1>14 DEF Same, Fields
<1>16. /\ QueueOk(e.rx) /\ e.rx.held = c.rx.held /\ e.rx.afterHeld = c.rx.afterHeld
       /\ e.rx.completion = c.rx.completion /\ CipherPending(e.rx) = Interval(Ends(k), q)
  BY <1>2, <1>9, <1>12, <1>14 DEF Queues, Same, RxFields, Queueing
<1>17. Shaped(e)
  BY <1>6, <1>14, <1>15, <1>16 DEF Shaped, IsSocket
<1>18. InStep(e, n)
  <2>1. Place(e) = Ends(k)
    BY <1>7, <1>14, <1>15 DEF Place
  <2>2. c.taken \in Nat
    BY DEF InStep
  <2> QED  BY <1>13, <1>15, <1>16, <2>1, <2>2 DEF InStep
<1>19. PICK l \in Nat : l = PlainBefore(k) - PlainBefore(c.read)
  BY <1>3, <1>7
<1>20. o.plain = Interval(PlainBefore(c.read), l) /\ PlainBefore(e.read) = PlainBefore(c.read) + l
  BY <1>3, <1>6, <1>7, <1>14, <1>19
<1>21. Same(e, w, Output) /\ IsSocket(e)
  <2>1. IsSocket(e)
    BY <1>17 DEF Shaped
  <2> QED  BY <2>1, WriteSame
<1> HIDE DEF w
<1>22. /\ Shaped(w) /\ InStep(w, n) /\ w.rx = e.rx /\ w.part = e.part /\ w.read = e.read
       /\ w.given = e.given /\ w.ssl = e.ssl
  <2>1. Same(e, w, Fields \ (Reading \ {"given", "ssl"}))
    BY <1>21 DEF Same, IsSocket, Fields, Reading, Output
  <2>2. w.given = e.given /\ w.ssl = e.ssl
    BY <1>21 DEF Same, IsSocket, Fields, Output
  <2> QED  BY <1>17, <1>18, <2>1, <2>2, ShapedStays
<1>23. ASSUME NEW d \in {e, w}
       PROVE  /\ Shaped(d) /\ InStep(d, n) /\ d.part = 0
              /\ d.rx.held = c.rx.held /\ d.rx.completion = c.rx.completion
              /\ d.given = c.given /\ d.ssl = c.ssl
              /\ PlainBefore(d.read) = PlainBefore(c.read) + l
  BY <1>15, <1>16, <1>17, <1>18, <1>20, <1>22
<1> QED  BY <1>0, <1>19, <1>20, <1>23

LEMMA NoneOfInterval ==
  ASSUME NEW g \in Nat, NEW m \in Nat, Interval(g, m) = <<>>
  PROVE  m = 0
BY IntervalIs

\* The end that the library found waits behind plaintext that is held.
LEMMA EndsBehindIs ==
  ASSUME stream \in Seq(RecordKinds), NEW c, NEW n, Orderly(c, n),
         NEW verdict \in {"ReadFailed", "Shutdown"}
  PROVE  LET d == EndsBehindHeld(c, verdict) IN
         Orderly(d, n) /\ d.part = c.part /\ d.rx.completion = c.rx.completion
<1> DEFINE late == [c EXCEPT !.rx.afterHeld = verdict]
           now  == [c EXCEPT !.ssl = verdict]
<1>1. DOMAIN c = Fields /\ DOMAIN c.rx = RxFields /\ QueueOk(c.rx)
  BY DEF Orderly, Shaped, IsSocket, QueueOk
<1>2. /\ DOMAIN late = Fields /\ Same(c, late, {"rx"}) /\ late.rx.afterHeld = verdict
      /\ Same(c.rx, late.rx, {"held", "afterHeld", "endOfStream"}) /\ late.rx.held = c.rx.held
  BY <1>1 DEF Same, Fields, RxFields
<1>3. DOMAIN now = Fields /\ Same(c, now, {"ssl"}) /\ now.ssl = verdict /\ now.rx = c.rx
  BY <1>1 DEF Same, Fields
<1> HIDE DEF late, now
<1>4. /\ late.read = c.read /\ late.part = c.part /\ late.taken = c.taken /\ late.given = c.given
      /\ late.ssl = c.ssl
  BY <1>1, <1>2 DEF Same, Fields
<1>5. /\ now.read = c.read /\ now.part = c.part /\ now.taken = c.taken /\ now.given = c.given
  BY <1>1, <1>3 DEF Same, Fields
<1>6. QueueOk(late.rx) /\ CipherPending(late.rx) = CipherPending(c.rx)
      /\ late.rx.completion = c.rx.completion
  BY <1>1, <1>2, HeldApart
<1>7. Orderly(late, n)
  <2>1. Shaped(late)
    BY <1>2, <1>4, <1>6 DEF Orderly, Shaped, IsSocket, HeldEnds
  <2>2. Plain(late)
    BY <1>2, <1>4 DEF Orderly, Plain
  <2>3. InStep(late, n)
    BY <1>4, <1>6 DEF Orderly, InStep, Place
  <2> QED  BY <2>1, <2>2, <2>3 DEF Orderly
<1>8. ASSUME c.rx.held = <<>>  PROVE Orderly(now, n)
  <2>1. Shaped(now)
    BY <1>3, <1>5 DEF Orderly, Shaped, IsSocket
  <2>2. Plain(now)
    <3>1. PICK g, m \in Nat :
            /\ c.given = Interval(0, g) /\ c.rx.held = Interval(g, m)
            /\ PlainBefore(c.read) = g + m
      BY DEF Orderly, Plain
    <3>2. m = 0
      BY <1>8, <3>1, NoneOfInterval
    <3> QED  BY <1>3, <1>5, <3>1, <3>2 DEF Plain
  <2>3. InStep(now, n)
    BY <1>3, <1>5 DEF Orderly, InStep, Place
  <2> QED  BY <2>1, <2>2, <2>3 DEF Orderly
<1>9. EndsBehindHeld(c, verdict) = IF c.rx.held # <<>> THEN late ELSE now
  BY DEF EndsBehindHeld, Terminal, late, now
<1> QED  BY <1>3, <1>4, <1>5, <1>6, <1>7, <1>8, <1>9

\* A verdict that is no orderly end.
LEMMA VerdictIs ==
  ASSUME NEW c, NEW n, Orderly(c, n), NEW d, Same(c, d, Fields \ (Reading \ {"ssl"})), d.ssl # "Shutdown"
  PROVE  Orderly(d, n) /\ d.part = c.part /\ d.rx = c.rx
<1>1. DOMAIN c = Fields /\ DOMAIN d = Fields
  BY DEF Orderly, Shaped, IsSocket, Same
<1>2. /\ d.rx = c.rx /\ d.part = c.part /\ d.given = c.given
      /\ d.read = c.read /\ d.taken = c.taken
  BY <1>1 DEF Same, Reading, Fields
<1>3. Shaped(d)
  BY <1>1, <1>2 DEF Orderly, Shaped, IsSocket
<1>4. Plain(d)
  BY <1>2 DEF Orderly, Plain
<1>5. InStep(d, n)
  BY <1>2 DEF Orderly, InStep, Place
<1> QED  BY <1>2, <1>3, <1>4, <1>5 DEF Orderly

LEMMA ConcludedIs ==
  ASSUME stream \in Seq(RecordKinds), NEW c, NEW n, Orderly(c, n), NEW opened, NEW produced
  PROVE  LET e == Concluded(opened, c, produced) IN
         /\ Orderly(e.c, n) /\ e.c.part = c.part /\ e.c.rx.completion = c.rx.completion
         /\ e.is = "Going" => e.c = c /\ ~produced
<1> DEFINE failed == Terminal(c, "ReadFailed")
<1>1. Orderly(failed, n) /\ failed.part = c.part /\ failed.rx = c.rx
  <2>1. Same(c, failed, {"ssl"}) /\ failed.ssl = "ReadFailed"
    BY DEF Terminal, Same, Orderly, Shaped, IsSocket, Fields
  <2>2. Same(c, failed, Fields \ (Reading \ {"ssl"}))
    BY <2>1 DEF Same, Fields, Reading
  <2> QED  BY <2>1, <2>2, VerdictIs
<1> HIDE DEF failed
<1>2. \/ Concluded(opened, c, produced) = [c |-> failed, is |-> "Thrown"]
      \/ \E v \in {"ReadFailed", "Shutdown"} :
           Concluded(opened, c, produced) = [c |-> EndsBehindHeld(c, v), is |-> "Done"]
      \/ /\ Concluded(opened, c, produced).c = c
         /\ Concluded(opened, c, produced).is = IF produced THEN "Done" ELSE "Going"
  BY DEF Concluded, failed
<1>3. CASE Concluded(opened, c, produced) = [c |-> failed, is |-> "Thrown"]
  BY <1>1, <1>3
<1>4. ASSUME NEW v \in {"ReadFailed", "Shutdown"},
             Concluded(opened, c, produced) = [c |-> EndsBehindHeld(c, v), is |-> "Done"]
      PROVE  LET e == Concluded(opened, c, produced) IN
             /\ Orderly(e.c, n) /\ e.c.part = c.part /\ e.c.rx.completion = c.rx.completion
             /\ e.is = "Going" => e.c = c /\ ~produced
  BY <1>4, EndsBehindIs
<1>5. CASE /\ Concluded(opened, c, produced).c = c
           /\ Concluded(opened, c, produced).is = IF produced THEN "Done" ELSE "Going"
  BY <1>5
<1> QED  BY <1>2, <1>3, <1>4, <1>5

\* A change of the queue.
LEMMA Requeues ==
  ASSUME NEW c, DOMAIN c = Fields, NEW F, NEW d, Same(c, d, F), F \subseteq {"rx", "error", "taken"}
  PROVE  /\ DOMAIN d = Fields /\ d.read = c.read /\ d.part = c.part /\ d.given = c.given
         /\ d.ssl = c.ssl /\ Place(d) = Place(c)
BY DEF Same, Fields, Place

\* A queue that stays, with the fill made ready, the end of the stream noted or not.
LEMMA FillsNone ==
  ASSUME stream \in Seq(RecordKinds), NEW c, NEW n \in Nat, Shaped(c), InStep(c, n),
         NEW d, Same(c, d, {"rx", "error"}), QueueOk(d.rx),
         Same(c.rx, d.rx, Queueing \cup {"endOfStream"}), CipherPending(d.rx) = CipherPending(c.rx)
  PROVE  /\ Shaped(d) /\ InStep(d, n) /\ d.part = c.part /\ d.read = c.read /\ d.given = c.given
         /\ d.ssl = c.ssl
         /\ d.rx.held = c.rx.held /\ d.rx.completion = c.rx.completion
<1>1. DOMAIN c = Fields /\ DOMAIN c.rx = RxFields /\ DOMAIN d.rx = RxFields
  BY DEF Shaped, IsSocket, QueueOk
<1>2. /\ DOMAIN d = Fields /\ d.read = c.read /\ d.part = c.part /\ d.given = c.given
      /\ d.ssl = c.ssl /\ Place(d) = Place(c)
  BY <1>1, Requeues
<1>3. d.taken = c.taken
  BY <1>1 DEF Same, Fields
<1>4. /\ d.rx.held = c.rx.held /\ d.rx.completion = c.rx.completion
      /\ d.rx.afterHeld = c.rx.afterHeld
  BY <1>1 DEF Same, RxFields, Queueing
<1>5. Shaped(d)
  BY <1>1, <1>2, <1>4 DEF Shaped, IsSocket
<1>6. InStep(d, n)
  BY <1>2, <1>3 DEF InStep
<1> QED  BY <1>2, <1>4, <1>5, <1>6

\* The platform's part of the stream goes on where the queue ends.
LEMMA ReceiveCipherIs ==
  ASSUME stream \in Seq(RecordKinds), NEW c, Shaped(c), InStep(c, 0), arrived \in Nat
  PROVE  LET d == ReceiveCipher(c).c IN
         /\ Shaped(d) /\ InStep(d, 0) /\ d.part = c.part /\ d.read = c.read /\ d.given = c.given
         /\ d.ssl = c.ssl
         /\ d.rx.held = c.rx.held /\ d.rx.completion = c.rx.completion
         /\ ReceiveCipher(c).is = "Data" => CipherPending(d.rx) # <<>>
<1>1. DOMAIN c = Fields /\ DOMAIN c.rx = RxFields /\ QueueOk(c.rx)
  BY DEF Shaped, IsSocket, QueueOk
<1>2. /\ Queues(c.rx, ReadyFill(c.rx), CipherPending(c.rx)) /\ FillRoom(c.rx) \in Nat \ {0}
  BY <1>1, ReadyFillIs
<1> DEFINE a == [c EXCEPT !.rx = ReadyFill(@), !.error = TRUE]
           b == [c EXCEPT !.rx = [ReadyFill(@) EXCEPT !.endOfStream = TRUE]]
           e == [c EXCEPT !.rx = ReadyFill(@)]
           m == Least(FillRoom(c.rx), arrived - c.taken)
           t == [c EXCEPT !.rx = FillCipher(@, Interval(c.taken, m)), !.taken = @ + m]
<1>3. \/ ReceiveCipher(c) \in {[c |-> a, is |-> "Failed"], [c |-> b, is |-> "EndOfStream"],
                               [c |-> e, is |-> "WouldBlock"]}
      \/ arrived > c.taken /\ ReceiveCipher(c) = [c |-> t, is |-> "Data"]
  BY DEF ReceiveCipher
<1>4. DOMAIN ReadyFill(c.rx) = RxFields /\ QueueOk(ReadyFill(c.rx))
      /\ CipherPending(ReadyFill(c.rx)) = CipherPending(c.rx)
      /\ Same(c.rx, ReadyFill(c.rx), Queueing)
  BY <1>2 DEF Queues, QueueOk
<1>5. ASSUME NEW d \in {a, b, e}
      PROVE  /\ Same(c, d, {"rx", "error"}) /\ QueueOk(d.rx)
             /\ Same(c.rx, d.rx, Queueing \cup {"endOfStream"})
             /\ CipherPending(d.rx) = CipherPending(c.rx)
  <2>1. Same(c, d, {"rx", "error"})
    BY <1>1 DEF Same, Fields
  <2>2. d.rx = ReadyFill(c.rx) \/ d.rx = [ReadyFill(c.rx) EXCEPT !.endOfStream = TRUE]
    BY ZenonT(60), <1>1 DEF Fields
  <2>3. Same(ReadyFill(c.rx), d.rx, {"endOfStream"})
    BY <1>4, <2>2 DEF Same, RxFields
  <2>4. Same(c.rx, d.rx, Queueing \cup {"endOfStream"})
    BY <1>4, <2>3, SameOnward
  <2>5. Same(ReadyFill(c.rx), d.rx, {"held", "afterHeld", "endOfStream"})
    BY <2>3 DEF Same
  <2>6. QueueOk(d.rx) /\ CipherPending(d.rx) = CipherPending(ReadyFill(c.rx))
    BY <1>4, <2>5, HeldApart
  <2> QED  BY <1>4, <2>1, <2>4, <2>6
<1>6. ASSUME arrived > c.taken
      PROVE  /\ Shaped(t) /\ InStep(t, 0) /\ t.part = c.part /\ t.read = c.read
             /\ t.given = c.given /\ t.ssl = c.ssl
             /\ t.rx.held = c.rx.held /\ t.rx.completion = c.rx.completion
             /\ CipherPending(t.rx) # <<>>
  <2>1. c.taken \in Nat
    BY DEF InStep
  <2>2. m \in Nat /\ m > 0
    BY <1>2, <1>6, <2>1 DEF Least
  <2>3. PICK k \in Nat : k = m /\ k > 0
    BY <2>2
  <2>4. PICK p \in Nat : CipherPending(c.rx) = Interval(Place(c), p) /\ Place(c) + p + 0 = c.taken
    BY DEF InStep
  <2>5. Place(c) \in Nat
    BY PlaceIs
  <2>6. Interval(c.taken, k) \in Datas
    BY <2>1, IntervalIs DEF Datas
  <2>7. Queues(c.rx, FillCipher(c.rx, Interval(c.taken, k)),
               Joined(CipherPending(c.rx), Interval(c.taken, k)))
    BY <1>1, <2>6, FillCipherIs
  <2>8. PICK x \in Nat : x = c.taken
    BY <2>1
  <2>9. PICK y \in Nat : y = p + k
    OBVIOUS
  <2>10. Joined(CipherPending(c.rx), Interval(c.taken, k)) = Interval(Place(c), y)
    <3>1. c.taken = Place(c) + p
      BY <2>4, <2>5, <2>1
    <3>2. Joined(Interval(Place(c), p), Interval(Place(c) + p, k)) = Interval(Place(c), p + k)
      BY ZenonT(60), <2>5, IntervalJoin
    <3> QED  BY <2>4, <2>9, <3>1, <3>2
  <2>11. t = [c EXCEPT !.rx = FillCipher(@, Interval(c.taken, k)), !.taken = @ + k]
    BY <2>3
  <2> HIDE DEF t, m
  <2>12. /\ Same(c, t, {"rx", "taken"}) /\ t.rx = FillCipher(c.rx, Interval(c.taken, k))
         /\ t.taken = c.taken + k
    BY <1>1, <2>11 DEF Same, Fields
  <2>13. /\ DOMAIN t = Fields /\ t.read = c.read /\ t.part = c.part /\ t.given = c.given
         /\ t.ssl = c.ssl /\ Place(t) = Place(c)
    BY <1>1, <2>12, Requeues
  <2>14. QueueOk(t.rx) /\ Same(c.rx, t.rx, Queueing) /\ CipherPending(t.rx) = Interval(Place(c), y)
    BY <2>7, <2>10, <2>12 DEF Queues
  <2>15. /\ t.rx.held = c.rx.held /\ t.rx.completion = c.rx.completion
         /\ t.rx.afterHeld = c.rx.afterHeld
    BY <1>1, <2>14 DEF Same, RxFields, Queueing
  <2>16. Shaped(t)
    BY <2>13, <2>14, <2>15 DEF Shaped, IsSocket
  <2>17. Place(c) + y + 0 = t.taken /\ t.taken \in Nat
    BY <2>1, <2>4, <2>5, <2>9, <2>12
  <2>18. InStep(t, 0)
    BY <2>13, <2>14, <2>17 DEF InStep
  <2>19. CipherPending(t.rx) # <<>>
    <3>1. y # 0
      BY <2>3, <2>9
    <3> QED  BY <2>5, <2>14, <3>1, NoneOfInterval
  <2> QED  BY <2>13, <2>15, <2>16, <2>18, <2>19
<1> HIDE DEF a, b, e, t, m
<1>7. ASSUME NEW d \in {a, b, e}
      PROVE  /\ Shaped(d) /\ InStep(d, 0) /\ d.part = c.part /\ d.read = c.read /\ d.given = c.given
             /\ d.ssl = c.ssl
             /\ d.rx.held = c.rx.held /\ d.rx.completion = c.rx.completion
  BY <1>5, FillsNone
<1> QED  BY <1>3, <1>6, <1>7

LEMMA FillIs ==
  ASSUME stream \in Seq(RecordKinds), NEW c, NEW n \in Nat, Shaped(c), InStep(c, n), arrived \in Nat,
         n = 0 \/ c.rx.completion
  PROVE  LET d == Fill(c).c IN
         /\ Shaped(d) /\ InStep(d, n) /\ d.part = c.part /\ d.read = c.read /\ d.given = c.given
         /\ d.ssl = c.ssl
         /\ d.rx.held = c.rx.held /\ d.rx.completion = c.rx.completion
         /\ Fill(c).is = "Data" => CipherPending(d.rx) # <<>>
<1>1. \/ Fill(c).c = c /\ Fill(c).is # "Data"
      \/ ~c.rx.completion /\ Fill(c) = ReceiveCipher(c)
  BY DEF Fill
<1>2. CASE Fill(c).c = c /\ Fill(c).is # "Data"
  BY <1>2
<1>3. CASE ~c.rx.completion /\ Fill(c) = ReceiveCipher(c)
  <2>1. n = 0
    BY <1>3
  <2>2. InStep(c, 0)
    BY <2>1
  <2> QED  BY <1>3, <2>1, <2>2, ReceiveCipherIs
<1> QED  BY <1>1, <1>2, <1>3

\* A socket with nothing held has given all the plaintext of what was read.
Drained(c, n) == Orderly(c, n) /\ c.part = 0 /\ c.rx.held = <<>> /\ Unbroken(c)

LEMMA DrainedGave ==
  ASSUME stream \in Seq(RecordKinds), NEW c, NEW n, Drained(c, n)
  PROVE  PlainBefore(c.read) \in Nat /\ c.given = Interval(0, PlainBefore(c.read))
<1>1. PICK g, m \in Nat :
        /\ c.given = Interval(0, g) /\ c.rx.held = Interval(g, m)
        /\ PlainBefore(c.read) = g + m
  BY DEF Drained, Orderly, Plain
<1>2. m = 0
  BY <1>1, NoneOfInterval DEF Drained
<1> QED  BY <1>1, <1>2

\* Plaintext opened into what the owner gave room for.
LEMMA GivesOpened ==
  ASSUME stream \in Seq(RecordKinds), NEW c, NEW n \in Nat, Drained(c, n), NEW room \in Nat
  PROVE  LET d == Open(c, room).c
             o == Open(c, room).o
             e == [d EXCEPT !.given = @ \o o.plain] IN
         Drained(e, n) /\ e.rx.completion = c.rx.completion
<1> DEFINE d == Open(c, room).c
           o == Open(c, room).o
           e == [d EXCEPT !.given = @ \o o.plain]
<1>1. Shaped(c) /\ InStep(c, n) /\ c.part = 0 /\ c.rx.held = <<>> /\ c.ssl # "Shutdown"
  BY DEF Drained, Orderly, Unbroken
<1>2. /\ Shaped(d) /\ InStep(d, n) /\ d.part = 0
      /\ d.rx.held = <<>> /\ d.rx.completion = c.rx.completion
      /\ d.given = c.given /\ d.ssl = c.ssl
  BY <1>1, OpenIs
<1>3. PICK l \in Nat : /\ o.plain = Interval(PlainBefore(c.read), l)
                       /\ PlainBefore(d.read) = PlainBefore(c.read) + l
  BY <1>1, OpenIs
<1> HIDE DEF d, o
<1>4. DOMAIN d = Fields
  BY <1>2 DEF Shaped, IsSocket
<1>5. Same(d, e, {"given"}) /\ e.given = d.given \o o.plain
  BY <1>4 DEF Same, Fields
<1>6. PlainBefore(c.read) \in Nat /\ c.given = Interval(0, PlainBefore(c.read))
  BY DrainedGave
<1>7. PICK x \in Nat : x = PlainBefore(d.read)
  BY <1>3, <1>6
<1>8. e.given = Interval(0, x)
  <2>1. PICK y \in Nat : y = PlainBefore(c.read)
    BY <1>6
  <2>2. Joined(Interval(0, y), Interval(0 + y, l)) = Interval(0, y + l)
    BY IntervalJoin
  <2>3. 0 + y = y /\ y + l = x
    BY <1>3, <1>7, <2>1
  <2> QED  BY <1>2, <1>3, <1>5, <1>6, <2>1, <2>2, <2>3 DEF Joined
<1> HIDE DEF e
<1>9. /\ Shaped(e) /\ InStep(e, n) /\ e.rx = d.rx /\ e.part = d.part /\ e.read = d.read
  <2>1. Same(d, e, Fields \ (Reading \ {"given", "ssl"}))
    <3>1. {"given"} \subseteq Fields \ (Reading \ {"given", "ssl"})
      BY DEF Fields, Reading
    <3> QED  BY <1>5, <3>1 DEF Same
  <2> QED  BY <1>2, <2>1, ShapedStays
<1>10. e.ssl = d.ssl
  BY <1>4, <1>5 DEF Same, Fields
<1>11. Plain(e)
  <2>1. e.rx.held = Interval(x, 0)
    BY <1>2, <1>9, IntervalNone
  <2>2. PlainBefore(e.read) = x + 0
    BY <1>7, <1>9
  <2> QED  BY <1>8, <2>1, <2>2 DEF Plain
<1>12. Drained(e, n) /\ e.rx.completion = c.rx.completion
  BY <1>1, <1>2, <1>9, <1>10, <1>11 DEF Drained, Orderly, Unbroken
<1> QED  BY <1>12 DEF e, d, o

\* Plaintext opened into the hold.
LEMMA HoldsOpened ==
  ASSUME stream \in Seq(RecordKinds), NEW c, NEW n \in Nat, Drained(c, n), NEW room \in Nat
  PROVE  LET d == Open(c, room).c
             o == Open(c, room).o
             e == [d EXCEPT !.rx = HoldPlain(@, o.plain)] IN
         /\ Orderly(e, n) /\ e.part = 0 /\ Unbroken(e) /\ e.rx.completion = c.rx.completion
         /\ o.plain = <<>> => Drained(d, n) /\ d.rx.completion = c.rx.completion
<1> DEFINE d == Open(c, room).c
           o == Open(c, room).o
           e == [d EXCEPT !.rx = HoldPlain(@, o.plain)]
<1>1. Shaped(c) /\ InStep(c, n) /\ c.part = 0 /\ c.rx.held = <<>> /\ c.ssl # "Shutdown"
  BY DEF Drained, Orderly, Unbroken
<1>2. /\ Shaped(d) /\ InStep(d, n) /\ d.part = 0
      /\ d.rx.held = <<>> /\ d.rx.completion = c.rx.completion
      /\ d.given = c.given /\ d.ssl = c.ssl
  BY <1>1, OpenIs
<1>3. PICK l \in Nat : /\ o.plain = Interval(PlainBefore(c.read), l)
                       /\ PlainBefore(d.read) = PlainBefore(c.read) + l
  BY <1>1, OpenIs
<1> HIDE DEF d, o
<1>4. DOMAIN d = Fields /\ DOMAIN d.rx = RxFields /\ QueueOk(d.rx)
  BY <1>2 DEF Shaped, IsSocket, QueueOk
<1>5. /\ DOMAIN e = Fields /\ Same(d, e, {"rx"}) /\ e.rx.held = o.plain
      /\ Same(d.rx, e.rx, {"held", "afterHeld", "endOfStream"}) /\ e.rx.afterHeld = d.rx.afterHeld
  BY <1>4 DEF Same, Fields, RxFields, HoldPlain
<1> HIDE DEF e
<1>6. PlainBefore(c.read) \in Nat /\ c.given = Interval(0, PlainBefore(c.read))
  BY DrainedGave
<1>7. e.read = d.read /\ e.part = d.part /\ e.taken = d.taken /\ e.given = d.given /\ e.ssl = d.ssl
  BY <1>4, <1>5 DEF Same, Fields
<1>8. QueueOk(e.rx) /\ CipherPending(e.rx) = CipherPending(d.rx) /\ e.rx.completion = d.rx.completion
  BY <1>4, <1>5, HeldApart
<1>9. Shaped(e)
  BY <1>2, <1>5, <1>7, <1>8 DEF Shaped, IsSocket
<1>10. Plain(e)
  BY <1>1, <1>2, <1>3, <1>5, <1>6, <1>7 DEF Plain
<1>11. InStep(e, n)
  BY <1>2, <1>7, <1>8 DEF InStep, Place
<1>12. /\ Orderly(e, n) /\ e.part = 0 /\ Unbroken(e) /\ e.rx.completion = c.rx.completion
  BY <1>1, <1>2, <1>7, <1>8, <1>9, <1>10, <1>11 DEF Orderly, Unbroken
<1>13. ASSUME o.plain = <<>> PROVE Drained(d, n) /\ d.rx.completion = c.rx.completion
  <2>1. l = 0
    BY <1>3, <1>6, <1>13, NoneOfInterval
  <2>2. PICK y \in Nat : y = PlainBefore(c.read)
    BY <1>6
  <2>3. d.rx.held = Interval(y, 0) /\ PlainBefore(d.read) = y + 0 /\ d.given = Interval(0, y)
    BY <1>2, <1>3, <1>6, <2>1, <2>2, IntervalNone
  <2>4. Plain(d)
    BY <2>3 DEF Plain
  <2> QED  BY <1>1, <1>2, <2>4 DEF Drained, Orderly, Unbroken
<1> QED  BY <1>12, <1>13 DEF e, d, o

LEMMA OpenHoldIs ==
  ASSUME stream \in Seq(RecordKinds), NEW c, NEW n \in Nat, Drained(c, n), NEW room \in Nat
  PROVE  LET h == OpenHold(c, room) IN
         /\ Orderly(h.c, n) /\ h.c.part = 0 /\ h.c.rx.completion = c.rx.completion
         /\ h.o.plain = <<>> => Drained(h.c, n)
<1> DEFINE d == Open(c, HoldSize).c
           o == Open(c, HoldSize).o
           e == [d EXCEPT !.rx = HoldPlain(@, o.plain)]
<1>0. HoldSize \in Nat
  BY TransportAssumption
<1>1. /\ Orderly(e, n) /\ e.part = 0 /\ Unbroken(e) /\ e.rx.completion = c.rx.completion
      /\ o.plain = <<>> => Drained(d, n) /\ d.rx.completion = c.rx.completion
  BY <1>0, HoldsOpened
<1>2. OpenHold(c, room) = [o |-> o, c |-> IF o.plain = <<>> THEN d ELSE TakeHeld(e, room)]
  BY DEF OpenHold
<1> HIDE DEF d, o, e
<1>3. CASE o.plain = <<>>
  <2>1. OpenHold(c, room).c = d /\ OpenHold(c, room).o = o
    BY <1>2, <1>3
  <2> QED  BY <1>1, <1>3, <2>1 DEF Drained
<1>4. CASE o.plain # <<>>
  <2>1. OpenHold(c, room).c = TakeHeld(e, room) /\ OpenHold(c, room).o = o
    BY <1>2, <1>4
  <2>2. Orderly(TakeHeld(e, room), n) /\ TakeHeld(e, room).part = e.part
        /\ TakeHeld(e, room).rx.completion = e.rx.completion
    BY <1>1, TakeHeldIs
  <2> QED  BY <1>1, <1>4, <2>1, <2>2
<1> QED  BY <1>3, <1>4

\* The receive stream is the only reader on completion.
LEMMA OpenTurnTakes ==
  ASSUME NEW t, IsTurn(t), t.c.rx.completion, NEW room
  PROVE  OpenTurn(t, room).c.taken = t.c.taken
<1> DEFINE direct == Open(t.c, room)
           hold == OpenHold(t.c, room)
           gave == [direct.c EXCEPT !.given = @ \o direct.o.plain]
           blame == Blame(t.c, "ReadFailed")
<1>0. IsSocket(t.c)
  BY DEF IsTurn
<1>1. Same(t.c, direct.c, Output \cup {"rx", "read"}) /\ IsSocket(direct.c)
  BY <1>0, OpenSame, SocketStays
<1>2. Same(t.c, hold.c, Opening) /\ IsSocket(hold.c)
  BY <1>0, OpenHoldSame, SocketStays
<1>3. Fill(t.c).c = t.c
  BY DEF Fill
<1>4. OpenTurn(t, room).c \in
        {Concluded(direct.o, gave, direct.o.plain # <<>>).c,
         Concluded(hold.o, hold.c, hold.o.plain # <<>>).c,
         t.c, blame}
  BY <1>3 DEF OpenTurn
<1>5. Same(direct.c, gave, {"given"}) /\ IsSocket(gave)
  <2> HIDE DEF direct
  <2> QED  BY <1>1 DEF Same, IsSocket, Fields
<1> HIDE DEF direct, hold, gave
<1>6. gave.taken = t.c.taken /\ hold.c.taken = t.c.taken
  BY <1>0, <1>1, <1>2, <1>5 DEF Same, IsSocket, Fields, Output, Opening
<1>7. \A o, d, p : IsSocket(d) => Concluded(o, d, p).c.taken = d.taken
  <2> TAKE o, d, p
  <2> HAVE IsSocket(d)
  <2>1. Same(d, Concluded(o, d, p).c, {"rx", "ssl"})
    BY ConcludedSame
  <2> QED  BY <2>1 DEF Same, IsSocket, Fields
<1>8. blame.taken = t.c.taken
  <2>1. Same(t.c, blame, {"ssl"})
    BY <1>0, BlameSame
  <2> QED  BY <1>0, <2>1 DEF Same, IsSocket, Fields
<1> HIDE DEF blame
<1> QED  BY <1>2, <1>4, <1>5, <1>6, <1>7, <1>8

\* A turn of the direct path, over a socket with nothing held.
OpensOn(t, n, c) ==
  /\ IsTurn(t)
  /\ Orderly(t.c, n) /\ t.c.part = 0 /\ t.c.rx.completion = c.rx.completion
  /\ c.rx.completion => t.c.taken = c.taken
  /\ t.is = "Going" => Drained(t.c, n)

LEMMA OpenTurnIs ==
  ASSUME stream \in Seq(RecordKinds), arrived \in Nat, NEW t, IsTurn(t), NEW n \in Nat,
         Drained(t.c, n), n = 0 \/ t.c.rx.completion, NEW room \in Nat
  PROVE  LET u == OpenTurn(t, room) IN
         /\ IsTurn(u) /\ Orderly(u.c, n) /\ u.c.part = 0 /\ u.c.rx.completion = t.c.rx.completion
         /\ u.is = "Going" => Drained(u.c, n)
<1> DEFINE direct == Open(t.c, room)
           hold == OpenHold(t.c, room)
           fill == Fill(t.c)
           gave == [direct.c EXCEPT !.given = @ \o direct.o.plain]
           blame == Blame(fill.c, "ReadFailed")
           u == OpenTurn(t, room)
           Right == /\ Orderly(u.c, n) /\ u.c.part = 0
                    /\ u.c.rx.completion = t.c.rx.completion
                    /\ u.is = "Going" => Drained(u.c, n)
<1>1. IsTurn(u)
  <2>1. DOMAIN u = {"c", "is", "network"}
    BY DEF OpenTurn
  <2>2. IsSocket(t.c)
    BY DEF IsTurn
  <2>3. Same(t.c, u.c, Transfer)
    BY <2>2, OpenTurnSame
  <2>4. IsSocket(u.c)
    BY <2>2, <2>3, SocketStays
  <2> HIDE DEF u
  <2> QED  BY <2>1, <2>4 DEF IsTurn
<1>2. Drained(gave, n) /\ gave.rx.completion = t.c.rx.completion
  BY GivesOpened
<1>3. /\ Orderly(hold.c, n) /\ hold.c.part = 0 /\ hold.c.rx.completion = t.c.rx.completion
      /\ hold.o.plain = <<>> => Drained(hold.c, n)
  BY OpenHoldIs
<1>4. Shaped(t.c) /\ InStep(t.c, n) /\ t.c.part = 0 /\ t.c.rx.held = <<>> /\ Plain(t.c)
      /\ Unbroken(t.c) /\ IsSocket(t.c)
  BY DEF Drained, Orderly, IsTurn
<1>5. Drained(fill.c, n) /\ fill.c.rx.completion = t.c.rx.completion
  <2>1. /\ Shaped(fill.c) /\ InStep(fill.c, n) /\ fill.c.part = 0
        /\ fill.c.read = t.c.read /\ fill.c.given = t.c.given /\ fill.c.ssl = t.c.ssl
        /\ fill.c.rx.held = t.c.rx.held /\ fill.c.rx.completion = t.c.rx.completion
    BY <1>4, FillIs
  <2> HIDE DEF fill
  <2>2. Plain(fill.c)
    BY <1>4, <2>1 DEF Plain
  <2> QED  BY <1>4, <2>1, <2>2 DEF Drained, Orderly, Unbroken
<1>6. /\ Orderly(blame, n) /\ blame.part = 0 /\ blame.rx.completion = t.c.rx.completion
  <2>1. Orderly(fill.c, n) /\ fill.c.part = 0 /\ fill.c.ssl # "Shutdown" /\ IsSocket(fill.c)
    BY <1>5 DEF Drained, Unbroken, Orderly, Shaped
  <2> HIDE DEF fill
  <2>2. Same(fill.c, blame, {"ssl"})
    BY <2>1, BlameSame
  <2>3. blame.ssl # "Shutdown"
    BY <2>1 DEF Blame, IsSocket, Fields
  <2>4. Same(fill.c, blame, Fields \ (Reading \ {"ssl"}))
    BY SMTT(60), <2>2 DEF Same, Fields, Reading
  <2> HIDE DEF blame
  <2> QED  BY ZenonT(60), <1>5, <2>1, <2>3, <2>4, VerdictIs
<1>7. \/ /\ u.c = Concluded(direct.o, gave, direct.o.plain # <<>>).c
         /\ u.is = Concluded(direct.o, gave, direct.o.plain # <<>>).is
      \/ /\ u.c = Concluded(hold.o, hold.c, hold.o.plain # <<>>).c
         /\ u.is = Concluded(hold.o, hold.c, hold.o.plain # <<>>).is
      \/ u.c = fill.c
      \/ u.c = blame /\ u.is = "Thrown"
  BY DEF OpenTurn
<1> HIDE DEF u, direct, hold, fill, gave, blame
<1>8. ASSUME /\ u.c = Concluded(direct.o, gave, direct.o.plain # <<>>).c
             /\ u.is = Concluded(direct.o, gave, direct.o.plain # <<>>).is
      PROVE  Right
  <2>1. PICK e : e = Concluded(direct.o, gave, direct.o.plain # <<>>)
    OBVIOUS
  <2>2. Orderly(gave, n) /\ gave.part = 0
    BY <1>2 DEF Drained
  <2>3. Orderly(e.c, n) /\ e.c.part = gave.part /\ e.c.rx.completion = gave.rx.completion
        /\ (e.is = "Going" => e.c = gave)
    BY <2>1, <2>2, ConcludedIs
  <2> QED  BY <1>2, <1>8, <2>1, <2>2, <2>3
<1>9. ASSUME /\ u.c = Concluded(hold.o, hold.c, hold.o.plain # <<>>).c
             /\ u.is = Concluded(hold.o, hold.c, hold.o.plain # <<>>).is
      PROVE  Right
  <2>1. PICK e : e = Concluded(hold.o, hold.c, hold.o.plain # <<>>)
    OBVIOUS
  <2>2. Orderly(e.c, n) /\ e.c.part = hold.c.part /\ e.c.rx.completion = hold.c.rx.completion
        /\ (e.is = "Going" => e.c = hold.c /\ ~(hold.o.plain # <<>>))
    <3>1. Orderly(e.c, n) /\ e.c.part = hold.c.part /\ e.c.rx.completion = hold.c.rx.completion
      BY <1>3, <2>1, ConcludedIs
    <3>2. e.is = "Going" => e.c = hold.c /\ ~(hold.o.plain # <<>>)
      BY <2>1 DEF Concluded
    <3> QED  BY <3>1, <3>2
  <2> QED  BY <1>3, <1>9, <2>1, <2>2
<1>10. ASSUME u.c = fill.c PROVE Right
  BY <1>5, <1>10 DEF Drained
<1>11. ASSUME u.c = blame, u.is = "Thrown" PROVE Right
  BY <1>6, <1>11
<1>12. Right
  BY <1>7, <1>8, <1>9, <1>10, <1>11
<1> QED  BY <1>1, <1>12 DEF u

LEMMA TryOpenIs ==
  ASSUME stream \in Seq(RecordKinds), arrived \in Nat, NEW c, NEW n \in Nat, Orderly(c, n),
         Unbroken(c), c.part = 0, n = 0 \/ c.rx.completion, NEW room \in Nat
  PROVE  LET t == TryOpenInto(c, room) IN
         /\ Orderly(t.c, n) /\ t.c.part = 0 /\ t.c.rx.completion = c.rx.completion
         /\ c.rx.completion => t.c.taken = c.taken
<1>0. IsSocket(c)
  BY DEF Orderly, Shaped
<1>1. CASE c.rx.held # <<>>
  <2>1. TryOpenInto(c, room).c = TakeHeld(c, room)
    BY <1>1 DEF TryOpenInto, Going
  <2>2. Orderly(TakeHeld(c, room), n) /\ TakeHeld(c, room).part = c.part
        /\ TakeHeld(c, room).rx.completion = c.rx.completion
    BY TakeHeldIs
  <2>3. Same(c, TakeHeld(c, room), {"given", "rx", "ssl"})
    BY <1>0, TakeHeldSame
  <2>4. TakeHeld(c, room).taken = c.taken
    BY <1>0, <2>3 DEF Same, IsSocket, Fields
  <2> QED  BY <2>1, <2>2, <2>4
<1>2. CASE c.rx.held = <<>>
  <2>0. Drained(c, n)
    BY <1>2 DEF Drained
  <2>1. PICK r : IsOpenRun(c, room, 2 * Total + 2, r) /\ TryOpenInto(c, room) = r[2 * Total + 2]
    BY <1>2, OpenRuns
  <2>2. PICK m \in Nat : m = 2 * Total + 2
    BY TotalIs
  <2> DEFINE S == {k \in Nat : k <= m => OpensOn(r[k], n, c)}
  <2>3. 0 \in S
    <3>1. r[0].c = c
      BY <2>1 DEF IsOpenRun, Going
    <3>2. IsTurn(r[0])
      BY <1>0, <2>1 DEF IsOpenRun, Going, IsTurn
    <3>3. OpensOn(r[0], n, c)
      BY <2>0, <3>1, <3>2 DEF OpensOn
    <3> QED  BY <3>3
  <2>4. ASSUME NEW k \in S PROVE k + 1 \in S
    <3> SUFFICES ASSUME k + 1 <= m PROVE OpensOn(r[k + 1], n, c)
      OBVIOUS
    <3>1. k + 1 \in 1 .. m /\ k + 1 - 1 = k
      OBVIOUS
    <3>2. r[k + 1] = OpenOnward(room, r[k])
      BY <2>1, <2>2, <3>1 DEF IsOpenRun
    <3>3. OpensOn(r[k], n, c)
      OBVIOUS
    <3> HIDE DEF S
    <3>4. CASE r[k].is = "Going"
      <4>1. r[k + 1] = OpenTurn(r[k], room)
        BY <3>2, <3>4 DEF OpenOnward
      <4>2. IsTurn(r[k]) /\ Drained(r[k].c, n) /\ r[k].c.rx.completion = c.rx.completion
        BY <3>3, <3>4 DEF OpensOn
      <4>3. PICK x : x = r[k]
        OBVIOUS
      <4>4. PICK y : y = OpenTurn(x, room)
        OBVIOUS
      <4>5. n = 0 \/ x.c.rx.completion
        BY <4>2, <4>3
      <4>6. /\ IsTurn(y) /\ Orderly(y.c, n) /\ y.c.part = 0 /\ y.c.rx.completion = x.c.rx.completion
            /\ y.is = "Going" => Drained(y.c, n)
        BY <4>2, <4>3, <4>4, <4>5, OpenTurnIs
      <4>7. x.c.rx.completion => y.c.taken = x.c.taken
        BY <4>2, <4>3, <4>4, OpenTurnTakes
      <4> QED  BY <4>1, <4>2, <4>3, <4>4, <4>6, <4>7, <3>3 DEF OpensOn
    <3>5. CASE r[k].is # "Going"
      <4>1. r[k + 1] = r[k]
        BY <3>2, <3>5 DEF OpenOnward
      <4> QED  BY <3>3, <4>1
    <3> QED  BY <3>4, <3>5
  <2> HIDE DEF S
  <2>5. S = Nat
    BY <2>3, <2>4, Induct DEF S
  <2>6. OpensOn(r[m], n, c)
    BY <2>5 DEF S
  <2> QED  BY <2>1, <2>2, <2>6 DEF OpensOn
<1> QED  BY <1>1, <1>2

\* A unit of the queue is with the library, which has not counted it yet.
Ahead(c, n) ==
  /\ c.taken \in Nat
  /\ \E p \in Nat : CipherPending(c.rx) = Interval(Place(c) + 1, p) /\ Place(c) + 1 + p + n = c.taken

LEMMA UnitLeaves ==
  ASSUME stream \in Seq(RecordKinds), NEW c, NEW n \in Nat, Shaped(c), InStep(c, n),
         CipherPending(c.rx) # <<>>
  PROVE  LET d == [c EXCEPT !.rx = ConsumeCipher(@, 1)] IN
         /\ Shaped(d) /\ Ahead(d, n) /\ d.part = c.part /\ d.read = c.read /\ d.given = c.given
         /\ d.ssl = c.ssl
         /\ d.rx.held = c.rx.held /\ d.rx.completion = c.rx.completion
<1> DEFINE d == [c EXCEPT !.rx = ConsumeCipher(@, 1)]
<1>1. PICK p \in Nat : CipherPending(c.rx) = Interval(Place(c), p) /\ Place(c) + p + n = c.taken
  BY DEF InStep
<1>2. DOMAIN c = Fields /\ DOMAIN c.rx = RxFields /\ QueueOk(c.rx)
  BY DEF Shaped, IsSocket, QueueOk
<1>3. Place(c) \in Nat
  BY PlaceIs
<1>4. Len(CipherPending(c.rx)) = p
  BY <1>1, <1>3, IntervalIs
<1>5. p >= 1
  <2>1. p # 0
    BY <1>1, <1>3, IntervalNone
  <2> QED  BY <2>1
<1>6. Queues(c.rx, ConsumeCipher(c.rx, 1), From(CipherPending(c.rx), 1))
  BY <1>2, <1>4, <1>5, ConsumeIs
<1>7. PICK q \in Nat : q = p - 1
  BY <1>5
<1>8. From(CipherPending(c.rx), 1) = Interval(Place(c) + 1, q)
  <2>1. 1 \in 0 .. p
    BY <1>5
  <2>2. From(Interval(Place(c), p), 1) = Interval(Place(c) + 1, p - 1)
    BY <1>3, <2>1, IntervalCut
  <2> QED  BY <1>1, <1>7, <2>2
<1>9. Same(c, d, {"rx"}) /\ d.rx = ConsumeCipher(c.rx, 1)
  BY <1>2 DEF Same, Fields
<1> HIDE DEF d
<1>10. /\ DOMAIN d = Fields /\ d.read = c.read /\ d.part = c.part /\ d.given = c.given
       /\ d.ssl = c.ssl /\ Place(d) = Place(c)
  BY <1>2, <1>9, Requeues
<1>11. QueueOk(d.rx) /\ Same(c.rx, d.rx, Queueing) /\ CipherPending(d.rx) = Interval(Place(c) + 1, q)
  BY <1>6, <1>8, <1>9 DEF Queues
<1>12. /\ d.rx.held = c.rx.held /\ d.rx.completion = c.rx.completion
       /\ d.rx.afterHeld = c.rx.afterHeld
  BY <1>2, <1>11 DEF Same, RxFields, Queueing
<1>13. Shaped(d)
  BY <1>10, <1>11, <1>12 DEF Shaped, IsSocket
<1>14. d.taken = c.taken /\ c.taken \in Nat
  BY <1>2, <1>9 DEF Same, Fields, InStep
<1>15. Place(c) + 1 + q + n = d.taken
  BY <1>1, <1>3, <1>7, <1>14
<1>16. Ahead(d, n)
  BY <1>10, <1>11, <1>14, <1>15 DEF Ahead
<1> QED  BY <1>10, <1>12, <1>13, <1>16 DEF d

LEMMA ReadUnitIs ==
  ASSUME stream \in Seq(RecordKinds), NEW c, NEW n \in Nat, Shaped(c), InStep(c, n), arrived \in Nat,
         n = 0 \/ c.rx.completion
  PROVE  LET d == ReadUnit(c).c IN
         /\ Shaped(d) /\ d.part = c.part /\ d.read = c.read /\ d.given = c.given
         /\ d.ssl = c.ssl
         /\ d.rx.held = c.rx.held /\ d.rx.completion = c.rx.completion
         /\ IF ReadUnit(c).is = "Data" THEN Ahead(d, n) ELSE InStep(d, n)
<1> DEFINE f == Fill(c)
           u == [c EXCEPT !.rx = ConsumeCipher(@, 1)]
           v == [f.c EXCEPT !.rx = ConsumeCipher(@, 1)]
<1>1. \/ ReadUnit(c) = [c |-> c, is |-> "Failed"]
      \/ ReadUnit(c) = [c |-> u, is |-> "Data"] /\ CipherPending(c.rx) # <<>>
      \/ ReadUnit(c) = f /\ f.is # "Data"
      \/ ReadUnit(c) = [f EXCEPT !.c.rx = ConsumeCipher(@, 1)] /\ f.is = "Data"
  BY DEF ReadUnit
<1>2. /\ Shaped(f.c) /\ InStep(f.c, n) /\ f.c.part = c.part /\ f.c.read = c.read
      /\ f.c.given = c.given /\ f.c.ssl = c.ssl
      /\ f.c.rx.held = c.rx.held /\ f.c.rx.completion = c.rx.completion
      /\ f.is = "Data" => CipherPending(f.c.rx) # <<>>
  BY FillIs
<1>3. DOMAIN f = {"c", "is"}
  BY DEF Fill, ReceiveCipher
<1>4. CASE ReadUnit(c) = [c |-> c, is |-> "Failed"]
  BY <1>4
<1>5. CASE ReadUnit(c) = [c |-> u, is |-> "Data"] /\ CipherPending(c.rx) # <<>>
  <2>1. /\ Shaped(u) /\ Ahead(u, n) /\ u.part = c.part /\ u.read = c.read /\ u.given = c.given
        /\ u.ssl = c.ssl
        /\ u.rx.held = c.rx.held /\ u.rx.completion = c.rx.completion
    BY <1>5, UnitLeaves
  <2> HIDE DEF u
  <2> QED  BY <1>5, <2>1
<1> HIDE DEF f
<1>6. CASE ReadUnit(c) = f /\ f.is # "Data"
  BY <1>2, <1>6
<1>7. CASE ReadUnit(c) = [f EXCEPT !.c.rx = ConsumeCipher(@, 1)] /\ f.is = "Data"
  <2>1. /\ Shaped(v) /\ Ahead(v, n) /\ v.part = f.c.part /\ v.read = f.c.read
        /\ v.given = f.c.given /\ v.ssl = f.c.ssl
        /\ v.rx.held = f.c.rx.held /\ v.rx.completion = f.c.rx.completion
    BY <1>2, <1>7, UnitLeaves
  <2>2. ReadUnit(c).c = v /\ ReadUnit(c).is = "Data"
    BY <1>3, <1>7
  <2> HIDE DEF v
  <2> QED  BY <1>2, <2>1, <2>2
<1> QED  BY <1>1, <1>4, <1>5, <1>6, <1>7

\* A unit counted where it is next.
LEMMA UnitCounts ==
  ASSUME NEW c, NEW n, Shaped(c), Ahead(c, n), Plain(c), NEW d,
         Same(c, d, {"part", "read"}), d.read \in Nat, d.read <= Len(stream), d.part \in Nat,
         PlainBefore(d.read) = PlainBefore(c.read), Place(d) = Place(c) + 1
  PROVE  Orderly(d, n) /\ d.rx = c.rx /\ d.ssl = c.ssl
<1>1. DOMAIN c = Fields /\ DOMAIN d = Fields
  BY DEF Shaped, IsSocket, Same
<1>2. d.rx = c.rx /\ d.given = c.given /\ d.ssl = c.ssl /\ d.taken = c.taken
  BY <1>1 DEF Same, Fields
<1>3. Shaped(d)
  BY <1>1, <1>2 DEF Shaped, IsSocket
<1>4. Plain(d)
  BY <1>2 DEF Plain
<1>5. InStep(d, n)
  BY <1>2 DEF InStep, Ahead
<1> QED  BY <1>2, <1>3, <1>4, <1>5 DEF Orderly

\* A record that is there in full is opened where it ends.
LEMMA OpenReadIs ==
  ASSUME stream \in Seq(RecordKinds), NEW t, IsTurn(t), NEW n \in Nat, Orderly(t.c, n),
         Unbroken(t.c), t.c.rx.held = <<>>, t.is = "Going",
         t.c.read < Len(stream), t.c.part = Size(stream[t.c.read + 1])
  PROVE  LET u == OpenRead(t, stream[t.c.read + 1]) IN
         /\ Orderly(u.c, n) /\ u.c.rx.completion = t.c.rx.completion
         /\ u.is = "Going" => Unbroken(u.c)
<1>0. PICK c : c = t.c
  OBVIOUS
<1>1. /\ DOMAIN c = Fields /\ DOMAIN c.rx = RxFields /\ QueueOk(c.rx) /\ Shaped(c) /\ InStep(c, n)
      /\ Orderly(c, n) /\ Unbroken(c) /\ c.rx.held = <<>>
      /\ c.read < Len(stream) /\ c.part = Size(stream[c.read + 1]) /\ DOMAIN t = {"c", "is", "network"}
  BY <1>0 DEF Orderly, Shaped, IsSocket, QueueOk, IsTurn
<1>2. /\ Ends(c.read) \in Nat /\ Place(c) \in Nat /\ PlainBefore(c.read) \in Nat
      /\ Len(stream) \in Nat /\ c.read \in Nat
  BY <1>1, PlaceIs DEF Shaped
<1>3. PICK k \in Nat : k = c.read + 1
  BY <1>2
<1>4. PICK kind : kind = stream[k]
  OBVIOUS
<1>5. k <= Len(stream) /\ k \in 1 .. Len(stream) /\ k - 1 = c.read /\ c.part = Size(kind)
  BY <1>1, <1>2, <1>3, <1>4
<1>6. Ends(k) = Place(c)
  <2>1. Ends(k) = Ends(k - 1) + Size(stream[k])
    BY <1>5, EndsAre
  <2> QED  BY <1>4, <1>5, <2>1 DEF Place
<1>7. /\ PlainBefore(k) = PlainBefore(c.read) + (IF kind = "data" THEN RecordPlain ELSE 0)
      /\ PlainBefore(c.read) \in Nat
  BY <1>2, <1>3, <1>4, <1>5, PlainNext
<1> DEFINE next == [c EXCEPT !.part = 0, !.read = @ + 1]
           data == [next EXCEPT !.rx = HoldPlain(@, Interval(PlainBefore(c.read), RecordPlain))]
           ctl == Write(next, "ctl", 1)
           shut == Terminal(next, "Shutdown")
           bad == Terminal(c, "ReadFailed")
           u == OpenRead(t, kind)
<1>8. /\ DOMAIN next = Fields /\ Same(c, next, {"part", "read"}) /\ next.part = 0 /\ next.read = k
  BY <1>1, <1>3 DEF Same, Fields
<1>9. \/ kind = "data" /\ u.c = data /\ u.is = "Going"
      \/ kind # "data" /\ u.c = ctl /\ u.is = "Going"
      \/ kind # "data" /\ u.c = shut /\ u.is = "Done"
      \/ u.c = bad /\ u.is = "Done"
  BY <1>0, <1>1 DEF OpenRead, IsTurn
<1> HIDE DEF next, u
<1>10. /\ next.rx = c.rx /\ next.given = c.given /\ next.ssl = c.ssl /\ next.taken = c.taken
  BY <1>1, <1>8 DEF Same, Fields
<1>11. Place(next) = Place(c)
  BY <1>6, <1>8, <1>2 DEF Place
<1>12. Shaped(next) /\ InStep(next, n)
  <2>1. Shaped(next)
    BY <1>1, <1>5, <1>8, <1>10 DEF Shaped, IsSocket
  <2>2. InStep(next, n)
    BY <1>1, <1>10, <1>11 DEF InStep
  <2> QED  BY <2>1, <2>2
<1>13. PICK g \in Nat : g = PlainBefore(c.read) /\ c.given = Interval(0, g)
  <2>1. PICK g, m \in Nat :
          /\ c.given = Interval(0, g) /\ c.rx.held = Interval(g, m)
          /\ PlainBefore(c.read) = g + m
    BY <1>1 DEF Orderly, Plain
  <2>2. m = 0
    BY <1>1, <2>1, NoneOfInterval
  <2> QED  BY <2>1, <2>2
<1>14. ASSUME kind # "data"
       PROVE  Orderly(next, n) /\ Unbroken(next) /\ next.rx = c.rx
  <2>1. PlainBefore(next.read) = g + 0
    BY <1>7, <1>8, <1>13, <1>14
  <2>2. next.rx.held = Interval(g, 0)
    BY <1>1, <1>10, <1>13, IntervalNone
  <2>3. Plain(next)
    BY <1>10, <1>13, <2>1, <2>2 DEF Plain
  <2> QED  BY <1>1, <1>10, <1>12, <2>3 DEF Orderly, Unbroken
<1>15. ASSUME kind = "data"
       PROVE  Orderly(data, n) /\ Unbroken(data) /\ data.rx.completion = c.rx.completion
  <2>1. /\ DOMAIN data = Fields /\ Same(next, data, {"rx"})
        /\ data.rx = HoldPlain(c.rx, Interval(PlainBefore(c.read), RecordPlain))
    BY <1>8, <1>10 DEF Same, Fields
  <2> HIDE DEF data
  <2>2. /\ Same(c.rx, data.rx, {"held", "afterHeld", "endOfStream"})
        /\ data.rx.held = Interval(PlainBefore(c.read), RecordPlain)
        /\ data.rx.afterHeld = c.rx.afterHeld
    BY <1>1, <2>1 DEF Same, RxFields, HoldPlain
  <2>3. QueueOk(data.rx) /\ CipherPending(data.rx) = CipherPending(c.rx)
        /\ data.rx.completion = c.rx.completion
    BY <1>1, <2>2, HeldApart
  <2>4. /\ data.read = next.read /\ data.part = next.part /\ data.given = next.given
        /\ data.ssl = next.ssl /\ data.taken = next.taken
    BY <1>8, <2>1 DEF Same, Fields
  <2>5. Shaped(data)
    BY <1>1, <1>12, <2>1, <2>2, <2>3, <2>4 DEF Shaped, IsSocket
  <2>6. Plain(data)
    <3>1. data.rx.held = Interval(g, 2) /\ data.given = Interval(0, g)
      BY <1>10, <1>13, <2>2, <2>4 DEF RecordPlain
    <3>2. PlainBefore(data.read) = g + 2
      BY <1>7, <1>8, <1>13, <1>15, <2>4 DEF RecordPlain
    <3>3. data.ssl # "Shutdown" /\ 2 \in Nat
      BY <1>1, <1>10, <2>4 DEF Unbroken
    <3> QED  BY <3>1, <3>2, <3>3 DEF Plain
  <2>7. InStep(data, n)
    BY <1>10, <1>12, <2>3, <2>4 DEF InStep, Place
  <2> QED  BY <1>1, <1>10, <2>3, <2>4, <2>5, <2>6, <2>7 DEF Orderly, Unbroken
<1>16. ASSUME kind # "data"
       PROVE  Orderly(ctl, n) /\ Unbroken(ctl) /\ ctl.rx = c.rx
  <2>1. Same(next, ctl, Output)
    BY <1>8, WriteSame DEF IsSocket
  <2> HIDE DEF ctl
  <2>2. Same(next, ctl, Fields \ Reading)
    BY <2>1 DEF Same, Output, Fields, Reading
  <2>3. Orderly(next, n) /\ Unbroken(next) /\ next.rx = c.rx
    BY <1>14, <1>16
  <2>4. Orderly(ctl, n) /\ ctl.rx = next.rx /\ ctl.ssl = next.ssl
    BY <2>2, <2>3, OrderlyStays
  <2> QED  BY <2>3, <2>4 DEF Unbroken
<1>17. ASSUME kind # "data"
       PROVE  Orderly(shut, n) /\ shut.rx = c.rx
  <2>1. Same(next, shut, {"ssl"})
    BY <1>8 DEF Terminal, Same, Fields
  <2> HIDE DEF shut
  <2>2. /\ DOMAIN shut = Fields /\ shut.read = next.read /\ shut.part = next.part
        /\ shut.given = next.given /\ shut.rx = next.rx /\ shut.taken = next.taken
    BY <1>8, <2>1 DEF Same, Fields
  <2>3. Shaped(shut) /\ InStep(shut, n)
    BY <1>12, <2>2 DEF Shaped, IsSocket, InStep, Place
  <2>4. Plain(shut)
    <3>1. shut.rx.held = Interval(g, 0) /\ shut.given = Interval(0, g)
      BY <1>1, <1>10, <1>13, <2>2, IntervalNone
    <3>2. PlainBefore(shut.read) = g + 0
      BY <1>7, <1>8, <1>13, <1>17, <2>2
    <3> QED  BY <3>1, <3>2 DEF Plain
  <2> QED  BY <1>10, <2>2, <2>3, <2>4 DEF Orderly
<1>18. Orderly(bad, n) /\ bad.rx = c.rx
  <2>1. Same(c, bad, {"ssl"}) /\ bad.ssl # "Shutdown"
    BY <1>1 DEF Terminal, Same, Fields
  <2>2. Same(c, bad, Fields \ (Reading \ {"ssl"}))
    BY <2>1 DEF Same, Fields, Reading
  <2> HIDE DEF bad
  <2> QED  BY <1>1, <2>1, <2>2, VerdictIs
<1> HIDE DEF data, ctl, shut, bad
<1>19. /\ Orderly(u.c, n) /\ u.c.rx.completion = c.rx.completion
       /\ u.is = "Going" => Unbroken(u.c)
  BY <1>9, <1>14, <1>15, <1>16, <1>17, <1>18
<1>20. u = OpenRead(t, stream[t.c.read + 1])
  BY <1>0, <1>3, <1>4 DEF u
<1> QED  BY <1>0, <1>19, <1>20

\* A turn of the library's reads.
ReadsOn(t, n, streams) ==
  /\ IsTurn(t)
  /\ Orderly(t.c, n) /\ t.c.rx.completion = streams
  /\ t.is = "Going" => Unbroken(t.c)

LEMMA ReadTurnIs ==
  ASSUME stream \in Seq(RecordKinds), arrived \in Nat, NEW t, IsTurn(t), NEW n \in Nat,
         Orderly(t.c, n), Unbroken(t.c), t.is = "Going", n = 0 \/ t.c.rx.completion,
         NEW room \in Nat
  PROVE  ReadsOn(ReadTurn(t, room), n, t.c.rx.completion)
<1> DEFINE u == ReadTurn(t, room)
           c == t.c
           unit == ReadUnit(t.c)
           more == [unit.c EXCEPT !.part = @ + 1]
           kind == stream[t.c.read + 1]
           blame == Blame(unit.c, "ReadFailed")
           took == TakeHeld(t.c, room)
<1>1. IsTurn(u)
  BY ReadTurnSame
<1>2. Shaped(c) /\ InStep(c, n) /\ Plain(c) /\ IsSocket(c) /\ DOMAIN t = {"c", "is", "network"}
  BY DEF Orderly, IsTurn
<1>3. /\ Shaped(unit.c) /\ unit.c.part = c.part /\ unit.c.read = c.read /\ unit.c.given = c.given
      /\ unit.c.ssl = c.ssl
      /\ unit.c.rx.held = c.rx.held /\ unit.c.rx.completion = c.rx.completion
      /\ IF unit.is = "Data" THEN Ahead(unit.c, n) ELSE InStep(unit.c, n)
  BY <1>2, ReadUnitIs
<1>4. Orderly(took, n) /\ took.rx.completion = c.rx.completion
  BY TakeHeldIs
<1>5. \/ u.c = took /\ u.is = "Done"
      \/ /\ c.rx.held = <<>> /\ c.read < Len(stream) /\ c.part = Size(kind)
         /\ u = OpenRead(t, kind)
      \/ u.c = more /\ unit.is = "Data"
      \/ u.c = unit.c /\ unit.is # "Data" /\ u.is = "Done"
      \/ u.c = blame /\ unit.is # "Data" /\ u.is = "Thrown"
  BY <1>2 DEF ReadTurn
<1> HIDE DEF u, took, unit
<1>6. Plain(unit.c)
  BY <1>2, <1>3 DEF Plain
<1>7. ASSUME c.rx.held = <<>>, c.read < Len(stream), c.part = Size(kind), u = OpenRead(t, kind)
      PROVE  Orderly(u.c, n) /\ u.c.rx.completion = c.rx.completion /\ (u.is = "Going" => Unbroken(u.c))
  BY <1>7, OpenReadIs
<1>8. ASSUME unit.is = "Data"
      PROVE  Orderly(more, n) /\ more.rx.completion = c.rx.completion /\ Unbroken(more)
  <2>1. Same(unit.c, more, {"part"}) /\ more.part = unit.c.part + 1 /\ more.read = unit.c.read
    BY <1>3 DEF Same, Shaped, IsSocket, Fields
  <2> HIDE DEF more
  <2>2. Same(unit.c, more, {"part", "read"})
    BY <2>1 DEF Same
  <2>3. Ends(unit.c.read) \in Nat /\ unit.c.part \in Nat
    BY <1>3, PlaceIs
  <2>4. Place(more) = Place(unit.c) + 1
    BY <2>1, <2>3 DEF Place
  <2>5. more.read \in Nat /\ more.read <= Len(stream) /\ more.part \in Nat
    BY <1>3, <2>1, <2>3 DEF Shaped
  <2>6. PlainBefore(more.read) = PlainBefore(unit.c.read) /\ Ahead(unit.c, n)
    BY <1>3, <1>8, <2>1
  <2>7. Orderly(more, n) /\ more.rx = unit.c.rx /\ more.ssl = unit.c.ssl
    BY <1>3, <1>6, <2>2, <2>4, <2>5, <2>6, UnitCounts
  <2> QED  BY <1>3, <2>7 DEF Unbroken
<1>9. ASSUME unit.is # "Data"
      PROVE  Orderly(unit.c, n)
  BY <1>3, <1>6, <1>9 DEF Orderly
<1>10. ASSUME unit.is # "Data"
       PROVE  Orderly(blame, n) /\ blame.rx.completion = c.rx.completion
  <2>1. IsSocket(unit.c) /\ unit.c.ssl # "Shutdown"
    BY <1>3 DEF Shaped, Unbroken
  <2>2. Same(unit.c, blame, {"ssl"})
    BY <2>1, BlameSame
  <2>3. blame.ssl # "Shutdown"
    BY <2>1 DEF Blame, IsSocket, Fields
  <2>4. Same(unit.c, blame, Fields \ (Reading \ {"ssl"}))
    BY <2>2 DEF Same, Fields, Reading
  <2> HIDE DEF blame
  <2>5. Orderly(unit.c, n)
    BY <1>9, <1>10
  <2>6. Orderly(blame, n) /\ blame.rx = unit.c.rx
    BY <2>3, <2>4, <2>5, VerdictIs
  <2> QED  BY <1>3, <2>6
<1> HIDE DEF more, blame
<1>11. Orderly(u.c, n) /\ u.c.rx.completion = c.rx.completion /\ (u.is = "Going" => Unbroken(u.c))
  BY <1>3, <1>4, <1>5, <1>7, <1>8, <1>9, <1>10
<1> QED  BY <1>1, <1>11 DEF u, ReadsOn

LEMMA ReceiveThroughIs ==
  ASSUME stream \in Seq(RecordKinds), arrived \in Nat, NEW c, NEW n \in Nat, Orderly(c, n),
         Unbroken(c), n = 0 \/ c.rx.completion, NEW room \in Nat
  PROVE  LET t == ReceiveThrough(c, room) IN
         Orderly(t.c, n) /\ t.c.rx.completion = c.rx.completion
<1>0. IsSocket(c)
  BY DEF Orderly, Shaped
<1> DEFINE f == Flush(c)
<1>1. Same(c, f, {"tx", "wire", "room", "armed", "error"}) /\ IsSocket(f)
  BY <1>0, FlushSame, SocketStays
<1>2. Orderly(f, n) /\ Unbroken(f) /\ f.rx = c.rx
  <2> HIDE DEF f
  <2>1. Same(c, f, Fields \ Reading)
    BY <1>1 DEF Same, Fields, Reading
  <2> QED  BY <2>1, OrderlyStays DEF Unbroken
<1>3. PICK r :
        /\ IsReadRun(c, room, 2 * Total + 2, r)
        /\ ReceiveThrough(c, room) =
             [r[2 * Total + 2] EXCEPT
                !.network = r[2 * Total + 2].c.taken # c.taken
                              \/ r[2 * Total + 2].c.wire # c.wire]
  BY SMTT(60), ReadRuns
<1>4. PICK m \in Nat : m = 2 * Total + 2
  BY TotalIs
<1> DEFINE S == {k \in Nat : k <= m => ReadsOn(r[k], n, c.rx.completion)}
<1>5. 0 \in S
  <2>1. r[0] = Going(f)
    BY <1>3 DEF IsReadRun
  <2> HIDE DEF f
  <2>2. r[0].c = f /\ IsTurn(r[0])
    BY <1>1, <2>1 DEF Going, IsTurn
  <2>3. ReadsOn(r[0], n, c.rx.completion)
    BY <1>2, <2>2 DEF ReadsOn
  <2> QED  BY <2>3
<1>6. ASSUME NEW k \in S PROVE k + 1 \in S
  <2> SUFFICES ASSUME k + 1 <= m PROVE ReadsOn(r[k + 1], n, c.rx.completion)
    OBVIOUS
  <2>1. k + 1 \in 1 .. m /\ k + 1 - 1 = k
    OBVIOUS
  <2>2. r[k + 1] = ReadOnward(room, r[k])
    BY <1>3, <1>4, <2>1 DEF IsReadRun
  <2>3. ReadsOn(r[k], n, c.rx.completion)
    OBVIOUS
  <2> HIDE DEF S
  <2>4. CASE r[k].is = "Going"
    <3>1. r[k + 1] = ReadTurn(r[k], room)
      BY <2>2, <2>4 DEF ReadOnward
    <3>2. PICK x : x = r[k]
      OBVIOUS
    <3>3. IsTurn(x) /\ Orderly(x.c, n) /\ Unbroken(x.c) /\ x.c.rx.completion = c.rx.completion
          /\ x.is = "Going"
      BY <2>3, <2>4, <3>2 DEF ReadsOn
    <3>4. n = 0 \/ x.c.rx.completion
      BY <3>3
    <3>5. ReadsOn(ReadTurn(x, room), n, x.c.rx.completion)
      BY <3>3, <3>4, ReadTurnIs
    <3> QED  BY <3>1, <3>2, <3>3, <3>5
  <2>5. CASE r[k].is # "Going"
    <3>1. r[k + 1] = r[k]
      BY <2>2, <2>5 DEF ReadOnward
    <3> QED  BY <2>3, <3>1
  <2> QED  BY <2>4, <2>5
<1> HIDE DEF S
<1>7. S = Nat
  BY <1>5, <1>6, Induct DEF S
<1>8. ReadsOn(r[m], n, c.rx.completion)
  BY <1>7 DEF S
<1>9. ReceiveThrough(c, room).c = r[m].c
  BY <1>3, <1>4, <1>8 DEF ReadsOn, IsTurn
<1> QED  BY <1>8, <1>9 DEF ReadsOn

-----------------------------------------------------------------------------
(* What a handshake has still to read.                                     *)

Flying == IF scenario.settings.server \/ HelloRetried(scenario.settings, scenario.peer, scenario.group)
          THEN 2 ELSE 1

UnreadOnce ==
  {<<"Write", "Read", "Verify">>, <<"Read", "Verify">>, <<"Read", "Verify", "Write">>,
   <<"Write", "Read", "Verify", "Write">>}
UnreadTwice ==
  {<<"Read", "Write", "Read", "Verify">>, <<"Write", "Read", "Write", "Read", "Verify", "Write">>,
   <<"Read", "Write", "Read", "Verify", "Write">>}

\* The flights that a handshake has not read are the next records of the stream.
Awaits(c) ==
  /\ \A i \in 1 .. Flying : i \in DOMAIN stream /\ stream[i] = "hs"
  /\ c.part = 0
  /\ \/ c.script \in UnreadTwice /\ c.read + 2 <= Flying
     \/ c.script \in UnreadOnce /\ c.read + 1 <= Flying
     \/ c.script \in Unverified \cup Verifieds

LEMMA AwaitedGoes ==
  ASSUME NEW q, q # <<>>
  PROVE  /\ q \in UnreadTwice => /\ Head(q) \in {"Read", "Write"}
                                 /\ Head(q) = "Write" => Tail(q) \in UnreadTwice
                                 /\ Head(q) = "Read" => Tail(q) \in UnreadOnce
         /\ q \in UnreadOnce => /\ Head(q) \in {"Read", "Write"}
                                /\ Head(q) = "Write" => Tail(q) \in UnreadOnce
                                /\ Head(q) = "Read" => Tail(q) \in Unverified
         /\ q \in Unverified \cup Verifieds => Head(q) # "Read" /\ Tail(q) \in Verifieds
<1>1. ASSUME q \in UnreadTwice
      PROVE  /\ Head(q) \in {"Read", "Write"}
             /\ Head(q) = "Write" => Tail(q) \in UnreadTwice
             /\ Head(q) = "Read" => Tail(q) \in UnreadOnce
  <2>1. CASE q = <<"Read", "Write", "Read", "Verify">>
    BY <2>1, TailsOfFour DEF UnreadOnce
  <2>2. CASE q = <<"Write", "Read", "Write", "Read", "Verify", "Write">>
    BY <2>2, TailsOfMore DEF UnreadTwice
  <2>3. CASE q = <<"Read", "Write", "Read", "Verify", "Write">>
    BY <2>3, TailsOfMore DEF UnreadOnce
  <2> QED  BY <1>1, <2>1, <2>2, <2>3 DEF UnreadTwice
<1>2. ASSUME q \in UnreadOnce
      PROVE  /\ Head(q) \in {"Read", "Write"}
             /\ Head(q) = "Write" => Tail(q) \in UnreadOnce
             /\ Head(q) = "Read" => Tail(q) \in Unverified
  <2>1. CASE q = <<"Write", "Read", "Verify">>
    BY <2>1, TailsOfThree DEF UnreadOnce
  <2>2. CASE q = <<"Read", "Verify">>
    BY <2>2, TailsOfTwo DEF Unverified
  <2>3. CASE q = <<"Write", "Read", "Verify", "Write">>
    BY <2>3, TailsOfFour DEF UnreadOnce
  <2>4. CASE q = <<"Read", "Verify", "Write">>
    BY <2>4, TailsOfThree DEF Unverified
  <2> QED  BY <1>2, <2>1, <2>2, <2>3, <2>4 DEF UnreadOnce
<1>3. q \in Unverified \cup Verifieds => Head(q) # "Read" /\ Tail(q) \in Verifieds
  BY ScriptGoes
<1> QED  BY <1>1, <1>2, <1>3

\* A step of the library that reads nothing.
Quiet == Output \cup {"script", "flushing", "result"}

LEMMA AwaitsQuiet ==
  ASSUME NEW c, NEW n, Orderly(c, n), NEW d, Same(c, d, Quiet)
  PROVE  /\ Orderly(d, n) /\ d.rx = c.rx /\ d.part = c.part
         /\ Awaits(c) /\ d.script = c.script => Awaits(d)
         /\ Awaits(c) /\ c.script # <<>> /\ Head(c.script) # "Read" /\ d.script = Tail(c.script)
              => Awaits(d)
<1>1. Same(c, d, Fields \ Reading)
  BY DEF Same, Fields, Reading, Quiet, Output
<1>2. Orderly(d, n) /\ d.rx = c.rx /\ d.part = c.part /\ d.read = c.read
  BY <1>1, OrderlyStays
<1>3. ASSUME Awaits(c), d.script = c.script PROVE Awaits(d)
  BY <1>2, <1>3 DEF Awaits
<1>4. ASSUME Awaits(c), c.script # <<>>, Head(c.script) # "Read", d.script = Tail(c.script)
      PROVE  Awaits(d)
  <2>1. /\ c.script \in UnreadTwice => d.script \in UnreadTwice
        /\ c.script \in UnreadOnce => d.script \in UnreadOnce
        /\ c.script \in Unverified \cup Verifieds => d.script \in Verifieds
    BY <1>4, AwaitedGoes
  <2> QED  BY <1>2, <1>4, <2>1 DEF Awaits
<1> QED  BY <1>2, <1>3, <1>4

LEMMA FlownQuiet ==
  ASSUME NEW c, NEW b, IsSocket(c), Same(c, b.c, Output)
  PROVE  /\ Same(c, Flown(b).c, Quiet)
         /\ Flown(b).c.script \in {c.script, Tail(c.script)}
<1>0. IsSocket(b.c) /\ b.c.script = c.script
  BY SocketStays DEF Same, IsSocket, Fields, Output
<1>1. CASE b.is = "Failed"
  <2>1. Flown(b) = [c |-> b.c, is |-> "Failed"]
    BY <1>1 DEF Flown, Failed
  <2> QED  BY <1>0, <2>1 DEF Same, Quiet
<1>2. CASE b.is = "Going"
  <2>1. Flown(b) = Continued(b.c)
    BY <1>2 DEF Flown
  <2>2. Same(c, Continued(b.c).c, Quiet)
    BY <1>0, ContinuedIs, SameOnward DEF Quiet
  <2>3. Continued(b.c).c.script = Tail(b.c.script)
    BY <1>0, ContinuedIs
  <2> QED  BY <1>0, <2>1, <2>2, <2>3
<1>3. CASE b.is \notin {"Failed", "Going"}
  <2> DEFINE d == [b.c EXCEPT !.flushing = TRUE]
  <2>1. Flown(b) = [c |-> d, is |-> "Wanting"]
    BY <1>3 DEF Flown
  <2>2. Same(b.c, d, {"flushing"}) /\ d.script = b.c.script
    BY <1>0 DEF Same, IsSocket, Fields
  <2>3. Same(c, d, Quiet)
    BY <2>2, SameOnward DEF Quiet
  <2> HIDE DEF d
  <2> QED  BY <1>0, <2>1, <2>2, <2>3
<1> QED  BY <1>1, <1>2, <1>3

\* A handshake step reads its flights in order, and nothing but them.
ShakesOn(c, h, n) ==
  /\ Orderly(h.c, n) /\ h.c.part = 0 /\ h.c.rx.completion = c.rx.completion
  /\ h.is # "Failed" => Awaits(h.c)

LEMMA WriteShakes ==
  ASSUME NEW c, NEW n, Orderly(c, n), Awaits(c), c.script # <<>>, Head(c.script) = "Write"
  PROVE  ShakesOn(c, HandshakeStep(c), n)
<1> DEFINE w == BioWrite(c)
<1>0. IsSocket(c) /\ c.part = 0
  BY DEF Orderly, Shaped, Awaits
<1>1. Same(c, w.c, Output) /\ IsSocket(w.c)
  BY <1>0, BioWriteSame
<1>2. Same(c, BioFlush(w.c).c, Output)
  BY <1>1, BioFlushSame, SameOnward
<1>3. Same(c, BioFlush(c).c, Output)
  BY <1>0, BioFlushSame
<1> HIDE DEF w
<1>4. ASSUME NEW b, Same(c, b.c, Output)
      PROVE  ShakesOn(c, Flown(b), n)
  <2>1. PICK d : d = Flown(b).c
    OBVIOUS
  <2>2. Same(c, d, Quiet) /\ d.script \in {c.script, Tail(c.script)}
    BY <1>0, <1>4, <2>1, FlownQuiet
  <2>3. Orderly(d, n) /\ d.rx = c.rx /\ d.part = 0 /\ Awaits(d)
    BY <1>0, <2>2, AwaitsQuiet
  <2> QED  BY <2>1, <2>3 DEF ShakesOn
<1>5. ShakesOn(c, Failed(w.c), n)
  <2>1. Same(c, w.c, Quiet)
    BY <1>1 DEF Same, Quiet
  <2>2. Orderly(w.c, n) /\ w.c.rx = c.rx /\ w.c.part = 0
    BY <1>0, <2>1, AwaitsQuiet
  <2> QED  BY <2>2 DEF ShakesOn, Failed
<1>6. HandshakeStep(c) \in {Flown(BioFlush(c)), Flown(BioFlush(w.c)), Failed(w.c)}
  BY DEF HandshakeStep, w
<1> QED  BY <1>2, <1>3, <1>4, <1>5, <1>6

LEMMA VerifyShakes ==
  ASSUME NEW c, NEW n, Orderly(c, n), Awaits(c), c.script # <<>>,
         Head(c.script) \notin {"Read", "Write"}
  PROVE  ShakesOn(c, HandshakeStep(c), n)
<1> DEFINE t == [c EXCEPT !.result = Report]
           w == Write(t, "hs", 1)
<1>0. IsSocket(c) /\ c.part = 0
  BY DEF Orderly, Shaped, Awaits
<1>1. Same(c, t, {"result"}) /\ IsSocket(t) /\ t.script = c.script
  BY <1>0 DEF Same, IsSocket, Fields
<1> HIDE DEF t
<1>2. Same(c, w, Quiet)
  BY <1>1, WriteSame, SameOnward DEF Quiet
<1>3. Same(c, Continued(t).c, Quiet) /\ Continued(t).c.script = Tail(c.script)
  BY <1>1, ContinuedIs, SameOnward DEF Quiet
<1> HIDE DEF w
<1>4. HandshakeStep(c) = IF Checked THEN Continued(t) ELSE Failed(w)
  BY DEF HandshakeStep, t, w, Checked, Report
<1>5. ShakesOn(c, Failed(w), n)
  <2>1. Orderly(w, n) /\ w.rx = c.rx /\ w.part = 0
    BY <1>0, <1>2, AwaitsQuiet
  <2> QED  BY <2>1 DEF ShakesOn, Failed
<1>6. ShakesOn(c, Continued(t), n)
  <2>1. PICK d : d = Continued(t).c
    OBVIOUS
  <2>2. Orderly(d, n) /\ d.rx = c.rx /\ d.part = 0 /\ Awaits(d)
    BY <1>0, <1>3, <2>1, AwaitsQuiet
  <2> QED  BY <2>1, <2>2 DEF ShakesOn
<1> QED  BY <1>4, <1>5, <1>6

LEMMA ReadShakes ==
  ASSUME stream \in Seq(RecordKinds), arrived \in Nat, NEW c, NEW n \in Nat, Orderly(c, n),
         n = 0 \/ c.rx.completion, Awaits(c), c.script # <<>>, Head(c.script) = "Read"
  PROVE  ShakesOn(c, HandshakeStep(c), n)
<1> DEFINE u == ReadUnit(c)
           d == [u.c EXCEPT !.read = @ + 1]
           r == BioRead(c)
           w == Write(r.c, "hs", 1)
<1>0. IsSocket(c) /\ c.part = 0 /\ Shaped(c) /\ InStep(c, n) /\ Plain(c)
  BY DEF Orderly, Shaped, Awaits
<1>1. /\ Shaped(u.c) /\ u.c.part = c.part /\ u.c.read = c.read /\ u.c.given = c.given
      /\ u.c.ssl = c.ssl
      /\ u.c.rx.held = c.rx.held /\ u.c.rx.completion = c.rx.completion
      /\ IF u.is = "Data" THEN Ahead(u.c, n) ELSE InStep(u.c, n)
  BY <1>0, ReadUnitIs
<1>2. r.c = (IF u.is = "Data" THEN d ELSE u.c) /\ (r.is = "Going" <=> u.is = "Data")
  BY DEF BioRead, Going
<1>3. Same(c, r.c, {"rx", "error", "taken", "read"}) /\ IsSocket(r.c)
  BY <1>0, BioReadSame, SocketStays
<1>4. r.c.script = c.script
  BY <1>3 DEF Same, IsSocket, Fields
<1>5. \/ HandshakeStep(c) = Continued(r.c) /\ r.is = "Going"
      \/ HandshakeStep(c) \in {Failed(w), Failed(r.c)}
      \/ HandshakeStep(c) = [c |-> r.c, is |-> "Wanting"] /\ r.is = "Wanting"
  BY DEF HandshakeStep, r, w
<1> HIDE DEF u
<1>6. Plain(u.c)
  BY <1>0, <1>1 DEF Plain
<1>7. ASSUME u.is # "Data"
      PROVE  Orderly(u.c, n) /\ u.c.part = 0 /\ u.c.rx.completion = c.rx.completion
             /\ (u.c.script = c.script => Awaits(u.c))
  <2>1. Orderly(u.c, n) /\ u.c.part = 0
    BY <1>0, <1>1, <1>6, <1>7 DEF Orderly
  <2> QED  BY <1>1, <2>1 DEF Awaits
<1>8. /\ c.script \in UnreadTwice \cup UnreadOnce
      /\ c.script \in UnreadTwice => Tail(c.script) \in UnreadOnce
      /\ c.script \in UnreadOnce => Tail(c.script) \in Unverified
  BY AwaitedGoes DEF Awaits
<1>20. \/ c.script \in UnreadTwice /\ c.read + 2 <= Flying
       \/ c.script \in UnreadOnce /\ c.read + 1 <= Flying
  <2>1. c.script \notin Unverified \cup Verifieds
    BY AwaitedGoes
  <2> QED  BY <2>1 DEF Awaits
<1>9. PICK k \in Nat : k = c.read + 1
  BY <1>0 DEF Shaped
<1>10. k \in 1 .. Flying /\ k \in DOMAIN stream /\ stream[k] = "hs" /\ c.read \in Nat
  <2>1. c.read + 1 <= Flying /\ Flying \in Nat /\ c.read \in Nat
    <3>1. Flying \in Nat /\ c.read \in Nat
      BY <1>0 DEF Flying, Shaped
    <3> QED  BY <1>20, <3>1
  <2>2. k \in 1 .. Flying
    BY <1>9, <2>1
  <2> QED  BY <2>1, <2>2 DEF Awaits
<1>11. k \in 1 .. Len(stream) /\ k <= Len(stream) /\ k - 1 = c.read
  BY <1>9, <1>10
<1>12. PlainBefore(k) = PlainBefore(c.read)
  <2>1. PlainBefore(k) = PlainBefore(c.read) + (IF stream[k] = "data" THEN RecordPlain ELSE 0)
        /\ PlainBefore(c.read) \in Nat
    BY <1>9, <1>10, <1>11, PlainNext
  <2> QED  BY <1>10, <2>1
<1>13. Ends(k) = Ends(c.read) + 1 /\ Ends(c.read) \in Nat
  <2>1. Ends(k) = Ends(k - 1) + Size(stream[k])
    BY <1>11, EndsAre
  <2>2. Size(stream[k]) = 1
    BY <1>10 DEF Size
  <2> QED  BY <1>0, <1>11, <2>1, <2>2, PlaceIs
<1>14. ASSUME u.is = "Data"
       PROVE  Orderly(d, n) /\ d.part = 0 /\ d.rx.completion = c.rx.completion /\ d.read = k
  <2>1. DOMAIN u.c = Fields
    BY <1>1 DEF Shaped, IsSocket
  <2>2. Same(u.c, d, {"read"}) /\ d.read = k /\ d.part = 0
    BY <1>0, <1>1, <1>9, <2>1 DEF Same, Fields
  <2> HIDE DEF d
  <2>3. Same(u.c, d, {"part", "read"})
    BY <2>2 DEF Same
  <2>4. Place(d) = Place(u.c) + 1
    BY <1>0, <1>1, <1>13, <2>2 DEF Place
  <2>5. d.read \in Nat /\ d.read <= Len(stream) /\ d.part \in Nat
    BY <1>11, <2>2
  <2>6. PlainBefore(d.read) = PlainBefore(u.c.read) /\ Ahead(u.c, n)
    BY <1>1, <1>12, <1>14, <2>2
  <2>7. Orderly(d, n) /\ d.rx = u.c.rx
    BY <1>1, <1>6, <2>3, <2>4, <2>5, <2>6, UnitCounts
  <2> QED  BY <1>1, <2>2, <2>7
<1> HIDE DEF r, d
<1>15. Orderly(r.c, n) /\ r.c.part = 0 /\ r.c.rx.completion = c.rx.completion
  BY <1>2, <1>7, <1>14
<1>16. ShakesOn(c, Failed(r.c), n)
  BY <1>15 DEF ShakesOn, Failed
<1>17. ShakesOn(c, Failed(w), n)
  <2>1. Same(r.c, w, Output)
    BY <1>3, WriteSame
  <2> HIDE DEF w
  <2>2. Same(r.c, w, Quiet)
    BY <2>1 DEF Same, Quiet
  <2>3. Orderly(w, n) /\ w.rx = r.c.rx /\ w.part = r.c.part
    BY <1>15, <2>2, AwaitsQuiet
  <2> QED  BY <1>15, <2>3 DEF ShakesOn, Failed
<1>18. ASSUME r.is = "Wanting"
       PROVE  ShakesOn(c, [c |-> r.c, is |-> "Wanting"], n)
  <2>1. u.is # "Data"
    BY <1>2, <1>18
  <2>2. r.c = u.c
    BY <1>2, <2>1
  <2> QED  BY <1>4, <1>7, <2>1, <2>2 DEF ShakesOn
<1>19. ASSUME r.is = "Going"
       PROVE  ShakesOn(c, Continued(r.c), n)
  <2>1. r.c.read = k
    BY <1>2, <1>14, <1>19
  <2>2. PICK e : e = Continued(r.c).c
    OBVIOUS
  <2>3. Same(r.c, e, {"script", "flushing"}) /\ e.script = Tail(c.script)
    BY <1>3, <1>4, <2>2, ContinuedIs
  <2>4. Same(r.c, e, Quiet)
    BY <2>3 DEF Same, Quiet
  <2>5. Orderly(e, n) /\ e.rx = r.c.rx /\ e.part = 0
    BY <1>15, <2>4, AwaitsQuiet
  <2>6. e.read = k
    BY <1>3, <2>1, <2>3 DEF Same, IsSocket, Fields
  <2>7. Awaits(e)
    <3>3. CASE c.script \in UnreadTwice /\ c.read + 2 <= Flying
      <4>1. e.script \in UnreadOnce /\ e.read + 1 <= Flying
        BY <1>8, <1>9, <1>10, <2>3, <2>6, <3>3 DEF Flying
      <4> QED  BY <2>5, <4>1 DEF Awaits
    <3>4. CASE c.script \in UnreadOnce
      <4>1. e.script \in Unverified
        BY <1>8, <2>3, <3>4
      <4> QED  BY <2>5, <4>1 DEF Awaits
    <3> QED  BY <1>20, <3>3, <3>4
  <2> QED  BY <1>15, <2>2, <2>5, <2>7 DEF ShakesOn
<1> QED  BY <1>5, <1>16, <1>17, <1>18, <1>19

LEMMA StepShakes ==
  ASSUME stream \in Seq(RecordKinds), arrived \in Nat, NEW c, NEW n \in Nat, Orderly(c, n),
         n = 0 \/ c.rx.completion, Awaits(c)
  PROVE  ShakesOn(c, HandshakeStep(c), n)
<1>1. CASE c.script = <<>>
  <2>1. HandshakeStep(c) = [c |-> c, is |-> "Established"]
    BY <1>1 DEF HandshakeStep
  <2> QED  BY <2>1 DEF ShakesOn, Awaits
<1>2. CASE c.script # <<>> /\ Head(c.script) = "Read"
  BY <1>2, ReadShakes
<1>3. CASE c.script # <<>> /\ Head(c.script) = "Write"
  BY <1>3, WriteShakes
<1>4. CASE c.script # <<>> /\ Head(c.script) \notin {"Read", "Write"}
  BY <1>4, VerifyShakes
<1> QED  BY <1>1, <1>2, <1>3, <1>4

LEMMA LibraryShakes ==
  ASSUME stream \in Seq(RecordKinds), arrived \in Nat, NEW c, NEW n \in Nat, Orderly(c, n),
         n = 0 \/ c.rx.completion, Awaits(c),
         NEW m \in Nat, NEW r, IsProcessLoop(c, m, r)
  PROVE  ShakesOn(c, r[m], n)
<1> DEFINE S == {k \in Nat : k <= m => ShakesOn(c, r[k], n)}
<1>1. 0 \in S
  <2>1. r[0] = [c |-> c, is |-> "Going"]
    BY DEF IsProcessLoop
  <2> QED  BY <2>1 DEF ShakesOn, Awaits
<1>2. ASSUME NEW k \in S PROVE k + 1 \in S
  <2> SUFFICES ASSUME k + 1 <= m PROVE ShakesOn(c, r[k + 1], n)
    OBVIOUS
  <2>1. k + 1 \in 0 .. m /\ k + 1 - 1 = k /\ k + 1 # 0
    OBVIOUS
  <2>2. r[k + 1] = ProcessOnward(r[k])
    BY <2>1 DEF IsProcessLoop
  <2>3. ShakesOn(c, r[k], n)
    OBVIOUS
  <2> HIDE DEF S
  <2>4. CASE r[k].is = "Going"
    <3>1. PICK d : d = r[k].c
      OBVIOUS
    <3>2. Orderly(d, n) /\ Awaits(d) /\ d.rx.completion = c.rx.completion
      BY <2>3, <2>4, <3>1 DEF ShakesOn
    <3>3. n = 0 \/ d.rx.completion
      BY <3>2
    <3>4. ShakesOn(d, HandshakeStep(d), n)
      BY <3>2, <3>3, StepShakes
    <3>5. r[k + 1] = HandshakeStep(d)
      BY <2>2, <2>4, <3>1 DEF ProcessOnward
    <3> QED  BY <3>2, <3>4, <3>5 DEF ShakesOn
  <2>5. CASE r[k].is # "Going"
    BY <2>2, <2>3, <2>5 DEF ProcessOnward
  <2> QED  BY <2>4, <2>5
<1> HIDE DEF S
<1>3. S = Nat
  BY <1>1, <1>2, Induct DEF S
<1> QED  BY <1>3 DEF S

\* A handshake leaves what comes behind its flights where it is.
LEMMA ProcessShakes ==
  ASSUME stream \in Seq(RecordKinds), arrived \in Nat, NEW c, NEW n \in Nat, Orderly(c, n),
         n = 0 \/ c.rx.completion, Awaits(c), Shaken(c)
  PROVE  LET p == Process(c) IN
         /\ Orderly(p.c, n) /\ p.c.part = 0 /\ p.c.rx.completion = c.rx.completion
         /\ p.is = "Wanting" => Awaits(p.c)
         /\ p.is # "Established" => p.c.connected = c.connected
<1>0. IsSocket(c)
  BY DEF Orderly, Shaped
<1>1. PICK m \in Nat : \E r :
        /\ IsProcessLoop(c, m, r)
        /\ Process(c) = Ran(r[m], scenario.settings, ExpectedResults)
  BY ProcessRuns, ScriptLength
<1>2. PICK r : /\ IsProcessLoop(c, m, r)
               /\ Process(c) = Ran(r[m], scenario.settings, ExpectedResults)
  BY <1>1
<1>3. PICK t : t = r[m]
  OBVIOUS
<1>4. IsRun(c, t) /\ IsSocket(t.c)
  BY ZenonT(60), <1>0, <1>2, <1>3, LibraryRuns, SocketStays DEF IsRun
<1>5. ShakesOn(c, t, n)
  BY <1>2, <1>3, LibraryShakes
<1>6. t.c.connected = c.connected /\ DOMAIN t = {"c", "is"}
  BY <1>0, <1>4 DEF IsRun, Same, IsSocket, Fields, Shaking, Output
<1>7. Orderly(t.c, n) /\ t.c.part = 0 /\ t.c.rx.completion = c.rx.completion
  BY <1>5 DEF ShakesOn
<1>8. CASE t.is = "Established" /\ Accepted(scenario.settings, t.c.result, ExpectedResults)
  <2>1. Process(c) = [t EXCEPT !.c.connected = TRUE]
    BY <1>2, <1>3, <1>8 DEF Ran
  <2> DEFINE d == [t.c EXCEPT !.connected = TRUE]
  <2>2. Process(c).c = d /\ Process(c).is = "Established"
    BY <1>6, <1>8, <2>1
  <2>3. Same(t.c, d, {"connected"})
    BY <1>4 DEF Same, IsSocket, Fields
  <2> HIDE DEF d
  <2>4. Same(t.c, d, Fields \ Reading)
    BY <2>3 DEF Same, Fields, Reading
  <2>5. Orderly(d, n) /\ d.rx = t.c.rx /\ d.part = t.c.part
    BY <1>7, <2>4, OrderlyStays
  <2> QED  BY <1>7, <2>2, <2>5
<1>9. CASE t.is = "Established" /\ ~Accepted(scenario.settings, t.c.result, ExpectedResults)
  <2> DEFINE d == [t.c EXCEPT
                     !.result = Decided(scenario.settings, @),
                     !.ssl = IF AskUser(scenario.settings, t.c.result, ExpectedResults)
                             THEN "UserDecision" ELSE "ConnectionFailed"]
  <2>1. Process(c) = Failed(d)
    BY <1>2, <1>3, <1>9 DEF Ran
  <2>2. Process(c).c = d /\ Process(c).is = "Failed"
    BY <2>1 DEF Failed
  <2>3. Same(t.c, d, {"result", "ssl"}) /\ d.ssl # "Shutdown" /\ d.connected = t.c.connected
    BY <1>4 DEF Same, IsSocket, Fields
  <2> HIDE DEF d
  <2>4. Same(t.c, d, Fields \ (Reading \ {"ssl"}))
    BY <2>3 DEF Same, Fields, Reading
  <2>5. Orderly(d, n) /\ d.rx = t.c.rx /\ d.part = t.c.part
    BY ZenonT(60), <1>7, <2>3, <2>4, VerdictIs
  <2> QED  BY <1>6, <1>7, <2>2, <2>3, <2>5
<1>10. CASE t.is # "Established"
  <2>1. Process(c) = GenerateSystemErrors(t)
    BY <1>2, <1>3, <1>10 DEF Ran
  <2>2. CASE t.is = "Wanting"
    <3>1. Process(c) = t
      BY <2>1, <2>2 DEF GenerateSystemErrors
    <3> QED  BY <1>5, <1>6, <1>7, <2>2, <3>1 DEF ShakesOn
  <2>3. CASE t.is # "Wanting"
    <3> DEFINE d == [t.c EXCEPT !.ssl = "ConnectionFailed"]
    <3>1. Process(c).c = d /\ Process(c).is = "Failed"
      BY <2>1, <2>3 DEF GenerateSystemErrors, Failed
    <3>2. Same(t.c, d, {"ssl"}) /\ d.connected = t.c.connected /\ d.ssl # "Shutdown"
      BY <1>4 DEF Same, IsSocket, Fields
    <3> HIDE DEF d
    <3>4. Same(t.c, d, Fields \ (Reading \ {"ssl"}))
      BY <3>2 DEF Same, Fields, Reading
    <3>5. Orderly(d, n) /\ d.rx = t.c.rx /\ d.part = t.c.part
      BY ZenonT(60), <1>7, <3>2, <3>4, VerdictIs
    <3> QED  BY <1>6, <1>7, <3>1, <3>2, <3>5
  <2> QED  BY <2>2, <2>3
<1> QED  BY <1>8, <1>9, <1>10

-----------------------------------------------------------------------------
(* The socket between the calls of its owner.                              *)

\* It takes no more of the stream: where it has read to is of no account.
TurnedAway(c) == ReceiveRefused(c) /\ c.state \notin Handshaking

Loose(c) ==
  /\ c.taken \in Nat
  /\ \E p \in Nat : CipherPending(c.rx) = Interval(Place(c), p)

\* A handshake is ahead, or it is over and the stream may run; a socket is shut
\* down once.
Ruled(c, called) ==
  /\ c.connected => c.state \notin Handshaking
  /\ c.rx.completion => c.state \notin Handshaking /\ scenario.direct
  /\ c.state \in {"Shutdown", "ShutdownSocket"} => called = TRUE
  /\ scenario.direct => c.part = 0
  /\ c.state \in Handshaking => Awaits(c)

Fits(c, n) ==
  /\ n = 0 \/ c.rx.completion
  /\ TurnedAway(c) \/ InStep(c, n)

\* n units are on their way to it in segments.
Good(c, n, called) ==
  Hand(c) /\ Shaped(c) /\ Plain(c) /\ Loose(c) /\ Ruled(c, called) /\ Fits(c, n)

LEMMA GoodIsOrderly ==
  ASSUME NEW c, NEW n, NEW called, Good(c, n, called), ~TurnedAway(c)
  PROVE  Orderly(c, n) /\ (n = 0 \/ c.rx.completion)
BY DEF Good, Fits, Orderly

LEMMA OrderlyIsGood ==
  ASSUME NEW c, NEW n, NEW called, Hand(c), Orderly(c, n), Ruled(c, called), n = 0 \/ c.rx.completion
  PROVE  Good(c, n, called)
BY DEF Good, Fits, Orderly, InStep, Loose

\* What neither the handshake nor the transfer of input is made of.
Aside == Fields \ ({"state", "script", "result", "connected"} \cup (Reading \ {"ssl"}))

\* A call that leaves both alone, but for a verdict on the connection.
Still(c, d) ==
  /\ IsSocket(c)
  /\ Same(c, d, Aside)
  /\ d.ssl = c.ssl \/ d.ssl \notin {"None", "Shutdown"}

LEMMA StillIs ==
  ASSUME NEW c, IsSocket(c)
  PROVE  Still(c, c)
BY SameIs DEF Still

LEMMA StillOnward ==
  ASSUME NEW c, NEW d, NEW e, Still(c, d), Still(d, e)
  PROVE  Still(c, e)
BY SameOnward DEF Still

LEMMA StillSocket ==
  ASSUME NEW c, NEW d, Still(c, d)
  PROVE  IsSocket(d) /\ IsSocket(c)
BY SocketStays DEF Still

LEMMA StillSame ==
  ASSUME NEW c, IsSocket(c), NEW F, NEW d, Same(c, d, F), F \subseteq Aside \ {"ssl"}
  PROVE  Still(c, d)
<1>1. Same(c, d, Aside)
  BY DEF Same
<1>2. d.ssl = c.ssl
  BY DEF Same, IsSocket, Fields
<1> QED  BY <1>1, <1>2 DEF Still

LEMMA AsideIs ==
  /\ Output \subseteq Aside \ {"ssl"} /\ Events \subseteq Aside \ {"ssl"}
  /\ {"tx", "sealed"} \subseteq Aside \ {"ssl"} /\ {"ops", "mail"} \subseteq Aside \ {"ssl"}
  /\ {"tx", "wire", "room", "armed", "error"} \subseteq Aside \ {"ssl"}
  /\ Submitting \ {"ssl"} \subseteq Aside \ {"ssl"}
  /\ {"ssl"} \subseteq Aside
BY DEF Output, Events, Submitting, Aside, Fields, Reading

LEMMA StillGood ==
  ASSUME NEW c, NEW n, NEW called, Good(c, n, called), NEW d, Still(c, d)
  PROVE  /\ Good(d, n, called) /\ d.rx = c.rx /\ d.state = c.state
         /\ d.connected = c.connected /\ d.taken = c.taken
<1>1. Same(c, d, Others) /\ Hand(d)
  <2>1. Same(c, d, Others)
    BY DEF Still, Same, Aside, Others
  <2> QED  BY <2>1, HandHolds DEF Good
<1>2. DOMAIN c = Fields /\ DOMAIN d = Fields
  BY DEF Still, IsSocket, Same
<1>3. /\ d.rx = c.rx /\ d.part = c.part /\ d.given = c.given /\ d.read = c.read
      /\ d.taken = c.taken
  BY <1>2 DEF Still, Same, Aside, Fields, Reading
<1>4. d.state = c.state /\ d.script = c.script /\ d.connected = c.connected
  BY <1>2 DEF Still, Same, Aside, Fields, Reading
<1>5. Place(d) = Place(c)
  BY <1>3 DEF Place
<1>6. Shaped(d)
  BY <1>2, <1>3 DEF Good, Shaped, IsSocket
<1>7. Plain(d)
  BY <1>3 DEF Good, Plain, Still
<1>8. Loose(d)
  BY <1>3, <1>5 DEF Good, Loose
<1>9. Awaits(c) => Awaits(d)
  BY <1>3, <1>4 DEF Awaits
<1>10. Ruled(d, called)
  BY <1>3, <1>4, <1>9 DEF Good, Ruled
<1>11. TurnedAway(c) => TurnedAway(d)
  BY <1>4 DEF TurnedAway, ReceiveRefused, Broken, Still
<1>12. InStep(c, n) => InStep(d, n)
  BY <1>3, <1>5 DEF InStep
<1>13. Fits(d, n)
  BY <1>3, <1>11, <1>12 DEF Good, Fits
<1> QED  BY <1>1, <1>3, <1>4, <1>6, <1>7, <1>8, <1>10, <1>13 DEF Good

LEMMA GoodSame ==
  ASSUME NEW c, NEW n, NEW called, Good(c, n, called), NEW F, NEW d, Same(c, d, F),
         F \subseteq Aside \ {"ssl"}
  PROVE  Good(d, n, called) /\ d.rx = c.rx /\ d.state = c.state /\ d.taken = c.taken
<1>1. IsSocket(c)
  BY DEF Good, Hand
<1> QED  BY <1>1, StillSame, StillGood

-----------------------------------------------------------------------------
(* A shutdown.                                                             *)

Shutting == {"Shutdown", "ShutdownSocket"}

LEMMA GoodShuts ==
  ASSUME NEW c, NEW n, NEW called, Good(c, n, called), NEW d,
         Same(c, d, Output \cup {"shut", "state"}),
         d.state \in Shutting, c.state = "ShutdownSocket" => d.state = "ShutdownSocket"
  PROVE  Good(d, n, TRUE) /\ d.rx = c.rx /\ d.taken = c.taken
<1>1. DOMAIN c = Fields /\ DOMAIN d = Fields
  BY DEF Good, Hand, IsSocket, Same
<1>2. /\ d.rx = c.rx /\ d.part = c.part /\ d.given = c.given /\ d.read = c.read
      /\ d.taken = c.taken /\ d.ssl = c.ssl
  BY <1>1 DEF Same, Output, Fields
<1>3. Hand(d)
  BY HandShuts DEF Good, Shutting
<1>5. Place(d) = Place(c)
  BY <1>2 DEF Place
<1>6. Shaped(d)
  BY <1>1, <1>2 DEF Good, Shaped, IsSocket
<1>7. Plain(d)
  BY <1>2 DEF Good, Plain
<1>8. Loose(d)
  BY <1>2, <1>5 DEF Good, Loose
<1>9. d.state \notin Handshaking
  BY DEF Shutting, Handshaking
<1>10. Ruled(d, TRUE)
  BY <1>2, <1>9 DEF Good, Ruled
<1>11. TurnedAway(c) => TurnedAway(d)
  BY <1>2, <1>9 DEF TurnedAway, ReceiveRefused, Broken
<1>12. InStep(c, n) => InStep(d, n)
  BY <1>2, <1>5 DEF InStep
<1>13. Fits(d, n)
  BY <1>2, <1>11, <1>12 DEF Good, Fits
<1> QED  BY <1>2, <1>3, <1>6, <1>7, <1>8, <1>10, <1>13 DEF Good

LEMMA ContinueShutdownGood ==
  ASSUME NEW c, NEW n, NEW called, Good(c, n, called), c.state \in Shutting
  PROVE  Good(ContinueShutdown(c), n, called) /\ ContinueShutdown(c).rx = c.rx
         /\ ContinueShutdown(c).taken = c.taken
<1>1. called = TRUE
  BY DEF Good, Ruled, Shutting
<1>2. IsSocket(c)
  BY DEF Good, Hand
<1> DEFINE d == ContinueShutdown(c)
<1>3. Same(c, d, Output \cup {"shut", "state"}) /\ d.state \in {c.state, "ShutdownSocket"}
  BY <1>2, ContinueShutdownIs
<1> HIDE DEF d
<1>4. Good(d, n, TRUE) /\ d.rx = c.rx /\ d.taken = c.taken
  BY <1>3, GoodShuts DEF Shutting
<1> QED  BY <1>1, <1>4 DEF d

LEMMA ShutdownGood ==
  ASSUME NEW c, NEW n, NEW called, Good(c, n, called), called # TRUE
  PROVE  Good(Shutdown(c), n, TRUE) /\ Shutdown(c).rx = c.rx /\ Shutdown(c).taken = c.taken
<1>1. c.state \notin Shutting
  BY DEF Good, Ruled, Shutting
<1>2. IsSocket(c)
  BY DEF Good, Hand
<1> DEFINE d == Shutdown(c)
<1>3. Same(c, d, Output \cup {"shut", "state"}) /\ d.state \in Shutting
  BY <1>2, ShutdownIs DEF Shutting
<1> HIDE DEF d
<1>4. Good(d, n, TRUE) /\ d.rx = c.rx /\ d.taken = c.taken
  BY <1>1, <1>3, GoodShuts DEF Shutting
<1> QED  BY <1>4 DEF d

\* The scenario, and how far the stream of the peer has come.
Flowing == Configured /\ arrived \in Nat

LEMMA FlowingIs ==
  ASSUME Flowing
  PROVE  stream \in Seq(RecordKinds) /\ arrived \in Nat /\ Configured
BY ScenarioIs DEF Flowing, Configured

LEMMA GoodSocket ==
  ASSUME NEW c, NEW n, NEW called, Good(c, n, called)
  PROVE  IsSocket(c) /\ Hand(c) /\ c.state \in States
BY DEF Good, Hand

\* Where a handshake leaves the socket.
LEMMA HandshakeEnds ==
  ASSUME NEW c, NEW n, Orderly(c, n), c.part = 0, ~c.rx.completion, n = 0,
         NEW d, Same(c, d, {"state", "events"}), d.state \in {"Done", "Disconnected"}, Hand(d),
         NEW called
  PROVE  Good(d, n, called) /\ d.rx = c.rx
<1>1. Same(c, d, Fields \ Reading)
  BY DEF Same, Fields, Reading
<1>2. Orderly(d, n) /\ d.rx = c.rx /\ d.part = c.part
  BY <1>1, OrderlyStays
<1>3. Ruled(d, called)
  BY <1>2 DEF Ruled, Handshaking
<1> QED  BY <1>2, <1>3, OrderlyIsGood

LEMMA HandleGood ==
  ASSUME Flowing, NEW c, NEW n \in Nat, NEW called, Good(c, n, called)
  PROVE  LET h == HandleHandshake(c) IN
         /\ Good(h.c, n, called) /\ h.c.rx.completion = c.rx.completion
         /\ c.rx.completion => h.c.taken = c.taken
         /\ h.may \in BOOLEAN /\ (h.may => h.c.state = "Done")
<1>0. IsSocket(c) /\ c.state \in States /\ Hand(c)
  BY GoodSocket
<1>1. CASE c.state = "Done"
  <2>1. HandleHandshake(c) = [c |-> c, may |-> TRUE]
    BY <1>1 DEF HandleHandshake
  <2> QED  BY <1>1, <2>1
<1>2. CASE c.state = "Shutdown"
  <2>1. HandleHandshake(c) = [c |-> ContinueShutdown(c), may |-> FALSE]
    BY <1>2 DEF HandleHandshake
  <2>2. Good(ContinueShutdown(c), n, called) /\ ContinueShutdown(c).rx = c.rx
        /\ ContinueShutdown(c).taken = c.taken
    BY <1>2, ContinueShutdownGood DEF Shutting
  <2> QED  BY <2>1, <2>2
<1>3. CASE c.state \in {"ShutdownSocket", "Disconnected"}
  <2>1. HandleHandshake(c) = [c |-> c, may |-> FALSE]
    BY <1>3 DEF HandleHandshake
  <2> QED  BY <2>1
<1>4. CASE c.state \in Handshaking
  <2> DEFINE b == IF c.state = "Connect" THEN [c EXCEPT !.state = "Connected"] ELSE c
             p == Process(b)
             done == AddTCPState([p.c EXCEPT !.state = "Done"], {"Read", "Write"})
             gone == AddTCPState([p.c EXCEPT !.state = "Disconnected"], {"Closed"})
  <2>1. /\ Same(c, b, {"state"}) /\ IsSocket(b) /\ b.state \in Handshaking
        /\ b.script = c.script /\ b.result = c.result /\ b.connected = c.connected
        /\ b.read = c.read /\ b.part = c.part
    BY <1>0, <1>4 DEF Same, IsSocket, Fields, Handshaking
  <2>2. Shaken(b)
    BY <1>4, <2>1 DEF Shaken, Good, Hand
  <2> HIDE DEF b
  <2>3. ~c.connected /\ ~c.rx.completion /\ Awaits(c)
    BY <1>4 DEF Good, Ruled
  <2>4. n = 0 /\ Orderly(c, n)
    <3>1. ~TurnedAway(c)
      BY <1>4 DEF TurnedAway
    <3> QED  BY <2>3, <3>1, GoodIsOrderly
  <2>5. Orderly(b, n) /\ b.rx = c.rx
    <3>1. Same(c, b, Fields \ Reading)
      BY <2>1 DEF Same, Fields, Reading
    <3> QED  BY <2>4, <3>1, OrderlyStays
  <2>6. Awaits(b)
    BY <2>1, <2>3 DEF Awaits
  <2>7. /\ Orderly(p.c, n) /\ p.c.part = 0 /\ p.c.rx.completion = b.rx.completion
        /\ p.is = "Wanting" => Awaits(p.c)
        /\ p.is # "Established" => p.c.connected = b.connected
    BY <2>2, <2>4, <2>5, <2>6, ProcessShakes, FlowingIs
  <2>8. /\ Same(b, p.c, Shaking \cup {"connected", "ssl"})
        /\ p.is = "Wanting" => Shaken(p.c)
        /\ p.c.connected => b.connected \/ Kept
    BY <2>1, <2>2, ProcessIs, FlowingIs
  <2>9. HandleHandshake(c) =
          CASE p.is = "Established" -> [c |-> done, may |-> TRUE]
            [] p.is = "Wanting" -> [c |-> p.c, may |-> FALSE]
            [] OTHER -> [c |-> gone, may |-> FALSE]
    BY <1>4 DEF HandleHandshake, Handshaking, b
  <2> HIDE DEF p
  <2>10. IsSocket(p.c) /\ p.c.state = b.state
    BY <2>1, <2>8, SocketStays DEF Same, IsSocket, Fields, Shaking, Output
  <2>11. p.c.connected => Kept
    BY <2>1, <2>3, <2>8
  <2>12. /\ Same(p.c, done, {"state", "events"}) /\ IsSocket(done)
         /\ done.state = "Done" /\ done.connected = p.c.connected
    BY <2>10 DEF Same, IsSocket, Fields, AddTCPState
  <2>13. /\ Same(p.c, gone, {"state", "events"}) /\ IsSocket(gone)
         /\ gone.state = "Disconnected" /\ gone.connected = p.c.connected
    BY <2>10 DEF Same, IsSocket, Fields, AddTCPState
  <2> HIDE DEF done, gone
  <2>14. Hand(done) /\ Hand(gone)
    BY <2>11, <2>12, <2>13 DEF Hand, States, Handshaking
  <2>15. ~p.c.rx.completion /\ p.c.rx.completion = c.rx.completion
    BY <2>3, <2>5, <2>7
  <2>16. Good(done, n, called) /\ done.rx = p.c.rx
    BY <2>4, <2>7, <2>12, <2>14, <2>15, HandshakeEnds
  <2>17. Good(gone, n, called) /\ gone.rx = p.c.rx
    BY <2>4, <2>7, <2>13, <2>14, <2>15, HandshakeEnds
  <2>18. CASE p.is = "Established"
    <3>1. HandleHandshake(c) = [c |-> done, may |-> TRUE]
      BY <2>9, <2>18
    <3>2. \E h : h = HandleHandshake(c) /\ h.c = done /\ h.may = TRUE
      BY <3>1
    <3> QED  BY <2>12, <2>15, <2>16, <3>2, <2>3
  <2>19. CASE p.is = "Wanting"
    <3>1. HandleHandshake(c) = [c |-> p.c, may |-> FALSE]
      BY <2>9, <2>19
    <3>2. \E h : h = HandleHandshake(c) /\ h.c = p.c /\ h.may = FALSE
      BY <3>1
    <3>3. Hand(p.c)
      BY <2>1, <2>8, <2>10, <2>11, <2>19 DEF Hand, States, Handshaking
    <3>4. p.c.connected = c.connected /\ Awaits(p.c)
      BY <2>1, <2>7, <2>19
    <3>5. p.c.state \notin Shutting
      BY <2>1, <2>10 DEF Handshaking, Shutting
    <3>6. Ruled(p.c, called)
      BY <2>3, <2>7, <2>15, <3>4, <3>5 DEF Ruled, Shutting
    <3>7. Good(p.c, n, called)
      BY <2>4, <2>7, <3>3, <3>6, OrderlyIsGood
    <3> QED  BY <2>15, <3>2, <3>7, <2>3
  <2>20. CASE p.is \notin {"Established", "Wanting"}
    <3>1. HandleHandshake(c) = [c |-> gone, may |-> FALSE]
      BY <2>9, <2>20
    <3>2. \E h : h = HandleHandshake(c) /\ h.c = gone /\ h.may = FALSE
      BY <3>1
    <3> QED  BY <2>15, <2>17, <3>2, <2>3
  <2> QED  BY <2>18, <2>19, <2>20
<1> QED  BY <1>0, <1>1, <1>2, <1>3, <1>4 DEF States, Handshaking

-----------------------------------------------------------------------------
\* A socket whose handshake is done and that is not broken is read.
LEMMA OpenAndReading ==
  ASSUME NEW c, NEW n, NEW called, Good(c, n, called), c.state = "Done", ~Broken(c)
  PROVE  Orderly(c, n) /\ Unbroken(c) /\ (n = 0 \/ c.rx.completion)
<1>1. ~TurnedAway(c)
  BY DEF TurnedAway, ReceiveRefused
<1> QED  BY <1>1, GoodIsOrderly DEF Broken, Unbroken

\* What was read of a socket whose handshake is over is good.
LEMMA ReadIsGood ==
  ASSUME NEW c, NEW n, NEW called, Good(c, n, called), c.state \notin Handshaking,
         NEW d, Orderly(d, n), Same(c, d, Transfer), d.rx.completion = c.rx.completion,
         scenario.direct => d.part = 0
  PROVE  Good(d, n, called)
<1>1. DOMAIN c = Fields /\ DOMAIN d = Fields
  BY GoodSocket DEF IsSocket, Same
<1>2. d.state = c.state /\ d.connected = c.connected
  BY <1>1 DEF Same, Transfer, Output, Input, Fields
<1>3. Hand(d)
  BY OthersAre, OthersHold, HandHolds, GoodSocket
<1>4. Ruled(d, called) /\ (n = 0 \/ d.rx.completion)
  BY <1>2 DEF Good, Ruled, Fits
<1> QED  BY <1>3, <1>4, OrderlyIsGood

LEMMA CheckBrokenStill ==
  ASSUME NEW c, IsSocket(c)
  PROVE  Still(c, CheckBrokenState(c))
BY CheckBrokenSame, AsideIs, StillSame

LEMMA BlameStill ==
  ASSUME NEW c, IsSocket(c)
  PROVE  Still(c, Blame(c, "WriteFailed"))
<1>1. Same(c, Blame(c, "WriteFailed"), Aside)
  BY BlameSame, AsideIs DEF Same
<1>2. Blame(c, "WriteFailed").ssl \in {c.ssl, "WriteFailed"}
  BY DEF Blame, IsSocket, Fields
<1> QED  BY <1>1, <1>2 DEF Still

LEMMA FlushPendingStill ==
  ASSUME NEW c, IsSocket(c)
  PROVE  Still(c, FlushPending(c))
<1> DEFINE f == Flush(c)
<1>1. Still(c, f)
  BY FlushSame, AsideIs, StillSame
<1> HIDE DEF f
<1>2. Still(c, Blame(f, "WriteFailed"))
  BY <1>1, BlameStill, StillOnward, StillSocket
<1>3. FlushPending(c) \in {c, Blame(f, "WriteFailed")}
  BY DEF FlushPending, f
<1> QED  BY <1>2, <1>3, StillIs

LEMMA SealedStill ==
  ASSUME NEW c, IsSocket(c), NEW kind, NEW n
  PROVE  Still(c, Sealed(c, kind, n))
BY SealedSame, AsideIs, StillSame

LEMMA SendRecordStill ==
  ASSUME NEW c, IsSocket(c)
  PROVE  Still(c, SendRecord(c).c)
<1> DEFINE d == Sealed(c, "data", 1)
<1>1. Still(c, d) /\ IsSocket(d)
  BY SealedStill, StillSocket
<1>2. Still(d, Flush(d))
  BY <1>1, FlushSame, AsideIs, StillSame
<1>3. Still(c, Flush(d))
  BY <1>1, <1>2, StillOnward
<1>4. SendRecord(c).c \in {Blame(c, "WriteFailed"), d, Flush(d)}
  BY DEF SendRecord
<1> QED  BY <1>1, <1>3, <1>4, BlameStill

LEMMA BatchOnwardStill ==
  ASSUME NEW t, IsBatch(t)
  PROVE  Still(t.c, BatchOnward(t).c)
<1> DEFINE f == FlushPending(t.c)
<1>1. IsSocket(t.c) /\ Still(t.c, t.c)
  BY StillIs DEF IsBatch
<1>2. Still(t.c, f) /\ IsSocket(f)
  BY <1>1, FlushPendingStill, StillSocket
<1>3. Still(t.c, SendRecord(t.c).c)
  BY <1>1, SendRecordStill
<1>4. Still(t.c, SendRecord(f).c)
  BY <1>2, SendRecordStill, StillOnward
<1> HIDE DEF f
<1>5. BatchOnward(t).c \in {t.c, f, SendRecord(t.c).c, SendRecord(f).c}
  BY DEF BatchOnward, BatchMore, BatchPut, IsBatch, f
<1> QED  BY <1>1, <1>2, <1>3, <1>4, <1>5

LEMMA BatchedStill ==
  ASSUME NEW c, IsSocket(c), NEW n \in Nat
  PROVE  Still(c, Batched(c, n).c) /\ IsBatch(Batched(c, n))
<1>1. PICK r : IsBatchLoop(c, n, r) /\ Batched(c, n) = r[n]
  BY BatchRuns
<1> DEFINE S == {k \in Nat : k <= n => Still(c, r[k].c) /\ IsBatch(r[k])}
<1>2. 0 \in S
  <2>1. r[0] = BatchBegun(c)
    BY <1>1 DEF IsBatchLoop
  <2>2. r[0].c = c /\ IsBatch(r[0])
    BY <2>1 DEF BatchBegun, IsBatch
  <2> QED  BY <2>2, StillIs
<1>3. ASSUME NEW m \in S PROVE m + 1 \in S
  <2> SUFFICES ASSUME m + 1 <= n
               PROVE  Still(c, r[m + 1].c) /\ IsBatch(r[m + 1])
    OBVIOUS
  <2>1. m + 1 \in 1 .. n /\ m + 1 - 1 = m
    OBVIOUS
  <2>2. r[m + 1] = BatchOnward(r[m])
    BY <1>1, <2>1 DEF IsBatchLoop
  <2>3. Still(c, r[m].c) /\ IsBatch(r[m])
    OBVIOUS
  <2>4. Still(c, BatchOnward(r[m]).c) /\ IsBatch(BatchOnward(r[m]))
    BY <2>3, BatchOnwardStill, BatchOnwardSame, StillOnward
  <2> QED  BY <2>2, <2>4
<1> HIDE DEF S
<1>4. S = Nat
  BY <1>2, <1>3, Induct DEF S
<1> QED  BY <1>1, <1>4 DEF S

-----------------------------------------------------------------------------
\* d comes after c, and still of n units on their way; completion stays.
Well(c, d, n, called) ==
  /\ Good(d, n, called) /\ d.rx.completion = c.rx.completion
  /\ c.rx.completion => d.taken = c.taken

LEMMA WellStill ==
  ASSUME NEW c, NEW d, NEW n, NEW called, Well(c, d, n, called), NEW e, Still(d, e)
  PROVE  Well(c, e, n, called)
BY StillGood DEF Well

LEMMA WellBroken ==
  ASSUME NEW c, NEW d, NEW n, NEW called, Well(c, d, n, called)
  PROVE  Well(c, CheckBrokenState(d), n, called) /\ IsSocket(d)
<1>1. IsSocket(d)
  BY GoodSocket DEF Well
<1> QED  BY <1>1, CheckBrokenStill, WellStill

LEMMA WellOnward ==
  ASSUME NEW c, NEW d, NEW e, NEW n, NEW called, Well(c, d, n, called), Well(d, e, n, called)
  PROVE  Well(c, e, n, called)
BY DEF Well

LEMMA HandleWell ==
  ASSUME Flowing, NEW c, NEW n \in Nat, NEW called, Good(c, n, called)
  PROVE  LET h == HandleHandshake(c) IN
         /\ Well(c, h.c, n, called) /\ IsSocket(h.c)
         /\ h.may \in BOOLEAN /\ (h.may => h.c.state = "Done")
<1>1. PICK h : h = HandleHandshake(c)
  OBVIOUS
<1>2. /\ Good(h.c, n, called) /\ h.c.rx.completion = c.rx.completion
      /\ h.may \in BOOLEAN /\ (h.may => h.c.state = "Done")
      /\ c.rx.completion => h.c.taken = c.taken
  BY <1>1, HandleGood
<1> QED  BY <1>1, <1>2, GoodSocket DEF Well

LEMMA ReceiveWell ==
  ASSUME Flowing, NEW c, NEW n \in Nat, NEW called, Good(c, n, called), NEW room \in Nat
  PROVE  Well(c, Receive(c, room).c, n, called)
<1> DEFINE h == HandleHandshake(c)
           t == TryOpenInto(h.c, room)
           r == ReceiveThrough(h.c, room)
<1>1. /\ Well(c, h.c, n, called) /\ IsSocket(h.c)
      /\ h.may \in BOOLEAN /\ (h.may => h.c.state = "Done")
  BY HandleWell
<1>2. stream \in Seq(RecordKinds) /\ arrived \in Nat
  BY FlowingIs
<1>3. /\ Same(h.c, t.c, Transfer) /\ IsTurn(t)
      /\ Same(h.c, r.c, Transfer) /\ IsTurn(r)
  BY <1>1, <1>2, TryOpenSame, ReceiveThroughSame
<1> HIDE DEF h
<1>4. ASSUME h.may, ~Broken(h.c)
      PROVE  /\ Orderly(h.c, n) /\ Unbroken(h.c) /\ (n = 0 \/ h.c.rx.completion)
             /\ h.c.state \notin Handshaking /\ Good(h.c, n, called)
             /\ h.c.rx.completion = c.rx.completion
             /\ c.rx.completion => h.c.taken = c.taken /\ scenario.direct
  BY <1>1, <1>4, OpenAndReading DEF Well, Handshaking, Good, Ruled
<1>5. ASSUME h.may, ~Broken(h.c), scenario.direct PROVE Well(c, t.c, n, called)
  <2>1. h.c.part = 0
    BY <1>4, <1>5 DEF Good, Ruled
  <2>2. /\ Orderly(t.c, n) /\ t.c.part = 0 /\ t.c.rx.completion = h.c.rx.completion
        /\ h.c.rx.completion => t.c.taken = h.c.taken
    BY <1>2, <1>4, <1>5, <2>1, TryOpenIs
  <2> HIDE DEF t
  <2>3. Good(t.c, n, called)
    BY <1>3, <1>4, <1>5, <2>2, ReadIsGood
  <2> QED  BY <1>4, <1>5, <2>2, <2>3 DEF Well
<1>6. ASSUME h.may, ~Broken(h.c), ~scenario.direct PROVE Well(c, r.c, n, called)
  <2>2. Orderly(r.c, n) /\ r.c.rx.completion = h.c.rx.completion
    BY <1>2, <1>4, <1>6, ReceiveThroughIs
  <2> HIDE DEF r
  <2>3. Good(r.c, n, called)
    BY <1>3, <1>4, <1>6, <2>2, ReadIsGood
  <2> QED  BY <1>4, <1>6, <2>2, <2>3 DEF Well
<1>7. \/ Receive(c, room).c \in {h.c, CheckBrokenState(h.c)}
      \/ h.may /\ ~Broken(h.c) /\ scenario.direct /\ Receive(c, room).c \in {t.c, CheckBrokenState(t.c)}
      \/ h.may /\ ~Broken(h.c) /\ ~scenario.direct /\ Receive(c, room).c \in {r.c, CheckBrokenState(r.c)}
  <2> HIDE DEF t, r
  <2>1. CASE ~h.may
    BY <2>1 DEF Receive, Going, h
  <2>2. CASE h.may /\ Broken(h.c)
    BY <2>2 DEF Receive, Going, h
  <2>3. CASE h.may /\ ~Broken(h.c) /\ scenario.direct
    BY <1>3, <2>3 DEF Receive, IsTurn, h, t
  <2>4. CASE h.may /\ ~Broken(h.c) /\ ~scenario.direct
    BY <1>3, <2>4 DEF Receive, IsTurn, h, r
  <2> QED  BY <1>1, <2>1, <2>2, <2>3, <2>4
<1> HIDE DEF t, r
<1> QED  BY <1>1, <1>5, <1>6, <1>7, WellBroken

LEMMA SendNothingWell ==
  ASSUME Flowing, NEW c, NEW n \in Nat, NEW called, Good(c, n, called)
  PROVE  Well(c, SendNothing(c), n, called)
<1> DEFINE h == HandleHandshake(c)
<1>1. Well(c, h.c, n, called) /\ IsSocket(h.c)
  BY HandleWell
<1>2. Well(c, c, n, called)
  BY DEF Well
<1>3. Well(c, CheckBrokenState(h.c), n, called) /\ Well(c, FlushPending(h.c), n, called)
  BY <1>1, CheckBrokenStill, FlushPendingStill, WellStill
<1>4. SendNothing(c) \in {c, h.c, CheckBrokenState(h.c), FlushPending(h.c)}
  BY DEF SendNothing
<1> HIDE DEF h
<1> QED  BY <1>1, <1>2, <1>3, <1>4

LEMMA SendVectoredWell ==
  ASSUME Flowing, NEW c, NEW n \in Nat, NEW called, Good(c, n, called), NEW m \in Nat
  PROVE  Well(c, SendVectored(c, m).c, n, called)
<1> DEFINE h == HandleHandshake(c)
           b == Batched(h.c, m)
           d == Sealed(h.c, "data", m)
           f == FlushPending(b.c)
           g == FlushPending(d)
<1>1. Well(c, h.c, n, called) /\ IsSocket(h.c) /\ Well(c, c, n, called)
  BY HandleWell DEF Well
<1>2. Still(h.c, b.c) /\ IsBatch(b) /\ IsSocket(b.c)
  BY <1>1, BatchedStill, StillSocket
<1>3. Still(h.c, d) /\ IsSocket(d)
  BY <1>1, SealedStill, StillSocket
<1>4. Still(h.c, g)
  BY <1>3, FlushPendingStill, StillOnward
<1>5. Still(h.c, f)
  BY <1>2, FlushPendingStill, StillOnward
<1>6. Well(c, b.c, n, called) /\ Well(c, f, n, called) /\ Well(c, g, n, called)
  BY <1>1, <1>2, <1>4, <1>5, WellStill
<1> HIDE DEF h, b, d, f, g
<1>9. SendVectored(c, m).c \in
        {c, h.c, CheckBrokenState(h.c), g, b.c, f, CheckBrokenState(b.c), CheckBrokenState(f)}
  <2> DEFINE e == IF b.is = "Thrown" THEN b ELSE [b EXCEPT !.c = FlushPending(@)]
  <2>1. e.c \in {b.c, f} /\ DOMAIN e = {"c", "sent", "is"}
    BY <1>2 DEF IsBatch, f
  <2> HIDE DEF e
  <2>2. SendVectored(c, m).c \in {c, h.c, CheckBrokenState(h.c), g, e.c, CheckBrokenState(e.c)}
    BY <2>1 DEF SendVectored, e, h, b, d, g
  <2> QED  BY <2>1, <2>2
<1> QED  BY <1>1, <1>6, <1>9, WellBroken

LEMMA FailAllStill ==
  ASSUME NEW c, IsSocket(c)
  PROVE  Still(c, FailAllSendOperations(c))
BY FailAllSame, AsideIs, StillSame

LEMMA PostStill ==
  ASSUME NEW c, IsSocket(c), NEW jobs
  PROVE  Still(c, Post(c, jobs))
<1>1. {"mail"} \subseteq Aside \ {"ssl"}
  BY AsideIs
<1> QED  BY <1>1, PostSame, StillSame

LEMMA SetsStill ==
  ASSUME NEW c, IsSocket(c), NEW d, Same(c, d, Submitting \ {"ssl"})
  PROVE  Still(c, d)
BY AsideIs, StillSame

LEMMA SetStill ==
  ASSUME NEW c, IsSocket(c), NEW F, NEW d, Same(c, d, F), F \subseteq Submitting, "ssl" \notin F
  PROVE  Still(c, d)
<1>1. Same(c, d, Submitting \ {"ssl"})
  BY DEF Same
<1> QED  BY <1>1, SetsStill

LEMMA FailSendStill ==
  ASSUME NEW c, IsSocket(c)
  PROVE  Still(c, FailSend(c))
<1> DEFINE d == [c EXCEPT !.ssl = "WriteFailed"]
<1>1. Same(c, d, {"ssl"}) /\ d.ssl = "WriteFailed"
  BY DEF Same, IsSocket, Fields
<1>2. FailSend(c) = CheckBrokenState(d)
  BY DEF FailSend
<1> HIDE DEF d
<1>3. Same(c, d, Aside)
  BY <1>1, AsideIs DEF Same
<1>4. Still(c, d)
  BY <1>1, <1>3 DEF Still
<1> QED  BY <1>2, <1>4, CheckBrokenStill, StillOnward, StillSocket

LEMMA CloseStill ==
  ASSUME NEW c, IsSocket(c)
  PROVE  Still(c, Close(c))
<1> DEFINE d == [c EXCEPT !.failed = TRUE, !.events = {}]
<1>1. Same(c, d, {"failed", "events"})
  BY DEF Same, IsSocket, Fields
<1>2. Close(c) = FailAllSendOperations(d)
  BY DEF Close
<1> HIDE DEF d
<1>3. Still(c, d)
  BY <1>1, SetStill DEF Submitting
<1> QED  BY <1>2, <1>3, FailAllStill, StillOnward, StillSocket

LEMMA SubmitPinnedStill ==
  ASSUME NEW c, IsSocket(c), NEW buffer, NEW records, NEW takes
  PROVE  Still(c, SubmitPinnedSend(c, buffer, records, takes).c)
<1> DEFINE n == IF takes = "Partly" THEN Len(records) - 1 ELSE Len(records)
           submitted == [c EXCEPT
                      !.inFlight = @ + 1,
                      !.kernel = Append(@, [buffer |-> buffer, records |-> First(records, n),
                                            stage |-> "Queued"])]
           back == [c EXCEPT !.tx = ReleasePin(@, buffer)]
<1>1. Same(c, submitted, {"inFlight", "kernel"})
  BY DEF Same, IsSocket, Fields
<1>2. Same(c, back, {"tx"})
  BY DEF Same, IsSocket, Fields
<1>3. SubmitPinnedSend(c, buffer, records, takes).c \in
        {submitted, FailAllSendOperations(FailSend(submitted)), FailAllSendOperations(FailSend(back))}
  BY DEF SubmitPinnedSend
<1> HIDE DEF submitted, back, n
<1>4. Still(c, submitted) /\ Still(c, back)
  BY <1>1, <1>2, SetStill DEF Submitting
<1>5. \A d : Still(c, d) => Still(c, FailAllSendOperations(FailSend(d)))
  <2> TAKE d
  <2> HAVE Still(c, d)
  <2>1. Still(c, FailSend(d)) /\ IsSocket(FailSend(d))
    BY FailSendStill, StillOnward, StillSocket
  <2> QED  BY <2>1, FailAllStill, StillOnward
<1> QED  BY <1>3, <1>4, <1>5

LEMMA ParkStill ==
  ASSUME NEW c, IsSocket(c)
  PROVE  Still(c, ParkSendOperation(c))
<1>1. Same(c, ParkSendOperation(c), {"ops"})
  BY DEF ParkSendOperation, Same, IsSocket, Fields
<1> QED  BY <1>1, SetStill DEF Submitting

LEMMA CarryStill ==
  ASSUME NEW c, IsSocket(c), NEW submission, NEW takes, NEW r \in CarrySend(c, submission, takes)
  PROVE  Still(c, r.c)
<1> DEFINE Waits(w) ==
        IF submission THEN ParkSendOperation(w)
        ELSE Post([w EXCEPT !.held = 0], <<Completed(None, c.held, TRUE), Released(None)>>)
      Carries(w, next) ==
        IF next = None THEN [c |-> Waits(w), taken |-> TRUE]
        ELSE SubmitPinnedSend([w EXCEPT !.tx = BeginSend(@)], next, w.tx.out[next].records, takes)
<1>1. PICK tx : r = Carries([c EXCEPT !.tx = tx], NextBeginSend([c EXCEPT !.tx = tx]))
  BY DEF CarrySend
<1> DEFINE w == [c EXCEPT !.tx = tx]
           next == NextBeginSend(w)
<1>2. r = Carries(w, next)
  BY <1>1
<1>3. Same(c, w, {"tx"})
  BY DEF Same, IsSocket, Fields
<1> HIDE DEF w, next
<1>4. Still(c, w) /\ IsSocket(w)
  BY <1>3, SetStill, StillSocket DEF Submitting
<1>5. Still(w, Waits(w))
  <2>1. Still(w, ParkSendOperation(w))
    BY <1>4, ParkStill
  <2> DEFINE e == [w EXCEPT !.held = 0]
  <2>2. Same(w, e, {"held"})
    BY <1>4 DEF Same, IsSocket, Fields
  <2> HIDE DEF e
  <2>3. Still(w, e) /\ IsSocket(e)
    BY <1>4, <2>2, SetStill, StillSocket DEF Submitting
  <2>4. \A jobs : Still(w, Post(e, jobs))
    BY <2>3, PostStill, StillOnward
  <2>5. Waits(w) = ParkSendOperation(w)
          \/ Waits(w) = Post(e, <<Completed(None, c.held, TRUE), Released(None)>>)
    BY DEF e
  <2> HIDE DEF Waits
  <2> QED  BY <2>1, <2>4, <2>5
<1>6. CASE next = None
  <2>1. r.c = Waits(w)
    BY <1>2, <1>6
  <2> HIDE DEF Waits
  <2> QED  BY <2>1, <1>4, <1>5, StillOnward
<1>7. CASE next # None
  <2> DEFINE b == [w EXCEPT !.tx = BeginSend(@)]
  <2>1. Same(w, b, {"tx"})
    BY <1>4 DEF Same, IsSocket, Fields
  <2>3. r = SubmitPinnedSend(b, next, w.tx.out[next].records, takes)
    BY <1>2, <1>7
  <2> HIDE DEF b
  <2>4. Still(w, b) /\ IsSocket(b)
    BY <1>4, <2>1, SetStill, StillSocket DEF Submitting
  <2>5. Still(b, r.c)
    BY <2>3, <2>4, SubmitPinnedStill
  <2> QED  BY <1>4, <2>4, <2>5, StillOnward
<1> QED  BY <1>6, <1>7

LEMMA RefusedStill ==
  ASSUME NEW c, IsSocket(c)
  PROVE  Still(c, Refused(c).c)
BY CheckBrokenStill DEF Refused

LEMMA ContinueSendStill ==
  ASSUME NEW c, IsSocket(c), NEW takes, NEW r \in ContinueSend(c, takes)
  PROVE  Still(c, r.c)
<1>1. r = Refused(c) \/ r \in CarrySend(c, FALSE, takes)
  BY DEF ContinueSend
<1> QED  BY <1>1, RefusedStill, CarryStill

LEMMA SubmitSendStill ==
  ASSUME NEW c, IsSocket(c), NEW n, NEW k, NEW takes, NEW r \in SubmitSend(c, n, k, takes)
  PROVE  Still(c, r.c)
<1> DEFINE b == IF k < n THEN [c EXCEPT !.ssl = "WriteFailed"] ELSE c
           d == Sealed(b, "data", k)
           e == AllocateSendOperation(d, NewOperation(c.tx.fill, k))
<1>1. Still(c, b) /\ IsSocket(b)
  <2>1. Same(c, b, {"ssl"}) /\ b.ssl \in {c.ssl, "WriteFailed"}
    BY DEF Same, IsSocket, Fields
  <2> HIDE DEF b
  <2>2. Same(c, b, Aside)
    BY <2>1, AsideIs DEF Same
  <2>3. Still(c, b)
    BY <2>1, <2>2 DEF Still
  <2> QED  BY <2>3, StillSocket
<1>2. Still(c, d) /\ IsSocket(d)
  <2> HIDE DEF b
  <2> QED  BY <1>1, SealedStill, StillOnward, StillSocket
<1>3. Still(c, e) /\ IsSocket(e)
  <2> HIDE DEF b, d
  <2>1. Same(d, e, {"ops"})
    BY <1>2 DEF Same, IsSocket, Fields, AllocateSendOperation
  <2> HIDE DEF e
  <2>2. Still(d, e)
    BY <1>2, <2>1, SetStill DEF Submitting
  <2> QED  BY <1>2, <2>2, StillOnward, StillSocket
<1>4. \/ r = Refused(c)
      \/ r = [c |-> FailSend(c), taken |-> FALSE]
      \/ r = [c |-> ParkSendOperation(e), taken |-> TRUE]
      \/ r \in CarrySend(e, TRUE, takes)
  <2>1. CASE Refuses(c)
    BY <2>1 DEF SubmitSend
  <2>2. CASE ~Refuses(c) /\ k = 0
    BY <2>2 DEF SubmitSend
  <2>3. CASE ~Refuses(c) /\ k # 0
    BY <2>3 DEF SubmitSend
  <2> QED  BY <2>1, <2>2, <2>3
<1> HIDE DEF b, d, e
<1>6. CASE r = Refused(c)
  BY <1>6, RefusedStill
<1>7. CASE r = [c |-> FailSend(c), taken |-> FALSE]
  <2>1. r.c = FailSend(c)
    BY <1>7
  <2> QED  BY <2>1, FailSendStill
<1>8. CASE r = [c |-> ParkSendOperation(e), taken |-> TRUE]
  <2>1. r.c = ParkSendOperation(e)
    BY <1>8
  <2> QED  BY <1>3, <2>1, ParkStill, StillOnward
<1>9. CASE r \in CarrySend(e, TRUE, takes)
  <2>1. Still(e, r.c)
    BY <1>3, <1>9, CarryStill, Zenon
  <2> QED  BY <1>3, <2>1, StillOnward
<1> QED  BY <1>4, <1>6, <1>7, <1>8, <1>9

LEMMA ReleaseStill ==
  ASSUME NEW c, IsSocket(c), NEW buffer
  PROVE  Still(c, ResolveSendRelease(c, buffer))
<1> DEFINE b == [c EXCEPT !.tx = ReleasePin(@, buffer)]
           d == ReleaseOpsForBuffer(b, buffer)
           e == [d EXCEPT !.windowPending = FALSE, !.tx = WithWindow(@, c.window)]
<1>1. Same(c, b, {"tx"})
  BY DEF Same, IsSocket, Fields
<1> HIDE DEF b
<1>2. Still(c, b) /\ IsSocket(b)
  BY <1>1, SetStill, StillSocket DEF Submitting
<1>3. PICK ops, jobs : d = Post([b EXCEPT !.ops = ops], jobs)
  BY DEF ReleaseOpsForBuffer
<1> DEFINE o == [b EXCEPT !.ops = ops]
<1>4. Same(b, o, {"ops"})
  BY <1>2 DEF Same, IsSocket, Fields
<1>5. d = Post(o, jobs)
  BY <1>3
<1> HIDE DEF o, d
<1>6. Still(b, o) /\ IsSocket(o)
  BY <1>2, <1>4, SetStill, StillSocket DEF Submitting
<1>7. Still(o, d) /\ IsSocket(d)
  BY <1>5, <1>6, PostStill, StillSocket
<1>8. Same(d, e, {"windowPending", "tx"})
  BY <1>7 DEF Same, IsSocket, Fields
<1>9. ResolveSendRelease(c, buffer) \in {d, e}
  BY DEF ResolveSendRelease, b, d
<1> HIDE DEF e
<1>10. Still(d, e)
  BY <1>7, <1>8, SetStill DEF Submitting
<1>11. Still(c, d) /\ Still(c, e)
  BY <1>2, <1>6, <1>7, <1>10, StillOnward
<1> QED  BY <1>9, <1>11

LEMMA ResolveSendWell ==
  ASSUME NEW c, NEW n, NEW called, Good(c, n, called), NEW transfer, NEW ok
  PROVE  Well(c, ResolveSend(c, transfer, ok).c, n, called)
<1> DEFINE counted == [c EXCEPT !.inFlight = @ - 1]
           Told(p) == [p EXCEPT !.held = 0]
           drained == [counted EXCEPT !.tx = SendDrained(@, transfer)]
           p == ResolveOpsForBuffer(drained, transfer)
           marked == IF CanBeginSend(p) THEN p ELSE [p EXCEPT !.wasFull = TRUE]
           broke == [counted EXCEPT !.failed = TRUE]
<1>0. IsSocket(c) /\ Still(c, c)
  BY StillIs, GoodSocket
<1>1. Still(c, counted) /\ IsSocket(counted)
  <2>1. Same(c, counted, {"inFlight"})
    BY <1>0 DEF Same, IsSocket, Fields
  <2> HIDE DEF counted
  <2> QED  BY <1>0, <2>1, SetStill, StillSocket DEF Submitting
<1>2. Still(c, drained) /\ IsSocket(drained)
  <2> HIDE DEF counted
  <2>1. Same(counted, drained, {"tx"})
    BY <1>1 DEF Same, IsSocket, Fields
  <2> HIDE DEF drained
  <2>2. Still(counted, drained)
    BY <1>1, <2>1, SetStill DEF Submitting
  <2> QED  BY <1>1, <2>2, StillOnward, StillSocket
<1>3. Still(c, p) /\ IsSocket(p)
  <2> HIDE DEF drained
  <2>1. Same(drained, p, {"ops", "held", "mail"})
    BY <1>2, ResolveOpsSame
  <2> HIDE DEF p
  <2>2. Still(drained, p)
    BY <1>2, <2>1, SetStill DEF Submitting
  <2> QED  BY <1>2, <2>2, StillOnward, StillSocket
<1>4. Still(c, broke) /\ IsSocket(broke)
  <2> HIDE DEF counted
  <2>1. Same(counted, broke, {"failed"})
    BY <1>1 DEF Same, IsSocket, Fields
  <2> HIDE DEF broke
  <2>2. Still(counted, broke)
    BY <1>1, <2>1, SetStill DEF Submitting
  <2> QED  BY <1>1, <2>2, StillOnward, StillSocket
<1>5. Still(c, marked) /\ IsSocket(marked)
  <2> HIDE DEF p
  <2>1. Same(p, marked, {"wasFull"})
    BY <1>3 DEF Same, IsSocket, Fields
  <2> HIDE DEF marked
  <2>2. Still(p, marked)
    BY <1>3, <2>1, SetStill DEF Submitting
  <2> QED  BY <1>3, <2>2, StillOnward, StillSocket
<1>6. ASSUME NEW d, Still(c, d)
      PROVE  Still(c, Told(d)) /\ IsSocket(Told(d))
  <2>1. Same(d, Told(d), {"held"}) /\ IsSocket(d)
    BY <1>6, StillSocket DEF Same, IsSocket, Fields
  <2> HIDE DEF Told
  <2>2. Still(d, Told(d))
    BY <2>1, SetStill DEF Submitting
  <2> QED  BY <1>6, <2>2, StillOnward, StillSocket
<1> DEFINE x == FailAllSendOperations(Told(broke))
           y == CheckBrokenState(Told(p))
           z == MaybeShut(c, Told(marked))
<1>7. ResolveSend(c, transfer, ok).c \in {x, counted, y, marked, z}
  <2>1. CASE ~ok
    BY <2>1 DEF ResolveSend
  <2>2. CASE ok /\ c.failed
    BY <2>2 DEF ResolveSend
  <2>3. CASE ok /\ ~c.failed
    <3>1. CASE Broken(p)
      <4>1. ResolveSend(c, transfer, ok).c = y
        BY <2>3, <3>1 DEF ResolveSend
      <4> QED  BY <4>1
    <3>2. CASE ~Broken(p)
      <4>1. ResolveSend(c, transfer, ok) =
              IF HasPendingOutput(marked) THEN [c |-> marked, over |-> FALSE, n |-> 0]
              ELSE [c |-> z, over |-> TRUE, n |-> marked.held]
        BY <2>3, <3>2 DEF ResolveSend, MaybeShut
      <4> HIDE DEF marked, z
      <4>2. ResolveSend(c, transfer, ok).c \in {marked, z}
        BY <4>1
      <4> QED  BY <4>2
    <3> QED  BY <3>1, <3>2
  <2> QED  BY <2>1, <2>2, <2>3
<1> HIDE DEF counted, drained, p, marked, broke
<1>8. Still(c, Told(broke)) /\ Still(c, Told(p)) /\ Still(c, Told(marked))
      /\ IsSocket(Told(broke)) /\ IsSocket(Told(p)) /\ IsSocket(Told(marked))
  BY <1>3, <1>4, <1>5, <1>6
<1> HIDE DEF Told
<1>9. Still(c, x) /\ Still(c, y)
  BY <1>8, FailAllStill, CheckBrokenStill, StillOnward
<1>10. \A d : Still(c, d) => Well(c, d, n, called)
  BY <1>0, WellStill DEF Well
<1>11. Well(c, z, n, called)
  <2>1. PICK d : d = Told(marked)
    OBVIOUS
  <2>2. Good(d, n, called) /\ d.rx = c.rx /\ d.state = c.state /\ d.taken = c.taken
    BY <1>8, <2>1, StillGood
  <2>3. z \in {d, ContinueShutdown(d)} /\ (z = d \/ c.state = "Shutdown")
    BY <2>1 DEF MaybeShut
  <2>4. ASSUME c.state = "Shutdown"
        PROVE  Good(ContinueShutdown(d), n, called) /\ ContinueShutdown(d).rx = d.rx
               /\ ContinueShutdown(d).taken = d.taken
    BY <2>2, <2>4, ContinueShutdownGood DEF Shutting
  <2> HIDE DEF z
  <2> QED  BY <2>2, <2>3, <2>4 DEF Well
<1> HIDE DEF x, y, z
<1> QED  BY <1>1, <1>5, <1>7, <1>9, <1>10, <1>11

-----------------------------------------------------------------------------
(* Segments and what is held.                                              *)

\* Another queue that goes on where the library has read to.
LEMMA RequeuedGood ==
  ASSUME NEW c, NEW n, NEW called, Good(c, n, called), NEW d, Same(c, d, {"rx"}), NEW p \in Nat,
         Queues(c.rx, d.rx, Interval(Place(c), p)), NEW m, m = 0 \/ c.rx.completion,
         TurnedAway(c) \/ Place(c) + p + m = c.taken
  PROVE  /\ Good(d, m, called) /\ d.rx.completion = c.rx.completion /\ d.taken = c.taken
         /\ d.state = c.state /\ d.ssl = c.ssl
<1>1. DOMAIN c = Fields /\ DOMAIN d = Fields
  BY DEF Good, Hand, IsSocket, Same
<1>2. /\ d.part = c.part /\ d.given = c.given /\ d.read = c.read
      /\ d.taken = c.taken /\ d.ssl = c.ssl
  BY <1>1 DEF Same, Fields
<1>3. d.state = c.state /\ d.connected = c.connected /\ d.script = c.script
  BY <1>1 DEF Same, Fields
<1>4. DOMAIN c.rx = RxFields /\ QueueOk(d.rx) /\ Same(c.rx, d.rx, Queueing)
      /\ CipherPending(d.rx) = Interval(Place(c), p)
  BY DEF Queues, Good, Shaped, QueueOk
<1>5. d.rx.held = c.rx.held /\ d.rx.afterHeld = c.rx.afterHeld /\ d.rx.completion = c.rx.completion
  BY <1>4 DEF Same, RxFields, Queueing
<1>6. Place(d) = Place(c)
  BY <1>2 DEF Place
<1>7. Hand(d)
  <2>1. Same(c, d, Others)
    BY DEF Same, Others, Fields
  <2> QED  BY <2>1, HandHolds DEF Good
<1>8. Shaped(d)
  BY <1>1, <1>2, <1>4, <1>5 DEF Good, Shaped, IsSocket
<1>9. Plain(d)
  BY <1>2, <1>5 DEF Good, Plain
<1>10. Loose(d)
  BY <1>2, <1>4, <1>6 DEF Good, Loose
<1>11. Awaits(c) => Awaits(d)
  BY <1>2, <1>3 DEF Awaits
<1>12. Ruled(d, called)
  BY <1>2, <1>3, <1>5, <1>11 DEF Good, Ruled
<1>13. TurnedAway(c) => TurnedAway(d)
  BY <1>2, <1>3 DEF TurnedAway, ReceiveRefused, Broken
<1>14. Place(c) + p + m = c.taken => InStep(d, m)
  BY <1>2, <1>4, <1>6, <1>10 DEF InStep, Loose
<1>15. Fits(d, m)
  BY <1>5, <1>13, <1>14 DEF Fits
<1> QED  BY <1>2, <1>3, <1>5, <1>7, <1>8, <1>9, <1>10, <1>12, <1>15 DEF Good

LEMMA CompactedGood ==
  ASSUME NEW c, NEW n, NEW called, Good(c, n, called)
  PROVE  LET d == [c EXCEPT !.rx = CompactIfStalled(@)] IN
         Good(d, n, called) /\ d.rx.completion = c.rx.completion /\ d.taken = c.taken
<1> DEFINE d == [c EXCEPT !.rx = CompactIfStalled(@)]
<1>1. Same(c, d, {"rx"}) /\ d.rx = CompactIfStalled(c.rx)
  BY DEF Good, Hand, Same, IsSocket, Fields
<1>2. Queues(c.rx, d.rx, CipherPending(c.rx))
  BY <1>1, CompactStalledIs DEF Good, Shaped
<1>3. PICK p \in Nat : /\ CipherPending(c.rx) = Interval(Place(c), p)
                       /\ TurnedAway(c) \/ Place(c) + p + n = c.taken
  BY DEF Good, Loose, Fits, InStep
<1>4. Queues(c.rx, d.rx, Interval(Place(c), p)) /\ (n = 0 \/ c.rx.completion)
  BY <1>2, <1>3 DEF Good, Fits
<1> HIDE DEF d
<1> QED  BY ZenonT(60), <1>1, <1>3, <1>4, RequeuedGood DEF d

\* A segment joins the queue, of a socket that takes it.
LEMMA AppendedGood ==
  ASSUME Flowing, NEW c, NEW n \in Nat, NEW called, Good(c, n, called), ~TurnedAway(c),
         c.rx.completion, NEW k \in Nat, NEW m \in Nat, n = k + m, NEW a \in Nat, a + n = c.taken,
         NEW d, Same(c, d, {"rx"}), d.rx = AppendSegment(c.rx, Interval(a, k))
  PROVE  /\ Good(d, m, called) /\ d.rx.completion = c.rx.completion /\ d.taken = c.taken
         /\ d.state = c.state /\ d.ssl = c.ssl
<1>2. Interval(a, k) \in Datas
  BY IntervalIs DEF Datas
<1>3. Queues(c.rx, d.rx, Joined(CipherPending(c.rx), Interval(a, k)))
  BY <1>2, AppendSegmentIs DEF Good, Shaped
<1>4. PICK p \in Nat : CipherPending(c.rx) = Interval(Place(c), p) /\ Place(c) + p + n = c.taken
  BY DEF Good, Fits, InStep
<1>5. PICK h \in Nat : h = Place(c)
  BY FlowingIs, PlaceIs DEF Good
<1>6. a = h + p /\ h + (p + k) + m = c.taken
  <2>1. PICK u \in Nat : u = a + n /\ u = c.taken /\ h + p + n = u
    BY <1>4, <1>5
  <2>2. a = h + p /\ h + (p + k) + m = u
    BY <2>1
  <2> QED  BY <2>1, <2>2
<1>7. Joined(Interval(h, p), Interval(a, k)) = Interval(h, p + k)
  BY <1>6, IntervalJoin
<1>8. PICK q \in Nat : q = p + k
  OBVIOUS
<1>9. Queues(c.rx, d.rx, Interval(Place(c), q)) /\ Place(c) + q + m = c.taken
  BY <1>3, <1>4, <1>5, <1>6, <1>7, <1>8
<1>10. Good(d, m, called)
  BY <1>9, RequeuedGood
<1>11. d.rx.completion = c.rx.completion /\ d.taken = c.taken /\ d.state = c.state /\ d.ssl = c.ssl
  BY <1>9, RequeuedGood
<1> QED  BY <1>10, <1>11

\* A socket on completion opens what it holds.
LEMMA OpensWell ==
  ASSUME Flowing, NEW c, NEW n \in Nat, NEW called, Good(c, n, called), c.rx.completion,
         ~ReceiveRefused(c), NEW room \in Nat
  PROVE  Well(c, TryOpenInto(c, room).c, n, called)
<1> DEFINE t == TryOpenInto(c, room)
<1>1. c.state \notin Handshaking /\ scenario.direct /\ c.part = 0
  BY DEF Good, Ruled
<1>2. Orderly(c, n) /\ Unbroken(c)
  BY GoodIsOrderly DEF TurnedAway, ReceiveRefused, Broken, Unbroken
<1>3. stream \in Seq(RecordKinds) /\ arrived \in Nat
  BY FlowingIs
<1>4. /\ Orderly(t.c, n) /\ t.c.part = 0 /\ t.c.rx.completion = c.rx.completion
      /\ t.c.taken = c.taken
  BY <1>1, <1>2, <1>3, TryOpenIs
<1>5. Same(c, t.c, Transfer)
  BY <1>3, TryOpenSame, GoodSocket
<1> HIDE DEF t
<1>6. Good(t.c, n, called)
  BY <1>1, <1>4, <1>5, ReadIsGood
<1> QED  BY <1>4, <1>6 DEF Well, t

\* f_ResolveHeld
LEMMA ResolveHeldWell ==
  ASSUME Flowing, NEW c, NEW n \in Nat, NEW called, Good(c, n, called), c.rx.completion,
         NEW room \in Nat
  PROVE  Well(c, ResolveHeld(c, room).c, n, called)
<1>1. CASE ReceiveRefused(c)
  <2>1. ResolveHeld(c, room).c = c
    BY <1>1 DEF ResolveHeld
  <2> QED  BY <2>1 DEF Well
<1>2. CASE ~ReceiveRefused(c)
  <2>1. ResolveHeld(c, room).c = CheckBrokenState(TryOpenInto(c, room).c)
    BY <1>2 DEF ResolveHeld
  <2> QED  BY <1>2, <2>1, OpensWell, WellBroken
<1> QED  BY <1>1, <1>2

\* f_ResolveReceiveSegment, of k of the units on their way
LEMMA SegmentWell ==
  ASSUME Flowing, NEW c, NEW n \in Nat, NEW called, Good(c, n, called), c.rx.completion,
         NEW room \in Nat, NEW k \in Nat, NEW m \in Nat, n = k + m, NEW a \in Nat, a + n = c.taken,
         NEW segment, segment.data = Interval(a, k), segment.kind # "Data" => k = 0
  PROVE  Well(c, ResolveReceiveSegment(c, segment, room).c, m, called)
<1>0. c.state \notin Handshaking
  BY DEF Good, Ruled
<1>1. CASE ReceiveRefused(c)
  <2> DEFINE d == [c EXCEPT !.rx = ClearCipherQueue(@)]
  <2>1. ResolveReceiveSegment(c, segment, room).c = CheckBrokenState(d)
    BY <1>1 DEF ResolveReceiveSegment
  <2>2. Same(c, d, {"rx"}) /\ d.rx = ClearCipherQueue(c.rx)
    BY DEF Good, Hand, Same, IsSocket, Fields
  <2>3. PICK h \in Nat : h = Place(c)
    BY FlowingIs, PlaceIs DEF Good
  <2>4. Interval(h, 0) = <<>>
    BY IntervalNone
  <2>5. Queues(c.rx, d.rx, Interval(Place(c), 0))
    BY <2>2, <2>3, <2>4, ClearIs DEF Good, Shaped
  <2> HIDE DEF d
  <2>6. /\ TurnedAway(c) \/ Place(c) + 0 + m = c.taken
        /\ 0 \in Nat /\ (m = 0 \/ c.rx.completion)
    BY <1>0, <1>1 DEF TurnedAway
  <2>7. Good(d, m, called) /\ d.rx.completion = c.rx.completion /\ d.taken = c.taken
    <3>1. PICK e \in Nat : e = 0
      OBVIOUS
    <3>2. Queues(c.rx, d.rx, Interval(Place(c), e)) /\ (TurnedAway(c) \/ Place(c) + e + m = c.taken)
      BY <2>5, <2>6, <3>1
    <3>3. Good(c, n, called) /\ Same(c, d, {"rx"}) /\ (m = 0 \/ c.rx.completion)
      BY <2>2, <2>6
    <3>4. Good(d, m, called)
      BY <3>2, <3>3, RequeuedGood
    <3>5. d.rx.completion = c.rx.completion /\ d.taken = c.taken
      BY <3>2, <3>3, RequeuedGood
    <3> QED  BY <3>4, <3>5
  <2>8. Well(c, d, m, called)
    BY <2>7 DEF Well
  <2> QED  BY <2>1, <2>8, WellBroken
<1>2. CASE ~ReceiveRefused(c)
  <2> DEFINE b == IF segment.kind = "Data"
                  THEN [c EXCEPT !.rx = AppendSegment(@, segment.data)] ELSE c
             t == TryOpenInto(b, room).c
             f == FlushPending(t)
             p == CheckBrokenState(f)
             z == [p EXCEPT !.rx = CompactIfStalled(@)]
  <2>1. ResolveReceiveSegment(c, segment, room).c \in {p, z}
    BY <1>2 DEF ResolveReceiveSegment
  <2>2. /\ Good(b, m, called) /\ b.rx.completion = c.rx.completion /\ b.taken = c.taken
        /\ b.state = c.state /\ b.ssl = c.ssl
    <3>1. CASE segment.kind = "Data"
      <4>1. b = [c EXCEPT !.rx = AppendSegment(@, Interval(a, k))]
        BY <3>1
      <4>2. ~TurnedAway(c)
        BY <1>2 DEF TurnedAway
      <4>3. Same(c, b, {"rx"}) /\ b.rx = AppendSegment(c.rx, Interval(a, k))
        BY <4>1 DEF Good, Hand, Same, IsSocket, Fields
      <4> HIDE DEF b
      <4>4. Good(b, m, called)
        BY <4>2, <4>3, AppendedGood
      <4>5. b.rx.completion = c.rx.completion
        <5>1. Interval(a, k) \in Datas
          BY IntervalIs DEF Datas
        <5>2. Queues(c.rx, b.rx, Joined(CipherPending(c.rx), Interval(a, k)))
          BY <4>3, <5>1, AppendSegmentIs DEF Good, Shaped
        <5> QED  BY <5>2 DEF Queues, QueueOk, Same, Queueing, RxFields
      <4>7. b.taken = c.taken
        BY <4>3 DEF Good, Hand, Same, IsSocket, Fields
      <4>6. b.state = c.state /\ b.ssl = c.ssl
        BY <4>2, <4>3, AppendedGood
      <4> QED  BY <4>4, <4>5, <4>6, <4>7
    <3>2. CASE segment.kind # "Data"
      <4>1. m = n /\ b = c
        BY <3>2
      <4> QED  BY <4>1
    <3> QED  BY <3>1, <3>2
  <2> HIDE DEF b
  <2>3. ~ReceiveRefused(b)
    BY <1>2, <2>2 DEF ReceiveRefused, Broken
  <2>4. Well(b, t, m, called)
    BY <2>2, <2>3, OpensWell
  <2>5. Well(c, t, m, called) /\ IsSocket(t)
    BY <2>2, <2>4, GoodSocket DEF Well
  <2> HIDE DEF t
  <2>6. Well(c, f, m, called)
    BY <2>5, FlushPendingStill, WellStill
  <2> HIDE DEF f
  <2>7. Well(c, p, m, called)
    BY <2>6, WellBroken
  <2> HIDE DEF p
  <2>8. Well(c, z, m, called)
    BY <2>7, CompactedGood DEF Well
  <2> HIDE DEF z
  <2> QED  BY <2>1, <2>7, <2>8
<1> QED  BY <1>1, <1>2

-----------------------------------------------------------------------------
(* The segments on their way.                                              *)

\* The segments of a mailbox carry the n units behind the first of a, in order.
Marks(q, a, n, at) ==
  /\ at \in [0 .. Len(q) -> Nat] /\ at[0] = a /\ at[Len(q)] = a + n
  /\ \A k \in 1 .. Len(q) :
       /\ at[k - 1] <= at[k] /\ q[k].data = Interval(at[k - 1], at[k] - at[k - 1])
       /\ q[k].kind # "Data" => at[k] = at[k - 1]
Follows(q, a, n) == \E at : Marks(q, a, n, at)

AnySegments == [kind : {"Data", "Lost", "Eof"}, data : Datas]

LEMMA NoneFollows ==
  ASSUME NEW a \in Nat
  PROVE  Follows(<<>>, a, 0)
<1>1. Marks(<<>>, a, 0, [k \in 0 .. 0 |-> a])
  BY DEF Marks
<1> QED  BY <1>1 DEF Follows

LEMMA MarksRise ==
  ASSUME NEW q \in Seq(AnySegments), NEW a \in Nat, NEW n \in Nat, NEW at, Marks(q, a, n, at)
  PROVE  \A k \in 0 .. Len(q) : at[k] <= a + n
<1>1. PICK l \in Nat : l = Len(q)
  OBVIOUS
<1>2. PICK e \in Nat : e = a + n
  OBVIOUS
<1>3. at \in [0 .. l -> Nat] /\ at[l] = e /\ \A k \in 1 .. l : at[k - 1] <= at[k]
  BY <1>1, <1>2 DEF Marks
<1> DEFINE S == {m \in Nat : m <= l => at[l - m] <= e}
<1>4. 0 \in S
  BY <1>3
<1>5. ASSUME NEW m \in S PROVE m + 1 \in S
  <2> SUFFICES ASSUME m + 1 <= l PROVE at[l - (m + 1)] <= e
    OBVIOUS
  <2>1. PICK k \in 1 .. l : k = l - m
    BY <1>1
  <2>2. at[k] <= e /\ at[k - 1] <= at[k] /\ at[k] \in Nat /\ at[k - 1] \in Nat
    <3>1. k - 1 \in 0 .. l /\ k \in 0 .. l
      OBVIOUS
    <3> QED  BY <1>3, <2>1, <3>1
  <2>3. k - 1 = l - (m + 1)
    BY <2>1
  <2>4. at[k - 1] <= e
    BY <2>2
  <2> QED  BY <2>3, <2>4
<1> HIDE DEF S
<1>6. S = Nat
  BY <1>4, <1>5, Induct DEF S
<1>7. ASSUME NEW k \in 0 .. l PROVE at[k] <= e
  <2>1. PICK m \in Nat : m = l - k /\ m <= l /\ k = l - m
    OBVIOUS
  <2>2. m \in S
    BY <1>6
  <2> QED  BY <2>1, <2>2 DEF S
<1> QED  BY <1>1, <1>2, <1>7

LEMMA FirstFollows ==
  ASSUME NEW q \in Seq(AnySegments), q # <<>>, NEW a \in Nat, NEW n \in Nat, Follows(q, a, n)
  PROVE  \E k, m \in Nat :
           /\ n = k + m /\ Head(q).data = Interval(a, k) /\ (Head(q).kind # "Data" => k = 0)
           /\ Follows(Tail(q), a + k, m)
<1>1. PICK at : Marks(q, a, n, at)
  BY DEF Follows
<1>2. PICK l \in Nat \ {0} : l = Len(q)
  OBVIOUS
<1>3. PICK t \in Seq(AnySegments) : t = Tail(q) /\ Len(t) = l - 1 /\ \A i \in 1 .. l - 1 : t[i] = q[i + 1]
  <2>1. /\ Tail(q) \in Seq(AnySegments) /\ Len(Tail(q)) = Len(q) - 1
        /\ \A i \in 1 .. Len(Tail(q)) : Tail(q)[i] = q[i + 1]
    BY HeadTailProperties
  <2> QED  BY <1>2, <2>1
<1>4. /\ at \in [0 .. l -> Nat] /\ at[0] = a /\ at[l] = a + n
      /\ \A k \in 1 .. l : at[k - 1] <= at[k]
      /\ \A k \in 1 .. l : q[k].data = Interval(at[k - 1], at[k] - at[k - 1])
      /\ \A k \in 1 .. l : q[k].kind # "Data" => at[k] = at[k - 1]
  BY <1>1, <1>2 DEF Marks
<1>5. PICK b \in Nat : b = at[1] /\ a <= b /\ b <= a + n
  <2>1. 1 \in 0 .. l /\ 1 \in 1 .. l /\ 1 - 1 = 0
    OBVIOUS
  <2>2. at[1] \in Nat /\ a <= at[1]
    BY <1>4, <2>1
  <2>3. at[1] <= a + n
    BY <1>1, <1>2, <2>1, MarksRise
  <2> QED  BY <2>2, <2>3
<1>6. PICK k \in Nat, m \in Nat : k = b - a /\ m = a + n - b /\ n = k + m /\ b = a + k
  <2>1. b - a \in Nat /\ a + n - b \in Nat /\ n = (b - a) + (a + n - b) /\ b = a + (b - a)
    BY <1>5
  <2> QED  BY <2>1
<1>7. Head(q).data = Interval(a, k) /\ (Head(q).kind # "Data" => k = 0)
  <2>1. 1 \in 1 .. l /\ 1 - 1 = 0 /\ Head(q) = q[1]
    BY <1>2
  <2>2. q[1].data = Interval(at[0], at[1] - at[0]) /\ (q[1].kind # "Data" => at[1] = at[0])
    <3>1. \A i \in 1 .. l : i = 1 => i - 1 = 0
      OBVIOUS
    <3>2. q[1].data = Interval(at[1 - 1], at[1] - at[1 - 1]) /\ (q[1].kind # "Data" => at[1] = at[1 - 1])
      BY <1>4, <2>1
    <3> QED  BY <2>1, <3>2
  <2>3. at[0] = a /\ at[1] = b /\ b - a = k /\ (b = a => k = 0)
    BY <1>4, <1>5, <1>6
  <2> QED  BY <2>1, <2>2, <2>3
<1> DEFINE u == [i \in 0 .. l - 1 |-> at[i + 1]]
<1>8. Marks(t, b, m, u)
  <2>1. u \in [0 .. Len(t) -> Nat]
    <3>1. \A i \in 0 .. l - 1 : i + 1 \in 0 .. l
      OBVIOUS
    <3>2. \A i \in 0 .. l - 1 : at[i + 1] \in Nat
      BY <1>4, <3>1
    <3> QED  BY <1>3, <3>2
  <2>2. u[0] = b
    <3>1. 0 \in 0 .. l - 1 /\ 0 + 1 = 1
      OBVIOUS
    <3> QED  BY <1>5, <3>1
  <2>3. u[Len(t)] = b + m
    <3>1. l - 1 \in 0 .. l - 1 /\ l - 1 + 1 = l /\ b + m = a + n
      BY <1>6
    <3> QED  BY <1>3, <1>4, <3>1
  <2>4. ASSUME NEW i \in 1 .. Len(t)
        PROVE  /\ u[i - 1] <= u[i] /\ t[i].data = Interval(u[i - 1], u[i] - u[i - 1])
               /\ t[i].kind # "Data" => u[i] = u[i - 1]
    <3>1. /\ i - 1 \in 0 .. l - 1 /\ i \in 0 .. l - 1 /\ i + 1 \in 1 .. l /\ i \in 1 .. l - 1
          /\ i - 1 + 1 = i /\ i + 1 - 1 = i
      BY <1>3
    <3>2. u[i - 1] = at[i] /\ u[i] = at[i + 1] /\ t[i] = q[i + 1]
      BY <1>3, <3>1
    <3> HIDE DEF u
    <3>3. /\ at[i] <= at[i + 1] /\ q[i + 1].data = Interval(at[i], at[i + 1] - at[i])
          /\ q[i + 1].kind # "Data" => at[i + 1] = at[i]
      <4>0. PICK j \in 1 .. l : j = i + 1 /\ j - 1 = i
        BY <3>1
      <4>1. /\ at[j - 1] <= at[j] /\ q[j].data = Interval(at[j - 1], at[j] - at[j - 1])
            /\ q[j].kind # "Data" => at[j] = at[j - 1]
        BY <1>4
      <4> QED  BY <4>0, <4>1
    <3> QED  BY <3>2, <3>3
  <2> QED  BY <2>1, <2>2, <2>3, <2>4 DEF Marks
<1>9. Follows(Tail(q), a + k, m)
  BY <1>3, <1>6, <1>8 DEF Follows
<1> QED  BY <1>6, <1>7, <1>9

LEMMA NoneLeft ==
  ASSUME NEW a \in Nat, NEW n \in Nat, Follows(<<>>, a, n)
  PROVE  n = 0
<1>1. PICK at : Marks(<<>>, a, n, at)
  BY DEF Follows
<1>2. at[0] = a /\ at[0] = a + n
  BY <1>1 DEF Marks
<1> QED  BY <1>2

LEMMA LastFollows ==
  ASSUME NEW q \in Seq(AnySegments), NEW a \in Nat, NEW n \in Nat, Follows(q, a, n),
         NEW k \in Nat, NEW x \in AnySegments, x.data = Interval(a + n, k), x.kind # "Data" => k = 0
  PROVE  Follows(Append(q, x), a, n + k)
<1>1. PICK at : Marks(q, a, n, at)
  BY DEF Follows
<1>2. PICK l \in Nat : l = Len(q)
  OBVIOUS
<1>3. PICK m \in Nat : m = l + 1
  OBVIOUS
<1>4. PICK g : g = Append(q, x) /\ Len(g) = m /\ g[m] = x /\ \A i \in 1 .. l : g[i] = q[i]
  <2>1. Len(Append(q, x)) = Len(q) + 1 /\ Append(q, x)[Len(q) + 1] = x
        /\ \A i \in 1 .. Len(q) : Append(q, x)[i] = q[i]
    BY AppendProperties
  <2> QED  BY <1>2, <1>3, <2>1
<1>5. /\ at \in [0 .. l -> Nat] /\ at[0] = a /\ at[l] = a + n
      /\ \A i \in 1 .. l : at[i - 1] <= at[i]
      /\ \A i \in 1 .. l : q[i].data = Interval(at[i - 1], at[i] - at[i - 1])
      /\ \A i \in 1 .. l : q[i].kind # "Data" => at[i] = at[i - 1]
  BY <1>1, <1>2 DEF Marks
<1> DEFINE u == [i \in 0 .. m |-> IF i = m THEN a + n + k ELSE at[i]]
<1>6. u \in [0 .. m -> Nat] /\ u[m] = a + n + k /\ \A i \in 0 .. l : u[i] = at[i]
  <2>1. \A i \in 0 .. m : i # m => i \in 0 .. l
    BY <1>3
  <2>2. \A i \in 0 .. l : i \in 0 .. m /\ i # m
    BY <1>3
  <2>3. \A i \in 0 .. m : (IF i = m THEN a + n + k ELSE at[i]) \in Nat
    BY SMTT(60), <1>5, <2>1
  <2>4. m \in 0 .. m
    OBVIOUS
  <2> QED  BY <2>2, <2>3, <2>4
<1> HIDE DEF u
<1>7. ASSUME NEW i \in 1 .. m
      PROVE  /\ u[i - 1] <= u[i] /\ g[i].data = Interval(u[i - 1], u[i] - u[i - 1])
             /\ g[i].kind # "Data" => u[i] = u[i - 1]
  <2>1. CASE i = m
    <3>1. i - 1 = l /\ l \in 0 .. l
      BY <1>3, <2>1
    <3>2. PICK e \in Nat : e = a + n /\ u[i - 1] = e /\ u[i] = e + k
      BY <1>5, <1>6, <2>1, <3>1
    <3>3. e + k - e = k /\ e <= e + k /\ (k = 0 => e + k = e)
      OBVIOUS
    <3>4. g[i].data = Interval(e, k)
      BY <1>4, <2>1, <3>2
    <3>5. g[i].kind # "Data" => k = 0
      BY <1>4, <2>1
    <3> QED  BY <3>2, <3>3, <3>4, <3>5
  <2>2. CASE i # m
    <3>1. i \in 1 .. l /\ i - 1 \in 0 .. l /\ i \in 0 .. l
      BY <1>3, <2>2
    <3>2. u[i - 1] = at[i - 1] /\ u[i] = at[i] /\ g[i] = q[i]
      BY <1>4, <1>6, <3>1
    <3>3. /\ at[i - 1] <= at[i] /\ q[i].data = Interval(at[i - 1], at[i] - at[i - 1])
          /\ q[i].kind # "Data" => at[i] = at[i - 1]
      BY <1>5, <3>1
    <3> QED  BY <3>2, <3>3
  <2> QED  BY <2>1, <2>2
<1>8. u[0] = a
  BY <1>5, <1>6
<1>9. a + n + k = a + (n + k)
  OBVIOUS
<1>10. Marks(g, a, n + k, u)
  BY <1>4, <1>6, <1>7, <1>8, <1>9 DEF Marks
<1> QED  BY <1>4, <1>10 DEF Follows

-----------------------------------------------------------------------------
(* The actor beside its socket.                                            *)

ActorFields ==
  {"state", "call", "todo", "did", "valid", "submitted", "credited", "inFlight", "stream",
   "drain", "deferred", "shutdownCalled", "segment", "fails"}
InputCalls == {"Holding", "InputEnd"}

\* An actor with a stream has a socket on completion, and input to read only then.
Fine(a, c, n) ==
  /\ DOMAIN a = ActorFields
  /\ a.stream # "No" => c.rx.completion
  /\ a.drain \/ a.call \in InputCalls => a.stream # "No"
  /\ Good(c, n, a.shutdownCalled)

\* b is a but for what a handler does next and what it counts.
Tended(a, b) ==
  /\ DOMAIN b = DOMAIN a
  /\ b.stream = a.stream /\ b.drain = a.drain /\ b.shutdownCalled = a.shutdownCalled
  /\ b.call \in InputCalls => b.call = a.call

\* What a step may come to: the socket as c beside the actor as a, of n units to come.
Reaches(c, a, n) ==
  /\ Fine(a, c, n)
  /\ actor.stream # "No" => a.stream # "No"
  /\ s.rx.completion => c.rx.completion /\ c.taken = s.taken

Leads(n) == \E c, a : Step(c, a) /\ Reaches(c, a, n)

LEMMA TendedIs ==
  ASSUME NEW a
  PROVE  Tended(a, a)
BY DEF Tended

LEMMA ReachesTended ==
  ASSUME NEW c, NEW a, NEW n, Reaches(c, a, n), NEW b, Tended(a, b)
  PROVE  Reaches(c, b, n)
<1>1. b.shutdownCalled = a.shutdownCalled /\ DOMAIN b = ActorFields
  BY DEF Tended, Reaches, Fine
<1>2. Good(c, n, b.shutdownCalled)
  BY <1>1 DEF Reaches, Fine
<1>3. b.drain => a.drain
  BY DEF Tended
<1>4. b.call \in InputCalls => a.call \in InputCalls
  BY DEF Tended
<1>5. b.drain \/ b.call \in InputCalls => b.stream # "No"
  BY <1>3, <1>4 DEF Reaches, Fine, Tended
<1> QED  BY <1>1, <1>2, <1>5 DEF Reaches, Fine, Tended

LEMMA ReachesWell ==
  ASSUME NEW c, NEW a, NEW n, Reaches(c, a, n), NEW d, Well(c, d, n, a.shutdownCalled)
  PROVE  Reaches(d, a, n)
<1>1. /\ Good(d, n, a.shutdownCalled) /\ d.rx.completion = c.rx.completion
      /\ c.rx.completion => d.taken = c.taken
  BY DEF Well
<1>2. c.rx.completion => d.rx.completion
  BY <1>1
<1> QED  BY <1>1, <1>2 DEF Reaches, Fine

LEMMA ReachesSocket ==
  ASSUME NEW c, NEW a, NEW n, Reaches(c, a, n)
  PROVE  IsSocket(c) /\ Good(c, n, a.shutdownCalled)
BY GoodSocket DEF Reaches, Fine

LEMMA ReachesStill ==
  ASSUME NEW c, NEW a, NEW n, Reaches(c, a, n), NEW d, Still(c, d)
  PROVE  Reaches(d, a, n)
<1>1. Good(c, n, a.shutdownCalled)
  BY ReachesSocket
<1>2. Good(d, n, a.shutdownCalled) /\ d.rx = c.rx /\ d.taken = c.taken
  BY <1>1, StillGood
<1>3. Well(c, d, n, a.shutdownCalled)
  BY <1>2 DEF Well
<1> QED  BY <1>3, ReachesWell

LEMMA StepLeads ==
  ASSUME NEW c, NEW a, NEW n, Reaches(c, a, n), NEW b, Tended(a, b), Step(c, b)
  PROVE  Leads(n)
BY ReachesTended DEF Leads

LEMMA FatalLeads ==
  ASSUME NEW c, NEW a, NEW n, Reaches(c, a, n), Fatal(c, a)
  PROVE  Leads(n)
<1> DEFINE b == [At(a, "Idle") EXCEPT !.state = "Disconnected", !.valid = FALSE, !.todo = {}]
<1>1. Step(Close(c), b)
  BY DEF Fatal
<1>2. Tended(a, b)
  BY DEF Tended, At, Reaches, Fine, ActorFields, InputCalls
<1> HIDE DEF b
<1>3. Reaches(Close(c), a, n)
  BY ReachesSocket, CloseStill, ReachesStill
<1> QED  BY <1>1, <1>2, <1>3, StepLeads

LEMMA SubmittedLeads ==
  ASSUME NEW r, NEW a, NEW n, Reaches(r.c, a, n), NEW k, Submitted(r, a, k)
  PROVE  Leads(n)
<1> DEFINE b == [a EXCEPT !.inFlight = @ + 1, !.submitted = @ + k]
<1>1. Step(r.c, b) \/ Fatal(r.c, a)
  BY DEF Submitted
<1>2. Tended(a, b)
  BY DEF Tended, Reaches, Fine, ActorFields
<1> HIDE DEF b
<1> QED  BY <1>1, <1>2, StepLeads, FatalLeads

LEMMA ContinueLeads ==
  ASSUME NEW c, NEW a, NEW n, Reaches(c, a, n), NEW takes, NEW r \in ContinueSend(c, takes),
         Submitted(r, a, 0)
  PROVE  Leads(n)
<1>1. Still(c, r.c)
  BY ReachesSocket, ContinueSendStill
<1>2. Reaches(r.c, a, n)
  BY <1>1, ReachesStill
<1> QED  BY <1>2, SubmittedLeads

LEMMA DrainLeads ==
  ASSUME NEW c, NEW a, NEW n, Reaches(c, a, n), DrainSocketOutput(c, a)
  PROVE  Leads(n)
<1>1. (\E takes \in Takes : \E r \in ContinueSend(c, takes) : Submitted(r, a, 0)) \/ Step(c, a)
  BY DEF DrainSocketOutput
<1> QED  BY <1>1, TendedIs, StepLeads, ContinueLeads

-----------------------------------------------------------------------------
(* The change to the stream.                                               *)

LEMMA ActivatedGood ==
  ASSUME NEW c, NEW n, NEW called, Good(c, n, called), GetCompletionIo(c)
  PROVE  LET d == Activated(c) IN
         Good(d, n, called) /\ d.rx.completion /\ d.taken = c.taken
<1> DEFINE d == Activated(c)
<1>1. /\ Same(c, d, {"active", "tx", "rx"}) /\ DOMAIN c = Fields
      /\ d.rx = [c.rx EXCEPT !.completion = TRUE]
  BY DEF Activated, Good, Hand, Same, IsSocket, Fields
<1> HIDE DEF d
<1>2. DOMAIN d = Fields
  BY <1>1 DEF Same
<1>3. /\ d.part = c.part /\ d.given = c.given /\ d.read = c.read
      /\ d.taken = c.taken /\ d.ssl = c.ssl
  BY <1>1 DEF Same, Fields
<1>4. d.state = c.state /\ d.connected = c.connected /\ d.script = c.script
  BY <1>1 DEF Same, Fields
<1>5. DOMAIN c.rx = RxFields /\ QueueOk(c.rx)
  BY DEF Good, Shaped, QueueOk
<1>6. /\ DOMAIN d.rx = RxFields /\ d.rx.completion = TRUE
      /\ d.rx.queue = c.rx.queue /\ d.rx.head = c.rx.head /\ d.rx.fillUsed = c.rx.fillUsed
      /\ d.rx.held = c.rx.held /\ d.rx.afterHeld = c.rx.afterHeld
  BY <1>1, <1>5 DEF RxFields
<1>7. QueueOk(d.rx) /\ CipherPending(d.rx) = CipherPending(c.rx)
  BY <1>5, <1>6 DEF QueueOk, CipherPending, Live
<1>8. Place(d) = Place(c)
  BY <1>3 DEF Place
<1>9. Hand(d)
  <2>1. Same(c, d, Others)
    BY <1>1 DEF Same, Others, Fields
  <2> QED  BY <2>1, HandHolds DEF Good
<1>10. Shaped(d)
  BY <1>2, <1>3, <1>6, <1>7 DEF Good, Shaped, IsSocket
<1>11. Plain(d)
  BY <1>3, <1>6 DEF Good, Plain
<1>12. Loose(d)
  BY <1>3, <1>7, <1>8 DEF Good, Loose
<1>13. c.state \notin Handshaking /\ scenario.direct
  BY DEF Good, Ruled, GetCompletionIo
<1>14. Ruled(d, called)
  BY <1>3, <1>4, <1>13 DEF Good, Ruled
<1>15. TurnedAway(c) => TurnedAway(d)
  BY <1>3, <1>4 DEF TurnedAway, ReceiveRefused, Broken
<1>16. InStep(c, n) => InStep(d, n)
  BY <1>3, <1>7, <1>8 DEF InStep
<1>17. Fits(d, n)
  BY <1>6, <1>15, <1>16 DEF Good, Fits
<1>18. Good(d, n, called)
  BY <1>9, <1>10, <1>11, <1>12, <1>14, <1>17 DEF Good
<1> QED  BY <1>3, <1>6, <1>18 DEF d

LEMMA ActivateReaches ==
  ASSUME NEW c, NEW a, NEW n, Reaches(c, a, n)
  PROVE  Reaches(TryActivate(c, a).c, TryActivate(c, a).a, n)
<1> DEFINE d == Activated(c)
           b == [a EXCEPT !.stream = "Active", !.drain = TRUE]
<1>1. \/ TryActivate(c, a) = [c |-> c, a |-> a]
      \/ GetCompletionIo(c) /\ TryActivate(c, a) \in {[c |-> CheckBrokenState(d), a |-> a], [c |-> d, a |-> b]}
  BY DEF TryActivate, StartReceiveStream
<1>2. CASE TryActivate(c, a) = [c |-> c, a |-> a]
  <2>1. TryActivate(c, a).c = c /\ TryActivate(c, a).a = a
    BY <1>2
  <2> QED  BY <2>1
<1>3. ASSUME GetCompletionIo(c), TryActivate(c, a) \in {[c |-> CheckBrokenState(d), a |-> a], [c |-> d, a |-> b]}
      PROVE  Reaches(TryActivate(c, a).c, TryActivate(c, a).a, n)
  <2>1. Good(d, n, a.shutdownCalled) /\ d.rx.completion /\ d.taken = c.taken
    BY <1>3, ReachesSocket, ActivatedGood
  <2> HIDE DEF d
  <2>2. Reaches(d, a, n)
    BY <2>1 DEF Reaches, Fine
  <2>3. Reaches(CheckBrokenState(d), a, n)
    BY <2>2, ReachesSocket, CheckBrokenStill, ReachesStill
  <2>4. /\ DOMAIN b = ActorFields /\ b.stream = "Active" /\ b.shutdownCalled = a.shutdownCalled
    BY DEF Reaches, Fine, ActorFields
  <2> HIDE DEF b
  <2>5. Good(d, n, b.shutdownCalled)
    BY <2>1, <2>4
  <2>6. Reaches(d, b, n)
    BY <2>1, <2>2, <2>4, <2>5 DEF Reaches, Fine
  <2>7. \/ TryActivate(c, a).c = CheckBrokenState(d) /\ TryActivate(c, a).a = a
        \/ TryActivate(c, a).c = d /\ TryActivate(c, a).a = b
    BY <1>3
  <2> QED  BY <2>3, <2>6, <2>7
<1> QED  BY <1>1, <1>2, <1>3

LEMMA CheckHandshakeReaches ==
  ASSUME Flowing, NEW c, NEW a, NEW n \in Nat, Reaches(c, a, n)
  PROVE  Reaches(CheckHandshake(c, a).c, CheckHandshake(c, a).a, n)
<1> DEFINE p == SendNothing(c)
           b == [a EXCEPT !.state = "Connected", !.todo = @ \cup {"Write"}]
           e == TryActivate(p, b)
<1>1. Reaches(p, a, n)
  BY ReachesSocket, SendNothingWell, ReachesWell
<1>2. CheckHandshake(c, a) \in {[c |-> c, a |-> a], [c |-> p, a |-> a], e}
  BY DEF CheckHandshake
<1>3. Tended(a, b)
  BY DEF Tended, Reaches, Fine, ActorFields
<1> HIDE DEF p, b
<1>4. Reaches(p, b, n)
  BY <1>1, <1>3, ReachesTended
<1>5. Reaches(e.c, e.a, n)
  BY <1>4, ActivateReaches
<1> HIDE DEF e
<1>6. \/ CheckHandshake(c, a).c = c /\ CheckHandshake(c, a).a = a
      \/ CheckHandshake(c, a).c = p /\ CheckHandshake(c, a).a = a
      \/ CheckHandshake(c, a).c = e.c /\ CheckHandshake(c, a).a = e.a
  BY <1>2
<1> QED  BY <1>1, <1>5, <1>6

-----------------------------------------------------------------------------
(* The handlers of the actor, at a socket and an actor that suit.          *)

Suits(n) == Flowing /\ n \in Nat /\ Reaches(s, actor, n)

LEMMA SuitsIs ==
  ASSUME NEW n, Suits(n)
  PROVE  /\ Flowing /\ n \in Nat /\ Reaches(s, actor, n) /\ IsSocket(s)
         /\ Good(s, n, actor.shutdownCalled) /\ DOMAIN actor = ActorFields
BY ReachesSocket DEF Suits, Reaches, Fine

LEMMA StartLeads ==
  ASSUME NEW n, Suits(n), Start
  PROVE  Leads(n)
<1> DEFINE c == AddTCPState(s, {"Read"})
           h == HandleHandshake(s).c
           b == At(actor, "Idle")
<1>1. Step(c, b) \/ Step(h, b)
  BY DEF Start
<1>2. Tended(actor, b)
  BY SuitsIs DEF Tended, At, ActorFields, InputCalls
<1>3. Reaches(c, actor, n)
  <2>1. Same(s, c, {"events"})
    BY SuitsIs, AddTCPStateSame
  <2> HIDE DEF c
  <2>2. Still(s, c)
    BY <2>1, SuitsIs, SetStill DEF Submitting
  <2> QED  BY <2>2, SuitsIs, ReachesStill
<1>4. Reaches(h, actor, n)
  BY SuitsIs, HandleWell, ReachesWell
<1> HIDE DEF c, h, b
<1> QED  BY <1>1, <1>2, <1>3, <1>4, StepLeads

LEMMA ProcessStateLeads ==
  ASSUME NEW n, Suits(n), ProcessState
  PROVE  Leads(n)
<1> DEFINE c == [s EXCEPT !.events = {}]
<1> DEFINE defers == actor.stream = "Active" /\ actor.state # "Disconnected"
           now == IF defers THEN s.events \ {"Closed"} ELSE s.events
           call == IF now = {} THEN "Idle" ELSE IF "Read" \in now THEN "Receiving" ELSE "Rest"
           b == [At(actor, call) EXCEPT !.todo = now \ {"Read"},
                   !.deferred = @ \/ (defers /\ "Closed" \in s.events)]
<1>1. Step(c, b)
  BY DEF ProcessState
<1>2. Tended(actor, b)
  <2>1. call \notin InputCalls
    BY DEF InputCalls
  <2> HIDE DEF call, now, defers
  <2> QED  BY <2>1, SuitsIs DEF Tended, At, ActorFields
<1>3. Same(s, c, {"events"})
  BY SuitsIs DEF Same, IsSocket, Fields
<1> HIDE DEF b, c
<1>4. Reaches(c, actor, n)
  <2>2. Still(s, c)
    BY <1>3, SuitsIs, SetStill DEF Submitting
  <2> QED  BY <2>2, SuitsIs, ReachesStill
<1> QED  BY <1>1, <1>2, <1>4, StepLeads

LEMMA DeliveryIs ==
  ASSUME NEW room \in Delivery
  PROVE  room \in Nat
BY TlsAssumption

\* A handler that goes on to something other than input.
LEMMA AtTended ==
  ASSUME NEW a, DOMAIN a = ActorFields, NEW call, call \notin InputCalls
  PROVE  Tended(a, At(a, call))
BY DEF Tended, At, ActorFields, InputCalls

LEMMA ReachesDomain ==
  ASSUME NEW c, NEW a, NEW n, Reaches(c, a, n)
  PROVE  DOMAIN a = ActorFields
BY DEF Reaches, Fine

LEMMA StepAtLeads ==
  ASSUME NEW c, NEW a, NEW n, Reaches(c, a, n), NEW call, call \notin InputCalls,
         Step(c, At(a, call))
  PROVE  Leads(n)
BY ReachesDomain, AtTended, StepLeads

LEMMA ReceiveOnceLeads ==
  ASSUME NEW n, Suits(n), ReceiveOnce
  PROVE  Leads(n)
<1> DEFINE t == TryActivate(s, actor)
<1>1. CASE s.active \/ t.c.active
  <2>1. Step(t.c, At(t.a, "Rest"))
    BY <1>1 DEF ReceiveOnce
  <2>2. Reaches(t.c, t.a, n)
    BY SuitsIs, ActivateReaches
  <2> HIDE DEF t
  <2> QED  BY <2>1, <2>2, StepAtLeads DEF InputCalls
<1>2. CASE ~(s.active \/ t.c.active)
  <2>1. PICK room \in Delivery :
          LET r == Receive(s, room)
              e == CheckHandshake(r.c, actor)
          IN  \/ Fatal(r.c, actor)
              \/ \E call \in {"Receiving", "Rest"} : Step(e.c, At(e.a, call))
    BY <1>2 DEF ReceiveOnce
  <2>2. room \in Nat
    BY DeliveryIs
  <2> DEFINE r == Receive(s, room)
             e == CheckHandshake(r.c, actor)
  <2>3. Reaches(r.c, actor, n)
    BY <2>2, SuitsIs, ReceiveWell, ReachesWell
  <2>4. Fatal(r.c, actor) \/ \E call \in {"Receiving", "Rest"} : Step(e.c, At(e.a, call))
    BY <2>1
  <2> HIDE DEF r
  <2>5. Reaches(e.c, e.a, n)
    BY <2>3, SuitsIs, CheckHandshakeReaches
  <2> HIDE DEF e
  <2> QED  BY <2>3, <2>4, <2>5, FatalLeads, StepAtLeads DEF InputCalls
<1> QED  BY <1>1, <1>2

LEMMA ProcessRestLeads ==
  ASSUME NEW n, Suits(n), ProcessRest
  PROVE  Leads(n)
<1> DEFINE b == [At(actor, "Sending") EXCEPT !.todo = {}, !.did = FALSE]
<1>1. Fatal(s, actor) \/ Step(s, At(actor, "Idle")) \/ Step(s, b)
  BY DEF ProcessRest
<1>2. Tended(actor, b)
  BY SuitsIs DEF Tended, At, ActorFields, InputCalls
<1> HIDE DEF b
<1> QED  BY <1>1, <1>2, SuitsIs, FatalLeads, StepLeads, StepAtLeads DEF InputCalls

LEMMA SendHandshakeLeads ==
  ASSUME NEW n, Suits(n), SendHandshake
  PROVE  Leads(n)
<1> DEFINE e == CheckHandshake(s, actor)
           p == SendNothing(e.c)
           b == [e.a EXCEPT !.todo = {}]
<1>1. Step(p, At(e.a, "Idle")) \/ Step(e.c, At(b, "Sending"))
  BY DEF SendHandshake
<1>2. Reaches(e.c, e.a, n)
  BY SuitsIs, CheckHandshakeReaches
<1> HIDE DEF e
<1>3. Reaches(p, e.a, n)
  BY <1>2, SuitsIs, ReachesSocket, SendNothingWell, ReachesWell
<1>4. Tended(e.a, b)
  BY <1>2, ReachesDomain DEF Tended, ActorFields
<1>5. Reaches(e.c, b, n)
  BY <1>2, <1>4, ReachesTended
<1> HIDE DEF p, b
<1> QED  BY <1>1, <1>3, <1>5, StepAtLeads DEF InputCalls

LEMMA SendReadyLeads ==
  ASSUME NEW n, Suits(n), SendReady
  PROVE  Leads(n)
<1>1. CASE Queued(actor) > 0
  <2> DEFINE v(k) == SendVectored(s, k)
             a(k) == [At(actor, IF v(k).sent = k THEN "Sending" ELSE "Sent") EXCEPT
                        !.credited = @ + v(k).sent, !.did = TRUE]
  <2>0. \E k \in 1 .. SendMost :
          IF v(k).is = "Thrown" THEN Fatal(v(k).c, actor) ELSE Step(v(k).c, a(k))
    <3>1. ~(Queued(actor) = 0)
      BY <1>1
    <3> QED  BY <1>1, <3>1, Zenon DEF SendReady
  <2>1. \A k : Tended(actor, a(k))
    <3> TAKE k
    <3>1. (IF v(k).sent = k THEN "Sending" ELSE "Sent") \notin InputCalls
      BY DEF InputCalls
    <3> HIDE DEF v
    <3> QED  BY <3>1, SuitsIs DEF Tended, At, ActorFields
  <2> HIDE DEF v, a
  <2>2. PICK k \in 1 .. SendMost : Fatal(v(k).c, actor) \/ Step(v(k).c, a(k))
    BY <2>0
  <2>3. k \in Nat
    BY TlsAssumption
  <2>4. Well(s, v(k).c, n, actor.shutdownCalled)
    BY <2>3, SuitsIs, SendVectoredWell DEF v
  <2>5. Reaches(v(k).c, actor, n)
    BY <2>4, SuitsIs, ReachesWell
  <2> QED  BY <2>1, <2>2, <2>5, FatalLeads, StepLeads
<1>2. CASE ~(Queued(actor) > 0)
  <2> DEFINE p == SendNothing(s)
  <2>1. Step(IF actor.did THEN s ELSE p, At(actor, "Sent"))
    BY <1>2 DEF SendReady
  <2>2. Step(s, At(actor, "Sent")) \/ Step(p, At(actor, "Sent"))
    BY <2>1
  <2>3. Reaches(p, actor, n)
    BY SuitsIs, SendNothingWell, ReachesWell
  <2> HIDE DEF p
  <2> QED  BY <2>2, <2>3, SuitsIs, StepAtLeads DEF InputCalls
<1> QED  BY <1>1, <1>2

LEMMA AskedStill ==
  ASSUME IsSocket(s), NEW c \in Asked
  PROVE  Still(s, c)
<1>1. c = s \/ c \in AskedWindow(s)
  BY DEF Asked
<1>2. c = s \/ \E tx : c = [s EXCEPT !.wasFull = FALSE, !.tx = tx]
  BY <1>1 DEF AskedWindow
<1>3. ASSUME NEW tx, c = [s EXCEPT !.wasFull = FALSE, !.tx = tx] PROVE Still(s, c)
  <2>1. Same(s, c, {"wasFull", "tx"})
    BY <1>3 DEF IsSocket, Same, Fields
  <2> QED  BY <2>1, SetStill DEF Submitting
<1> QED  BY <1>2, <1>3, StillIs

LEMMA SubmitOnceLeads ==
  ASSUME NEW n, Suits(n), SubmitOnce
  PROVE  Leads(n)
<1>1. PICK c \in Asked :
        \E m, k, takes : \E r \in SubmitSend(c, m, k, takes) : Submitted(r, actor, k)
  BY DEF SubmitOnce
<1>2. PICK m, k, takes : \E r \in SubmitSend(c, m, k, takes) : Submitted(r, actor, k)
  BY <1>1
<1>3. PICK r \in SubmitSend(c, m, k, takes) : Submitted(r, actor, k)
  BY <1>2
<1>4. Reaches(c, actor, n) /\ IsSocket(c)
  BY SuitsIs, AskedStill, ReachesStill, ReachesSocket
<1>5. Reaches(r.c, actor, n)
  BY <1>4, SubmitSendStill, ReachesStill
<1> QED  BY <1>3, <1>5, SubmittedLeads

LEMMA StopSubmittingLeads ==
  ASSUME NEW n, Suits(n), StopSubmitting
  PROVE  Leads(n)
<1>1. PICK c \in Asked : Step(c, At(actor, "Sent"))
  BY DEF StopSubmitting
<1>2. Reaches(c, actor, n)
  BY SuitsIs, AskedStill, ReachesStill
<1> QED  BY <1>1, <1>2, StepAtLeads DEF InputCalls

LEMMA ShutDownLeads ==
  ASSUME NEW n, Suits(n), NEW a, Tended(actor, a), Shuts(a), ShutDown(s, a)
  PROVE  Leads(n)
<1> DEFINE b == [a EXCEPT !.shutdownCalled = TRUE]
           c == Shutdown(s)
<1>1. DrainSocketOutput(c, b)
  BY DEF ShutDown
<1>2. Reaches(s, a, n)
  BY SuitsIs, ReachesTended
<1>3. a.shutdownCalled # TRUE
  BY DEF Shuts
<1>4. Good(c, n, TRUE) /\ c.rx = s.rx /\ c.taken = s.taken
  BY <1>2, <1>3, ReachesSocket, ShutdownGood
<1>5. /\ DOMAIN b = ActorFields /\ b.shutdownCalled = TRUE /\ b.stream = a.stream
      /\ b.drain = a.drain /\ b.call = a.call
  BY <1>2, ReachesDomain DEF ActorFields
<1> HIDE DEF b, c
<1>6. b.drain => a.drain
  BY <1>5
<1>7. Good(c, n, b.shutdownCalled)
  BY <1>4, <1>5
<1>8. Reaches(c, b, n)
  BY <1>2, <1>4, <1>5, <1>6, <1>7 DEF Reaches, Fine
<1> QED  BY <1>1, <1>8, DrainLeads

LEMMA FinishSendLeads ==
  ASSUME NEW n, Suits(n), FinishSend
  PROVE  Leads(n)
<1> DEFINE a == At(actor, "Draining")
<1>1. Tended(actor, a)
  BY SuitsIs, AtTended DEF InputCalls
<1>2. (Shuts(actor) /\ ShutDown(s, a)) \/ DrainSocketOutput(s, a)
  BY DEF FinishSend
<1>3. Shuts(actor) => Shuts(a)
  BY SuitsIs DEF Shuts, At, ActorFields, Queued
<1> HIDE DEF a
<1>4. Reaches(s, a, n)
  BY <1>1, SuitsIs, ReachesTended
<1> QED  BY <1>1, <1>2, <1>3, <1>4, ShutDownLeads, DrainLeads

LEMMA FinishDrainLeads ==
  ASSUME NEW n, Suits(n), FinishDrain
  PROVE  Leads(n)
<1> DEFINE a == At(actor, "Idle")
<1>1. Tended(actor, a)
  BY SuitsIs, AtTended DEF InputCalls
<1>2. DrainSocketOutput(s, a)
  BY DEF FinishDrain
<1> HIDE DEF a
<1> QED  BY <1>1, <1>2, SuitsIs, ReachesTended, DrainLeads

LEMMA AppClosesLeads ==
  ASSUME NEW n, Suits(n), AppCloses
  PROVE  Leads(n)
<1> DEFINE a == [actor EXCEPT !.state = "Disconnected"]
<1>1. (Shuts(a) /\ ShutDown(s, a)) \/ Step(s, a)
  BY DEF AppCloses
<1>2. Tended(actor, a)
  BY SuitsIs DEF Tended, ActorFields
<1> HIDE DEF a
<1> QED  BY <1>1, <1>2, SuitsIs, ShutDownLeads, StepLeads

LEMMA AppSetsWindowLeads ==
  ASSUME NEW n, Suits(n), AppSetsWindow
  PROVE  Leads(n)
<1>1. PICK k : Step(SetSendWindow(s, k), actor)
  BY DEF AppSetsWindow
<1> DEFINE c == SetSendWindow(s, k)
<1>2. Same(s, c, {"window", "windowPending", "tx"})
  BY SuitsIs DEF SetSendWindow, IsSocket, Same, Fields
<1> HIDE DEF c
<1>3. Still(s, c)
  BY <1>2, SuitsIs, SetStill DEF Submitting
<1> QED  BY <1>1, <1>3, SuitsIs, ReachesStill, TendedIs, StepLeads DEF c

LEMMA SendCompletedLeads ==
  ASSUME NEW n, Suits(n), SendCompleted
  PROVE  Leads(n)
<1> DEFINE job == Head(s.mail)
           c == [s EXCEPT !.mail = Tail(@)]
           a == [actor EXCEPT !.inFlight = @ - 1]
           r == IF job.transfer = None THEN [c |-> c, over |-> TRUE, n |-> job.n]
                ELSE ResolveSend(c, job.transfer, job.ok)
           b == [At([a EXCEPT !.credited = @ + r.n, !.submitted = @ - r.n], "Sending")
                   EXCEPT !.did = FALSE]
<1>1. \/ Step(c, a) \/ Fatal(r.c, a) \/ Step(r.c, b)
      \/ \E takes : \E result \in ContinueSend(r.c, takes) : Submitted(result, a, 0)
  <2> HIDE DEF r
  <2>1. CASE ~actor.valid
    BY <2>1 DEF SendCompleted
  <2>2. CASE actor.valid
    <3>1. CASE ~r.over
      BY <2>2, <3>1 DEF SendCompleted, r
    <3>2. CASE r.over /\ ~job.ok
      BY <2>2, <3>2 DEF SendCompleted, r
    <3>3. CASE r.over /\ job.ok
      BY <2>2, <3>3 DEF SendCompleted, r
    <3> QED  BY SMTT(60), <3>1, <3>2, <3>3
  <2> QED  BY <2>1, <2>2
<1>2. Tended(actor, a) /\ DOMAIN a = ActorFields
  BY SuitsIs DEF Tended, ActorFields
<1>3. Tended(a, b)
  <2> HIDE DEF a, r
  <2> QED  BY <1>2 DEF Tended, At, ActorFields, InputCalls
<1>4. Same(s, c, {"mail"})
  BY SuitsIs DEF IsSocket, Same, Fields
<1> HIDE DEF c, a, b
<1>5. Still(s, c)
  BY <1>4, SuitsIs, SetStill DEF Submitting
<1>6. Reaches(c, a, n)
  BY <1>2, <1>5, SuitsIs, ReachesStill, ReachesTended
<1>7. Reaches(ResolveSend(c, job.transfer, job.ok).c, a, n)
  <2>1. Good(c, n, a.shutdownCalled)
    BY <1>6, ReachesSocket
  <2>2. Well(c, ResolveSend(c, job.transfer, job.ok).c, n, a.shutdownCalled)
    BY <2>1, ResolveSendWell, Zenon
  <2> QED  BY <1>6, <2>2, ReachesWell, Zenon
<1>8. r.c = c \/ r.c = ResolveSend(c, job.transfer, job.ok).c
  OBVIOUS
<1> HIDE DEF r, job
<1>9. Reaches(r.c, a, n)
  BY <1>6, <1>7, <1>8
<1> QED  BY <1>1, <1>3, <1>6, <1>9, TendedIs, StepLeads, FatalLeads, ContinueLeads

LEMMA SendBufferReleasedLeads ==
  ASSUME NEW n, Suits(n), SendBufferReleased
  PROVE  Leads(n)
<1> DEFINE job == Head(s.mail)
           c == [s EXCEPT !.mail = Tail(@)]
           d == ResolveSendRelease(c, job.transfer)
           b == [At(actor, "Sending") EXCEPT !.did = FALSE]
<1>1. Step(c, actor) \/ Step(c, b) \/ Step(d, b)
  BY DEF SendBufferReleased
<1>2. Tended(actor, b)
  BY SuitsIs DEF Tended, At, ActorFields, InputCalls
<1>4. Same(s, c, {"mail"})
  BY SuitsIs DEF IsSocket, Same, Fields
<1> HIDE DEF c, b, job
<1>5. Still(s, c)
  BY <1>4, SuitsIs, SetStill DEF Submitting
<1>6. Reaches(c, actor, n)
  BY <1>5, SuitsIs, ReachesStill
<1>7. Reaches(d, actor, n)
  BY <1>6, ReachesSocket, ReleaseStill, ReachesStill
<1> HIDE DEF d
<1> QED  BY <1>1, <1>2, <1>6, <1>7, TendedIs, StepLeads

LEMMA DrainHeldLeads ==
  ASSUME NEW n, Suits(n), DrainHeldInput
  PROVE  Leads(n)
<1> DEFINE b == [At(actor, "Holding") EXCEPT !.segment = "Data", !.fails = FALSE, !.drain = FALSE]
<1>1. Step(s, b)
  BY DEF DrainHeldInput
<1>2. /\ DOMAIN b = ActorFields /\ b.stream = actor.stream /\ b.shutdownCalled = actor.shutdownCalled
  BY SuitsIs DEF At, ActorFields
<1> HIDE DEF b
<1>3. actor.stream # "No"
  BY DEF DrainHeldInput, Suits, Reaches, Fine
<1>4. Good(s, n, b.shutdownCalled)
  BY <1>2, SuitsIs
<1>5. Reaches(s, b, n)
  BY <1>2, <1>3, <1>4, SuitsIs DEF Reaches, Fine
<1> QED  BY <1>1, <1>5 DEF Leads

\* A handler of input goes on with it.
LEMMA InputReaches ==
  ASSUME NEW n, Suits(n), actor.stream # "No", NEW c, NEW m, Well(s, c, m, actor.shutdownCalled),
         NEW b, DOMAIN b = ActorFields, b.stream # "No", b.shutdownCalled = actor.shutdownCalled
  PROVE  Reaches(c, b, m)
<1>1. s.rx.completion
  BY DEF Suits, Reaches, Fine
<1>2. Good(c, m, actor.shutdownCalled) /\ c.rx.completion = s.rx.completion /\ c.taken = s.taken
  BY <1>1 DEF Well
<1>3. c.rx.completion
  BY <1>1, <1>2
<1>4. Good(c, m, b.shutdownCalled)
  BY <1>2
<1> QED  BY <1>2, <1>3, <1>4 DEF Reaches, Fine

LEMMA ReceiveHeldLeads ==
  ASSUME NEW n, Suits(n), ReceiveHeld
  PROVE  Leads(n)
<1>0. actor.call = "Holding"
  BY DEF ReceiveHeld, Running
<1>1. actor.stream # "No" /\ s.rx.completion
  BY <1>0 DEF Suits, Reaches, Fine, InputCalls
<1>2. PICK room \in Delivery :
        LET r == ResolveHeld(s, room) IN
        Step(r.c, At(actor, IF r.produced THEN "Holding" ELSE "InputEnd"))
  BY DEF ReceiveHeld
<1>3. room \in Nat
  BY DeliveryIs
<1> DEFINE r == ResolveHeld(s, room)
           b == At(actor, IF r.produced THEN "Holding" ELSE "InputEnd")
<1>4. Step(r.c, b)
  BY <1>2
<1>5. Well(s, r.c, n, actor.shutdownCalled)
  BY <1>1, <1>3, SuitsIs, ResolveHeldWell
<1> HIDE DEF r
<1>6. /\ DOMAIN b = ActorFields /\ b.stream = actor.stream /\ b.shutdownCalled = actor.shutdownCalled
  BY SuitsIs DEF At, ActorFields
<1> HIDE DEF b
<1>7. Reaches(r.c, b, n)
  BY <1>1, <1>5, <1>6, InputReaches
<1> QED  BY <1>4, <1>7 DEF Leads

LEMMA EndInputLeads ==
  ASSUME NEW n, Suits(n), EndInput
  PROVE  Leads(n)
<1> DEFINE terminal == actor.segment # "Data" \/ StreamEndedByProtocol(s)
           ended == [actor EXCEPT !.stream = IF terminal THEN "Ended" ELSE @]
           e == [At(ended, "Rest") EXCEPT !.deferred = FALSE, !.todo = {"Closed"}]
           b == At(actor, "Idle")
<1>0. actor.call = "InputEnd"
  BY DEF EndInput, Running
<1>1. actor.stream # "No"
  BY <1>0 DEF Suits, Reaches, Fine, InputCalls
<1>2. Fatal(s, ended) \/ Step(s, e) \/ Step(s, At(ended, "Idle")) \/ DrainSocketOutput(s, b)
  <2> HIDE DEF terminal
  <2> QED  BY DEF EndInput, terminal
<1>3. /\ DOMAIN ended = ActorFields /\ ended.stream # "No"
      /\ ended.shutdownCalled = actor.shutdownCalled
  <2> HIDE DEF terminal
  <2> QED  BY <1>1, SuitsIs DEF ActorFields
<1>4. Well(s, s, n, actor.shutdownCalled)
  BY SuitsIs DEF Well
<1> HIDE DEF ended
<1>5. Reaches(s, ended, n)
  BY <1>1, <1>3, <1>4, InputReaches
<1>6. Tended(ended, e)
  BY <1>3 DEF Tended, At, ActorFields, InputCalls
<1>7. Tended(actor, b)
  BY SuitsIs, AtTended DEF InputCalls
<1> HIDE DEF e, b
<1>8. Reaches(s, b, n)
  BY <1>7, SuitsIs, ReachesTended
<1> QED  BY <1>2, <1>5, <1>6, <1>8, FatalLeads, StepLeads, StepAtLeads, DrainLeads DEF InputCalls

-----------------------------------------------------------------------------
(* The socket, the actor and the segments between them.                    *)

\* The segments of the mailbox carry the last n units that were taken.
Train(q, c, n) ==
  /\ q \in Seq(AnySegments)
  /\ \E a \in Nat : a + n = c.taken /\ Follows(q, a, n)

Holds(c, a, n, q) ==
  /\ Fine(a, c, n) /\ Train(q, c, n)
  /\ q # <<>> => a.stream # "No"

\* A step leaves it so that the invariant holds of what it left.
LeavesIt(c, a, n, q) ==
  /\ s' = c /\ actor' = a /\ segments' = q /\ scenario' = scenario /\ arrived' \in Nat
  /\ Holds(c, a, n, q)
Remains == \E c, a, q : \E n \in Nat : LeavesIt(c, a, n, q)

LEMMA HoldsSuits ==
  ASSUME Flowing, NEW n \in Nat, Holds(s, actor, n, segments)
  PROVE  Suits(n) /\ Good(s, n, actor.shutdownCalled) /\ s.taken \in Nat
<1>1. s.taken \in Nat
  BY DEF Holds, Fine, Good, Loose
<1> QED  BY <1>1 DEF Suits, Reaches, Holds, Fine

\* A handler leaves the mailbox of segments as it is.
LEMMA LeadsRemains ==
  ASSUME Flowing, NEW n \in Nat, Holds(s, actor, n, segments), Leads(n), UNCHANGED segments
  PROVE  Remains
<1>1. PICK c, a : Step(c, a) /\ Reaches(c, a, n)
  BY DEF Leads
<1>2. s' = c /\ actor' = a /\ scenario' = scenario /\ arrived' \in Nat
  BY <1>1 DEF Step, Flowing
<1>3. PICK q : q = segments
  OBVIOUS
<1>4. q \in Seq(AnySegments)
  BY <1>3 DEF Holds, Train
<1>5. q # <<>> => a.stream # "No"
  BY <1>1, <1>3 DEF Holds, Reaches
<1>6. PICK h \in Nat : h + n = s.taken /\ Follows(q, h, n)
  BY <1>3 DEF Holds, Train
<1>7. CASE q = <<>>
  <2>1. n = 0
    BY <1>6, <1>7, NoneLeft
  <2>2. PICK t \in Nat : t = c.taken
    BY <1>1 DEF Reaches, Fine, Good, Loose
  <2>3. t + n = c.taken /\ Follows(q, t, n)
    BY <1>7, <2>1, <2>2, NoneFollows
  <2>4. Train(q, c, n)
    BY <1>4, <2>3 DEF Train
  <2> QED  BY <1>1, <1>2, <1>3, <1>5, <2>4 DEF Remains, LeavesIt, Holds, Reaches
<1>8. CASE q # <<>>
  <2>1. c.taken = s.taken
    BY <1>1, <1>3, <1>8 DEF Holds, Fine, Reaches
  <2>2. Train(q, c, n)
    BY <1>4, <1>6, <2>1 DEF Train
  <2> QED  BY <1>1, <1>2, <1>3, <1>5, <2>2 DEF Remains, LeavesIt, Holds, Reaches
<1> QED  BY <1>7, <1>8

LEMMA ReceiveSegmentRemains ==
  ASSUME Flowing, NEW n \in Nat, Holds(s, actor, n, segments), ReceiveSegment
  PROVE  Remains
<1>1. PICK q \in Seq(AnySegments) : q = segments /\ q # <<>>
  BY DEF Holds, Train, ReceiveSegment
<1>2. PICK h \in Nat : h + n = s.taken /\ Follows(q, h, n)
  BY <1>1 DEF Holds, Train
<1>3. PICK k, m \in Nat :
        /\ n = k + m /\ Head(q).data = Interval(h, k) /\ (Head(q).kind # "Data" => k = 0)
        /\ Follows(Tail(q), h + k, m)
  BY <1>1, <1>2, FirstFollows
<1>4. actor.stream # "No" /\ s.rx.completion
  BY <1>1 DEF Holds, Fine
<1>5. Suits(n) /\ Good(s, n, actor.shutdownCalled)
  BY HoldsSuits
<1> DEFINE r(room) == ResolveReceiveSegment(s, Head(q), room)
           b(room) == [At(actor, IF r(room).produced THEN "Holding" ELSE "InputEnd") EXCEPT
                         !.segment = Head(q).kind,
                         !.fails = r(room).fails,
                         !.stream = IF Head(q).kind # "Data" THEN "Ended" ELSE @]
<1>6. PICK room \in Delivery : Step(r(room).c, b(room))
  BY <1>1 DEF ReceiveSegment
<1>7. room \in Nat
  BY DeliveryIs
<1> HIDE DEF r
<1>8. PICK p : p = Head(q) /\ p.data = Interval(h, k) /\ (p.kind # "Data" => k = 0)
  BY <1>3
<1>9. Well(s, r(room).c, m, actor.shutdownCalled)
  BY <1>2, <1>3, <1>4, <1>5, <1>7, <1>8, SegmentWell DEF r
<1>10. /\ DOMAIN b(room) = ActorFields /\ b(room).stream # "No"
       /\ b(room).shutdownCalled = actor.shutdownCalled
  BY <1>4, <1>5, SuitsIs DEF At, ActorFields
<1> HIDE DEF b
<1>11. Reaches(r(room).c, b(room), m)
  BY <1>4, <1>5, <1>9, <1>10, InputReaches
<1>12. /\ s' = r(room).c /\ actor' = b(room) /\ scenario' = scenario /\ arrived' \in Nat
       /\ segments' = Tail(q)
  BY <1>1, <1>6 DEF Step, Flowing, ReceiveSegment
<1>13. Train(Tail(q), r(room).c, m)
  <2>1. Tail(q) \in Seq(AnySegments)
    BY <1>1, HeadTailProperties
  <2>2. PICK e \in Nat : e = h + k /\ e + m = s.taken
    BY <1>2, <1>3
  <2>3. r(room).c.taken = s.taken
    BY <1>4, <1>9 DEF Well
  <2> QED  BY <1>3, <2>1, <2>2, <2>3 DEF Train
<1> QED  BY <1>10, <1>11, <1>12, <1>13 DEF Remains, LeavesIt, Holds, Reaches

LEMMA ActorRemains ==
  ASSUME Flowing, NEW n \in Nat, Holds(s, actor, n, segments), ActorStep \/ AppCloses \/ AppSetsWindow
  PROVE  Remains
<1>1. Suits(n)
  BY HoldsSuits
<1>2. CASE ReceiveSegment
  BY <1>2, ReceiveSegmentRemains
<1>3. CASE ~ReceiveSegment
  <2>1. Leads(n)
    BY <1>1, <1>3, StartLeads, ProcessStateLeads, ReceiveOnceLeads, ProcessRestLeads,
       SendHandshakeLeads, SendReadyLeads, SubmitOnceLeads, StopSubmittingLeads, FinishSendLeads,
       FinishDrainLeads, SendCompletedLeads, SendBufferReleasedLeads, DrainHeldLeads,
       ReceiveHeldLeads, EndInputLeads, AppClosesLeads, AppSetsWindowLeads DEF ActorStep
  <2>2. UNCHANGED segments
    BY <1>3 DEF ActorStep, Start, ProcessState, ReceiveOnce, ProcessRest, SendHandshake, SendReady,
       SubmitOnce, StopSubmitting, FinishSend, FinishDrain, SendCompleted, SendBufferReleased,
       DrainHeldInput, ReceiveHeld, EndInput, AppCloses, AppSetsWindow
  <2> QED  BY <2>1, <2>2, LeadsRemains
<1> QED  BY <1>2, <1>3

-----------------------------------------------------------------------------
(* The peer, the platform and the loop.                                    *)

LEMMA OutsideRemains ==
  ASSUME NEW n \in Nat, Holds(s, actor, n, segments), NEW c, Outside(c), NEW F, Same(s, c, F),
         F \subseteq Aside \ {"ssl"}, UNCHANGED segments, arrived' \in Nat
  PROVE  Remains
<1>1. PICK a, q : a = actor /\ q = segments
  OBVIOUS
<1>2. Good(s, n, a.shutdownCalled)
  BY <1>1 DEF Holds, Fine
<1>3. Good(c, n, a.shutdownCalled) /\ c.rx = s.rx /\ c.taken = s.taken
  BY <1>2, GoodSame
<1>4. Holds(c, a, n, q)
  BY <1>1, <1>3 DEF Holds, Fine, Train
<1>5. s' = c /\ actor' = a /\ segments' = q /\ scenario' = scenario
  BY <1>1 DEF Outside
<1> QED  BY <1>4, <1>5 DEF Remains, LeavesIt

LEMMA AsideFields ==
  {"events", "room", "armed", "wire", "kernel", "mail", "ended"} \subseteq Aside \ {"ssl"}
BY DEF Aside, Fields, Reading

LEMMA AsideParts ==
  /\ {} \subseteq Aside \ {"ssl"} /\ {"events"} \subseteq Aside \ {"ssl"}
  /\ {"events", "room", "armed"} \subseteq Aside \ {"ssl"}
  /\ {"wire", "room", "kernel"} \subseteq Aside \ {"ssl"}
  /\ {"mail", "kernel"} \subseteq Aside \ {"ssl"}
BY AsideFields

\* The loop takes more of the stream.
LEMMA TakenGood ==
  ASSUME NEW c, NEW n \in Nat, NEW called, Good(c, n, called), c.rx.completion, NEW k \in Nat,
         NEW d, Same(c, d, {"taken"}), d.taken = c.taken + k, stream \in Seq(RecordKinds)
  PROVE  Good(d, n + k, called) /\ d.rx = c.rx
<1>1. DOMAIN c = Fields /\ DOMAIN d = Fields
  BY DEF Good, Hand, IsSocket, Same
<1>2. /\ d.rx = c.rx /\ d.part = c.part /\ d.given = c.given /\ d.read = c.read
      /\ d.ssl = c.ssl
  BY <1>1 DEF Same, Fields
<1>3. d.state = c.state /\ d.connected = c.connected /\ d.script = c.script
  BY <1>1 DEF Same, Fields
<1>4. Hand(d)
  <2>1. Same(c, d, Others)
    BY DEF Same, Others, Fields
  <2> QED  BY <2>1, HandHolds DEF Good
<1>5. Place(d) = Place(c)
  BY <1>2 DEF Place
<1>6. Shaped(d)
  BY <1>1, <1>2 DEF Good, Shaped, IsSocket
<1>7. Plain(d)
  BY <1>2 DEF Good, Plain
<1>8. d.taken \in Nat
  BY DEF Good, Loose
<1>9. Loose(d)
  BY <1>2, <1>5, <1>8 DEF Good, Loose
<1>10. Awaits(c) => Awaits(d)
  BY <1>2, <1>3 DEF Awaits
<1>11. Ruled(d, called)
  BY <1>2, <1>3, <1>10 DEF Good, Ruled
<1>12. TurnedAway(c) => TurnedAway(d)
  BY <1>2, <1>3 DEF TurnedAway, ReceiveRefused, Broken
<1>13. ASSUME InStep(c, n) PROVE InStep(d, n + k)
  <2>1. PICK h \in Nat : h = Place(c)
    BY PlaceIs DEF Good
  <2>2. PICK p \in Nat : CipherPending(c.rx) = Interval(h, p) /\ h + p + n = c.taken
    BY <1>13, <2>1 DEF InStep
  <2>3. PICK t \in Nat : t = c.taken /\ h + p + n = t /\ d.taken = t + k
    BY <1>13, <2>2 DEF InStep
  <2>4. h + p + (n + k) = t + k
    BY <2>3
  <2> QED  BY <1>2, <1>5, <1>8, <2>1, <2>2, <2>3, <2>4 DEF InStep
<1>14. Fits(d, n + k)
  BY <1>2, <1>12, <1>13 DEF Good, Fits
<1> QED  BY <1>2, <1>4, <1>6, <1>7, <1>9, <1>11, <1>14 DEF Good

\* A segment goes on its way.
LEMMA ArrivesRemains ==
  ASSUME Flowing, NEW n \in Nat, Holds(s, actor, n, segments), actor.stream # "No",
         NEW k \in Nat, NEW x \in AnySegments, x.data = Interval(s.taken, k),
         x.kind # "Data" => k = 0, NEW c, Good(c, n + k, actor.shutdownCalled), c.rx = s.rx,
         c.taken = s.taken + k, Outside(c), segments' = Append(segments, x), UNCHANGED arrived
  PROVE  Remains
<1>1. PICK a, q : a = actor /\ q = segments
  OBVIOUS
<1>2. s.rx.completion
  BY <1>1 DEF Holds, Fine
<1>4. Fine(a, c, n + k)
  BY <1>1, <1>2 DEF Holds, Fine
<1>5. PICK h \in Nat : h + n = s.taken /\ Follows(q, h, n) /\ q \in Seq(AnySegments)
  BY <1>1 DEF Holds, Train
<1>6. Append(q, x) \in Seq(AnySegments)
  BY <1>5
<1>7. x.data = Interval(h + n, k)
  BY <1>5
<1>8. Follows(Append(q, x), h, n + k)
  BY <1>5, <1>7, LastFollows
<1>9. h + (n + k) = c.taken
  BY <1>5
<1>10. Train(Append(q, x), c, n + k)
  BY <1>6, <1>8, <1>9 DEF Train
<1>11. /\ s' = c /\ actor' = a /\ segments' = Append(q, x) /\ scenario' = scenario
       /\ arrived' \in Nat
  BY <1>1 DEF Outside, Flowing
<1>12. n + k \in Nat
  OBVIOUS
<1>13. Holds(c, a, n + k, Append(q, x))
  BY <1>1, <1>4, <1>10 DEF Holds
<1> QED  BY <1>11, <1>12, <1>13 DEF Remains, LeavesIt

LEMMA LoopReadsRemains ==
  ASSUME Flowing, NEW n \in Nat, Holds(s, actor, n, segments), LoopReads
  PROVE  Remains
<1>1. PICK k \in 1 .. Least(SegmentMost, arrived - s.taken) :
        /\ segments' = Append(segments, Segment("Data", Interval(s.taken, k)))
        /\ Outside([s EXCEPT !.taken = @ + k])
  BY DEF LoopReads
<1>2. k \in Nat
  OBVIOUS
<1>3. Good(s, n, actor.shutdownCalled) /\ s.taken \in Nat
  BY HoldsSuits
<1>4. actor.stream # "No" /\ UNCHANGED arrived
  BY DEF LoopReads
<1>5. s.rx.completion
  BY <1>4 DEF Holds, Fine
<1>6. PICK x : x = Segment("Data", Interval(s.taken, k))
  OBVIOUS
<1>7. x \in AnySegments /\ x.data = Interval(s.taken, k) /\ x.kind = "Data"
  <2>1. Interval(s.taken, k) \in Datas
    BY <1>2, <1>3, IntervalIs DEF Datas
  <2> QED  BY <1>6, <2>1 DEF AnySegments, Segment
<1>8. PICK c : c = [s EXCEPT !.taken = @ + k]
  OBVIOUS
<1>9. Same(s, c, {"taken"}) /\ c.taken = s.taken + k
  BY <1>3, <1>8 DEF Good, Hand, IsSocket, Same, Fields
<1>10. c.rx = s.rx
  BY <1>3, <1>9 DEF Good, Hand, IsSocket, Same, Fields
<1>11. Good(c, n + k, actor.shutdownCalled)
  <2>1. PICK called : called = actor.shutdownCalled
    OBVIOUS
  <2>2. PICK e : e = s
    OBVIOUS
  <2>3. /\ Good(e, n, called) /\ e.rx.completion /\ Same(e, c, {"taken"}) /\ c.taken = e.taken + k
        /\ stream \in Seq(RecordKinds)
    BY <1>3, <1>5, <1>9, <2>1, <2>2, FlowingIs
  <2>4. Good(c, n + k, called)
    BY <1>2, <2>3, TakenGood
  <2> QED  BY <2>1, <2>4
<1>12. segments' = Append(segments, x) /\ Outside(c)
  BY <1>1, <1>6, <1>8
<1> QED  BY <1>2, <1>4, <1>7, <1>9, <1>10, <1>11, <1>12, ArrivesRemains

LEMMA LoopEndsRemains ==
  ASSUME Flowing, NEW n \in Nat, Holds(s, actor, n, segments), LoopEnds
  PROVE  Remains
<1>1. Good(s, n, actor.shutdownCalled) /\ s.taken \in Nat
  BY HoldsSuits
<1>2. PICK x : x = Segment(IF lost THEN "Lost" ELSE "Eof", <<>>)
  OBVIOUS
<1>3. PICK c : c = [s EXCEPT !.ended = TRUE]
  OBVIOUS
<1>4. /\ segments' = Append(segments, x) /\ Outside(c) /\ UNCHANGED arrived /\ actor.stream # "No"
  BY <1>2, <1>3 DEF LoopEnds
<1>5. x \in AnySegments /\ x.data = <<>>
  BY <1>2 DEF AnySegments, Segment, Datas
<1>6. Interval(s.taken, 0) = <<>>
  BY <1>1, IntervalNone
<1>7. Same(s, c, {"ended"})
  BY <1>1, <1>3 DEF Good, Hand, IsSocket, Same, Fields
<1>8. {"ended"} \subseteq Aside \ {"ssl"}
  BY AsideFields
<1>9. Good(c, n, actor.shutdownCalled) /\ c.rx = s.rx /\ c.taken = s.taken
  BY <1>1, <1>7, <1>8, GoodSame
<1>10. n + 0 = n /\ s.taken + 0 = s.taken
  BY <1>1
<1>11. Good(c, n + 0, actor.shutdownCalled) /\ c.taken = s.taken + 0 /\ x.data = Interval(s.taken, 0)
  BY <1>5, <1>6, <1>9, <1>10
<1> QED  BY <1>4, <1>5, <1>9, <1>11, ArrivesRemains

LEMMA WorldRemains ==
  ASSUME Flowing, NEW n \in Nat, Holds(s, actor, n, segments), World \/ PeerEnds \/ SocketLost
  PROVE  Remains
<1>0. IsSocket(s)
  BY HoldsSuits DEF Good, Hand
<1>1. Same(s, s, {}) /\ \A flags : Same(s, AddTCPState(s, flags), {"events"})
  BY <1>0, SameIs, AddTCPStateSame
<1>2. CASE PeerWrites
  <2>1. Outside(s) \/ Outside(AddTCPState(s, {"Read"}))
    BY <1>2 DEF PeerWrites
  <2>2. arrived' \in Nat /\ UNCHANGED segments
    BY <1>2 DEF PeerWrites, Flowing
  <2> QED  BY <1>1, <2>1, <2>2, OutsideRemains, AsideParts
<1>3. CASE PeerEnds
  <2>1. Outside(s) \/ Outside(AddTCPState(s, {"Read"}))
    BY <1>3 DEF PeerEnds
  <2>2. arrived' \in Nat /\ UNCHANGED segments
    BY <1>3 DEF PeerEnds, Flowing
  <2> QED  BY <1>1, <2>1, <2>2, OutsideRemains, AsideParts
<1>4. CASE PeerReads
  <2>1. PICK c : Outside(c) /\ c \in
          {[AddTCPState(s, {"Write"}) EXCEPT !.room = scenario.room, !.armed = FALSE],
           [s EXCEPT !.room = scenario.room]}
    BY <1>4 DEF PeerReads
  <2>2. Same(s, c, {"events", "room", "armed"})
    BY <1>0, <2>1 DEF AddTCPState, IsSocket, Same, Fields
  <2>3. arrived' \in Nat /\ UNCHANGED segments
    BY <1>4 DEF PeerReads, Flowing
  <2> QED  BY <2>1, <2>2, <2>3, OutsideRemains, AsideParts
<1>5. CASE SocketLost
  <2>1. Outside(AddTCPState(s, {"Read", "Write"}))
    BY <1>5 DEF SocketLost
  <2>2. arrived' \in Nat /\ UNCHANGED segments
    BY <1>5 DEF SocketLost, Flowing
  <2> QED  BY <1>1, <2>1, <2>2, OutsideRemains, AsideParts
<1>6. CASE KernelWrites
  <2>1. PICK c, i : Outside(c) /\ c = [s EXCEPT
                     !.wire = Append(@, Head(s.kernel[i].records)),
                     !.room = @ - 1,
                     !.kernel[i].records = Tail(@)]
    BY <1>6 DEF KernelWrites
  <2>2. Same(s, c, {"wire", "room", "kernel"})
    BY <1>0, <2>1 DEF IsSocket, Same, Fields
  <2>3. arrived' \in Nat /\ UNCHANGED segments
    BY <1>6 DEF KernelWrites, Flowing
  <2> QED  BY <2>1, <2>2, <2>3, OutsideRemains, AsideParts
<1>7. CASE KernelCompletes
  <2>1. PICK i, jobs : Outside(Post([s EXCEPT !.kernel[i].stage = "Completed"], jobs))
    BY <1>7 DEF KernelCompletes
  <2>2. Same(s, Post([s EXCEPT !.kernel[i].stage = "Completed"], jobs), {"mail", "kernel"})
    BY <1>0 DEF Post, IsSocket, Same, Fields
  <2>3. arrived' \in Nat /\ UNCHANGED segments
    BY <1>7 DEF KernelCompletes, Flowing
  <2> QED  BY <2>1, <2>2, <2>3, OutsideRemains, AsideParts
<1>8. CASE KernelReleases
  <2>1. PICK i, jobs : Outside(Post([s EXCEPT !.kernel = First(s.kernel, i - 1) \o From(s.kernel, i)], jobs))
    BY <1>8 DEF KernelReleases
  <2>2. Same(s, Post([s EXCEPT !.kernel = First(s.kernel, i - 1) \o From(s.kernel, i)], jobs),
             {"mail", "kernel"})
    BY <1>0 DEF Post, IsSocket, Same, Fields
  <2>3. arrived' \in Nat /\ UNCHANGED segments
    BY <1>8 DEF KernelReleases, Flowing
  <2> QED  BY <2>1, <2>2, <2>3, OutsideRemains, AsideParts
<1> QED  BY <1>2, <1>3, <1>4, <1>5, <1>6, <1>7, <1>8, LoopReadsRemains, LoopEndsRemains DEF World

\* While the scenario is the same, so is what is said of a socket.
LEMMA HoldsOn ==
  ASSUME scenario' = scenario, NEW c, NEW a, NEW n, NEW q, Holds(c, a, n, q)
  PROVE  Holds(c, a, n, q)'
<1>1. stream' = stream
  BY DEF stream
<1>2. \A k : Ends(k)' = Ends(k)
  BY <1>1 DEF Ends
<1>3. \A k : PlainBefore(k)' = PlainBefore(k)
  BY <1>1 DEF PlainBefore
<1>4. Hand(c)'
  BY DEF Holds, Fine, Good, Hand, Shaken, Settled, Checked, Report, Kept
<1>5. Shaped(c)'
  BY <1>1 DEF Holds, Fine, Good, Shaped
<1>6. Plain(c)'
  BY <1>3 DEF Holds, Fine, Good, Plain
<1>7. Place(c)' = Place(c)
  BY <1>2 DEF Place
<1>8. Loose(c)'
  BY <1>7 DEF Holds, Fine, Good, Loose
<1>9. Ruled(c, a.shutdownCalled)'
  BY <1>1 DEF Holds, Fine, Good, Ruled, Awaits, Flying
<1>10. Fits(c, n)'
  BY <1>7 DEF Holds, Fine, Good, Fits, InStep
<1> QED  BY <1>4, <1>5, <1>6, <1>8, <1>9, <1>10 DEF Holds, Fine, Good, Train

\* Whatever is under way, the stream of the peer has come no further than the
\* socket, the segments of the mailbox and the queue of the transport say.
FlowInv == Flowing /\ \E n \in Nat : Holds(s, actor, n, segments)

LEMMA NewSocketAwaits ==
  ASSUME Configured
  PROVE  Awaits(NewSocket)
<1>1. scenario \in Scenarios
  BY DEF Configured
<1>2. \A i \in 1 .. Flying : i \in DOMAIN stream /\ stream[i] = "hs"
  BY <1>1, FlightsAssumption DEF Flying, stream
<1>3. NewSocket.part = 0 /\ NewSocket.read = 0 /\ NewSocket.script = Script
  BY DEF NewSocket
<1>4. \/ Script \in UnreadTwice /\ Flying = 2
      \/ Script \in UnreadOnce /\ Flying = 1
  BY DEF Script, Flying, UnreadTwice, UnreadOnce
<1> QED  BY <1>2, <1>3, <1>4 DEF Awaits

LEMMA NewSocketGood ==
  ASSUME Configured
  PROVE  Good(NewSocket, 0, FALSE)
<1>0. stream \in Seq(RecordKinds)
  BY ScenarioIs DEF Configured
<1>1. Hand(NewSocket) /\ Awaits(NewSocket)
  BY NewSocketHand, NewSocketAwaits
<1>2. /\ NewSocket.rx = NoInput /\ NewSocket.read = 0 /\ NewSocket.part = 0 /\ NewSocket.taken = 0
      /\ NewSocket.given = <<>> /\ NewSocket.ssl = "None" /\ NewSocket.connected = FALSE
      /\ NewSocket.state \in Handshaking
  BY DEF NewSocket, FirstState, Handshaking
<1>3. /\ NoInput.queue = <<>> /\ NoInput.held = <<>> /\ NoInput.completion = FALSE
      /\ NoInput.afterHeld = "Nothing"
  BY DEF NoInput
<1>4. QueueOk(NoInput)
  BY DEF NoInput, QueueOk, RxFields
<1>5. CipherPending(NoInput) = <<>>
  BY <1>3, <1>4, PendingIs, DataOfNone
<1>6. Interval(0, 0) = <<>>
  BY IntervalNone
<1>7. Place(NewSocket) = 0
  <2>1. Ends(0) = 0
    BY <1>0, EndsAre
  <2> QED  BY <1>2, <2>1 DEF Place
<1>8. Shaped(NewSocket)
  BY <1>0, <1>1, <1>2, <1>3, <1>4 DEF Shaped, Hand, HeldEnds
<1>9. Plain(NewSocket)
  <2>1. PlainBefore(0) = 0 + 0
    BY PlainNone
  <2> QED  BY <1>2, <1>3, <1>6, <2>1 DEF Plain
<1>10. Loose(NewSocket) /\ InStep(NewSocket, 0)
  <2>1. NewSocket.taken \in Nat /\ 0 + 0 + 0 = NewSocket.taken
    BY <1>2
  <2> QED  BY <1>2, <1>5, <1>6, <1>7, <2>1 DEF Loose, InStep
<1>11. Ruled(NewSocket, FALSE)
  BY <1>1, <1>2, <1>3 DEF Ruled, Handshaking
<1>12. Fits(NewSocket, 0)
  BY <1>10 DEF Fits
<1> QED  BY <1>1, <1>8, <1>9, <1>10, <1>11, <1>12 DEF Good

LEMMA FlowBegins ==
  Init => FlowInv
<1> SUFFICES ASSUME Init PROVE FlowInv
  OBVIOUS
<1>1. Flowing
  BY DEF Init, Flowing, Configured
<1>2. Good(s, 0, actor.shutdownCalled)
  BY <1>1, NewSocketGood DEF Init, Flowing
<1>3. DOMAIN actor = ActorFields /\ actor.stream = "No" /\ ~actor.drain /\ actor.call = "Start"
  BY DEF Init, ActorFields
<1>4. Fine(actor, s, 0)
  BY <1>2, <1>3 DEF Fine, InputCalls
<1>5. segments = <<>> /\ s.taken = 0
  BY DEF Init, NewSocket
<1>6. Train(segments, s, 0)
  <2>1. Follows(<<>>, 0, 0) /\ 0 + 0 = 0
    BY NoneFollows
  <2> QED  BY <1>5, <2>1 DEF Train
<1>7. Holds(s, actor, 0, segments)
  BY <1>4, <1>5, <1>6 DEF Holds
<1> QED  BY <1>1, <1>7 DEF FlowInv

LEMMA FlowStays ==
  FlowInv /\ [Next]_vars => FlowInv'
<1> SUFFICES ASSUME FlowInv, [Next]_vars PROVE FlowInv'
  OBVIOUS
<1>1. Flowing
  BY DEF FlowInv
<1>2. PICK n \in Nat : Holds(s, actor, n, segments)
  BY DEF FlowInv
<1>3. Remains
  <2>1. CASE UNCHANGED vars
    <3>1. s' = s /\ actor' = actor /\ segments' = segments /\ scenario' = scenario /\ arrived' \in Nat
      BY <1>1, <2>1 DEF vars, Flowing
    <3> QED  BY <1>2, <3>1 DEF Remains, LeavesIt
  <2>2. CASE Next
    BY <1>1, <1>2, <2>2, ActorRemains, WorldRemains DEF Next
  <2> QED  BY <2>1, <2>2
<1>4. PICK c, a, q : \E k \in Nat : LeavesIt(c, a, k, q)
  BY <1>3 DEF Remains
<1>5. PICK m \in Nat : LeavesIt(c, a, m, q)
  BY <1>4
<1>6. /\ s' = c /\ actor' = a /\ segments' = q /\ scenario' = scenario /\ arrived' \in Nat
      /\ Holds(c, a, m, q)
  BY <1>5 DEF LeavesIt
<1>7. Holds(c, a, m, q)'
  BY <1>6, HoldsOn
<1>8. Flowing'
  BY <1>1, <1>6 DEF Flowing, Configured
<1>9. \E k \in Nat : Holds(s, actor, k, segments)'
  BY <1>6, <1>7
<1> QED  BY <1>8, <1>9 DEF FlowInv

LEMMA FlowsInOrder ==
  FlowInv => PlaintextInOrder
<1> SUFFICES ASSUME FlowInv PROVE PlaintextInOrder
  OBVIOUS
<1>1. PICK n \in Nat : Good(s, n, actor.shutdownCalled)
  BY DEF FlowInv, Holds, Fine
<1>2. stream \in Seq(RecordKinds)
  BY FlowingIs DEF FlowInv
<1>3. PICK g, m \in Nat :
        /\ s.given = Interval(0, g) /\ s.rx.held = Interval(g, m)
        /\ PlainBefore(s.read) = g + m
        /\ s.ssl = "Shutdown" => m = 0
  BY <1>1 DEF Good, Plain
<1>4. Len(s.given) = g /\ Len(s.rx.held) = m
  BY <1>3, IntervalIs
<1>5. m = 0 => s.rx.held = <<>>
  BY <1>3, IntervalNone
<1>6. PICK p \in Nat : CipherPending(s.rx) = Interval(Place(s), p)
  BY <1>1 DEF Good, Loose
<1>7. PICK h \in Nat : h = Place(s) /\ h = Ends(s.read) + s.part
  BY <1>1, <1>2, PlaceIs DEF Good, Place
<1>8. PICK pieces : pieces = CipherPending(s.rx)
  OBVIOUS
<1>9. \A i \in DOMAIN pieces : pieces[i] = h + i
  BY <1>6, <1>7, <1>8 DEF Interval
<1>10. \A i \in DOMAIN pieces : pieces[i] = Ends(s.read) + s.part + i
  BY <1>7, <1>9
<1> QED  BY <1>3, <1>4, <1>5, <1>8, <1>10 DEF PlaintextInOrder

\* The plaintext of the peer is given once, whole and in order, on readiness and on
\* completion, and an end of the stream only behind it, whatever is held, queued or
\* on its way.
THEOREM PlaintextInOrderSafe == Spec => []PlaintextInOrder
BY FlowBegins, FlowStays, FlowsInOrder, PTL DEF Spec
=============================================================================

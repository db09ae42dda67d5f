----------------------- MODULE AuthenticatedUnixProofs -----------------------
(***************************************************************************)
(* Proofs about AuthenticatedUnix for every number of attempts, capacity,  *)
(* payload and set of scenarios: no end reports success that its peer has  *)
(* not accepted it in this very attempt, and the application reads exactly *)
(* what that of the peer sent.                                             *)
(***************************************************************************)
EXTENDS AuthenticatedUnix, TLAPS, SequenceTheorems

-----------------------------------------------------------------------------
(* The inductive invariant.                                                *)

Hellos == [by : Sockets, attempt : Sockets]
Kinds == {"Length", "Empty", "Hello", "Signature", "Accept", "Data"}
Transcripts == Seq(Nat \cup BOOLEAN \cup Hellos)
Units == [kind : Kinds, hello : Hellos, transcript : Transcripts]

\* what the kernel may hold in one direction
Held == {q \in Seq(Units) : Len(q) <= Capacity}

Handshakes ==
  [stage : {"WaitHello", "WaitSignature", "WaitAccept", "Done"}, out : Seq(Units),
   length : Kinds \cup {"None"}, peerHello : Hellos]

TypeOK ==
  /\ scenario \in Scenarios
  /\ mp_State \in [Sockets -> {"None", "Connect", "Handshake", "Done", "Disconnected",
                               "ShutdownSocket"}]
  /\ handshake \in [Sockets -> Handshakes]
  /\ chain \in [Sockets -> Seq(Sockets)]
  /\ pc \in [Sockets -> {"Idle", "Flush", "Read", "LastFlush", "End", "Fail", "Transfer"}]
  /\ mp_ConnectionGeneration \in [Sockets -> Nat]
  /\ mp_ConnectionGeneration[Client] \in Sockets
  /\ net \in [Sockets -> {"None", "Connecting", "Backlog", "Open", "Shut", "Closed"}]
  /\ incoming \in [Sockets -> Held]
  /\ owner \in [Sockets -> {"None", "Connecting", "Connected", "Accepted", "Actor", "Gone"}]
  /\ sent \in [Sockets -> 0 .. Payload]
  /\ received \in [Sockets -> Seq(Units)]
  /\ submitted \in [Sockets -> Seq(Units)]

PeerHello(s) == [by |-> Peer(s), attempt |-> Attempt(s)]
PeerChain(s) ==
  IF s = Client THEN <<Attempt(s)>>
  ELSE IF scenario.client.certified THEN <<Client>> ELSE <<>>

\* s has accepted its peer in this attempt; its peer has accepted s.
HasAccepted(s) == <<s = Client, HellosOf(Attempt(s))>> \in accepted
IsAccepted(s) == <<s # Client, HellosOf(Attempt(s))>> \in accepted

\* What may arrive at s: the hello of its present peer, and an acceptance only
\* from a peer that accepted.  What s offers is the same of itself.
Arriving(s) ==
  {u \in Units : /\ u.kind = "Hello" => u.hello = PeerHello(s)
                 /\ u.kind = "Accept" => IsAccepted(s)}
Offered(s) ==
  {u \in Units : /\ u.kind = "Hello" => u.hello = Hello(s)
                 /\ u.kind = "Accept" => HasAccepted(s)}
DataUnits == {u \in Units : u.kind = "Data"}

Buffers(s) ==
  /\ incoming[s] \in Seq(Arriving(s))
  /\ handshake[s].out \in Seq(Offered(s))
  /\ submitted[s] \in Seq(DataUnits)

\* A call pumps in the handshake only, and transfers behind it only.
Calling(s) ==
  /\ pc[s] \in {"Flush", "Read", "LastFlush", "End", "Fail"} => mp_State[s] = "Handshake"
  /\ pc[s] = "Transfer" => mp_State[s] = "Done"

\* What the stages of the handshake have established.
Established(s) ==
  /\ mp_State[s] = "Connect" => chain[s] = <<>>
  /\ mp_State[s] = "Handshake" =>
       IF handshake[s].stage = "WaitHello" THEN chain[s] = <<>>
       ELSE /\ chain[s] = PeerChain(s) /\ handshake[s].peerHello = PeerHello(s)
            /\ handshake[s].stage \in {"WaitAccept", "Done"} => HasAccepted(s)
            /\ handshake[s].stage = "Done" => IsAccepted(s)
  /\ mp_State[s] = "Done" => chain[s] = PeerChain(s) /\ HasAccepted(s) /\ IsAccepted(s)

SocketInv(s) == Buffers(s) /\ Calling(s) /\ Established(s)

\* Before its first attempt the client does nothing.
Unused ==
  mp_ConnectionGeneration[Client] = 0 =>
    pc[Client] = "Idle" /\ owner[Client] = "None" /\ mp_State[Client] = "None"
      /\ submitted[Client] = <<>>

IndInv == TypeOK /\ Unused /\ \A s \in Sockets : SocketInv(s)

-----------------------------------------------------------------------------
(* Units and sequences of them.                                            *)

LEMMA SocketsAre ==
  /\ Client \in Sockets /\ Attempts \subseteq Sockets /\ Client \notin Attempts
  /\ Sockets = 0 .. MaxAttempts /\ MaxAttempts \in Nat \ {0}
BY HandshakeAssumption DEF Client, Attempts, Sockets

LEMMA BoundsAre ==
  /\ Capacity \in Nat /\ Capacity > 0 /\ Payload \in Nat
  /\ \A c \in Scenarios : c.server.certified /\ c.attempts \in Attempts
<1>1. Capacity \in Nat \ {0} /\ Payload \in Nat
  BY HandshakeAssumption
<1>2. \A c \in Scenarios : c.server.certified /\ c.attempts \in Attempts
  BY HandshakeAssumption
<1> QED  BY <1>1, <1>2

LEMMA SeqMono ==
  ASSUME NEW A, NEW B, A \subseteq B, NEW q \in Seq(A)
  PROVE  q \in Seq(B)
<1>1. Len(q) \in Nat /\ q \in [1 .. Len(q) -> A]
  OBVIOUS
<1>2. q \in [1 .. Len(q) -> B]
  BY <1>1
<1> QED  BY <1>1, <1>2

\* A part of a sequence, and two of them one behind the other.
LEMMA SeqPart ==
  ASSUME NEW A, NEW q \in Seq(A), NEW m \in Nat, NEW n \in Nat, n <= Len(q), m >= 1
  PROVE  SubSeq(q, m, n) \in Seq(A)
<1>1. CASE m <= n
  BY <1>1, SubSeqProperties
<1>2. CASE m > n
  <2>1. SubSeq(q, m, n) = <<>>
    BY <1>2
  <2> QED  BY <2>1
<1> QED  BY <1>1, <1>2

LEMMA PartLength ==
  ASSUME NEW A, NEW q \in Seq(A), NEW m \in Nat, NEW n \in Nat, n <= Len(q), m >= 1
  PROVE  Len(SubSeq(q, m, n)) <= Len(q)
<1> DEFINE part == SubSeq(q, m, n)
<1>1. CASE m <= n
  BY <1>1, SubSeqProperties
<1>2. CASE m > n
  <2>1. part = <<>>
    BY <1>2
  <2> HIDE DEF part
  <2>2. Len(part) = 0
    BY <2>1
  <2> QED  BY <2>2 DEF part
<1> QED  BY <1>1, <1>2

LEMMA SeqJoin ==
  ASSUME NEW A, NEW q \in Seq(A), NEW r \in Seq(A)
  PROVE  q \o r \in Seq(A)
BY ConcatProperties

LEMMA PairIsSeq ==
  ASSUME NEW A, NEW a \in A, NEW b \in A
  PROVE  <<a, b>> \in Seq(A)
OBVIOUS

LEMMA PeerHelloType ==
  ASSUME TypeOK, NEW s \in Sockets
  PROVE  /\ Peer(s) \in Sockets /\ Attempt(s) \in Sockets
         /\ Hello(s) \in Hellos /\ PeerHello(s) \in Hellos /\ NoHello \in Hellos
BY SocketsAre DEF TypeOK, Peer, Attempt, Hello, PeerHello, NoHello, Hellos

LEMMA PlainType ==
  ASSUME NEW k \in Kinds
  PROVE  Plain(k) \in Units /\ Plain(k).kind = k
<1>1. NoHello \in Hellos
  BY SocketsAre DEF NoHello, Hellos
<1>2. NoTranscript \in Transcripts
  BY DEF NoTranscript, Transcripts
<1> QED  BY <1>1, <1>2 DEF Plain, Unit, Units

LEMMA SignatureType ==
  ASSUME TypeOK, NEW s \in Sockets, NEW h \in Hellos, NEW b \in BOOLEAN
  PROVE  Unit("Signature", Hello(s), BuildTranscript(s, h, b)) \in Units
<1> DEFINE X == Nat \cup BOOLEAN \cup Hellos
<1>1. Hello(s) \in Hellos
  BY PeerHelloType
<1>2. h \in X /\ Hello(s) \in X /\ b \in X
  BY <1>1
<1> HIDE DEF X
<1>3. <<b>> \in Seq(X) /\ BothHellos(s, h) \in Seq(X)
  <2>1. CASE s = Client
    <3>1. BothHellos(s, h) = <<Hello(s), h>>
      BY <2>1 DEF BothHellos
    <3> QED  BY <1>2, <3>1
  <2>2. CASE s # Client
    <3>1. BothHellos(s, h) = <<h, Hello(s)>>
      BY <2>2 DEF BothHellos
    <3> QED  BY <1>2, <3>1
  <2> QED  BY <2>1, <2>2
<1>4. BuildTranscript(s, h, b) \in Seq(X)
  BY <1>3, ConcatProperties DEF BuildTranscript
<1>5. BuildTranscript(s, h, b) \in Transcripts
  BY <1>4 DEF Transcripts, X
<1> QED  BY <1>1, <1>5 DEF Unit, Units, Kinds

LEMMA DataType ==
  ASSUME TypeOK, NEW s \in Sockets, NEW n \in Nat
  PROVE  Data(s, n) \in Seq(DataUnits) /\ Len(Data(s, n)) = n
<1>1. Hello(s) \in Hellos /\ sent[s] \in Nat
  BY PeerHelloType, HandshakeAssumption DEF TypeOK
<1>2. ASSUME NEW i \in 1 .. n PROVE Unit("Data", Hello(s), <<sent[s] + i>>) \in DataUnits
  <2>1. <<sent[s] + i>> \in Transcripts
    BY <1>1 DEF Transcripts
  <2> QED  BY <1>1, <2>1 DEF Unit, Units, DataUnits, Kinds
<1> QED  BY <1>2 DEF Data

\* The hello of an end, and its acceptance, are what it may offer.
LEMMA FrameOffered ==
  ASSUME NEW s \in Sockets, NEW u \in Offered(s)
  PROVE  Frame(u) \in Seq(Offered(s)) /\ EmptyFrame \in Seq(Offered(s)) /\ Frame(u) \in Seq(Units)
<1>1. Plain("Length") \in Offered(s) /\ Plain("Empty") \in Offered(s)
  BY PlainType DEF Offered, Kinds
<1>2. Frame(u) = <<Plain("Length"), u>> /\ EmptyFrame = <<Plain("Empty")>>
  BY DEF Frame, EmptyFrame
<1> DEFINE O == Offered(s)
<1>3. Plain("Length") \in Units /\ u \in Units
  BY <1>1 DEF Offered
<1> HIDE DEF O
<1> QED  BY <1>1, <1>2, <1>3 DEF O

-----------------------------------------------------------------------------
(* What steps leave alone.                                                 *)

\* The attempt of t is the same and no acceptance is forgotten.
Continues(t) ==
  /\ UNCHANGED scenario
  /\ accepted \subseteq accepted'
  /\ t = Client => mp_ConnectionGeneration'[Client] = mp_ConnectionGeneration[Client]

LEMMA StillArriving ==
  ASSUME NEW t \in Sockets, Continues(t)
  PROVE  /\ Arriving(t) \subseteq Arriving(t)' /\ Offered(t) \subseteq Offered(t)'
         /\ PeerHello(t)' = PeerHello(t) /\ PeerChain(t)' = PeerChain(t)
         /\ HasAccepted(t) => HasAccepted(t)'
         /\ IsAccepted(t) => IsAccepted(t)'
<1>1. Attempt(t)' = Attempt(t) /\ Peer(t)' = Peer(t)
  BY DEF Continues, Attempt, Peer
<1>2. HasAccepted(t) => HasAccepted(t)'
  BY <1>1 DEF HasAccepted, Continues
<1>3. IsAccepted(t) => IsAccepted(t)'
  BY <1>1 DEF IsAccepted, Continues
<1>4. Hello(t)' = Hello(t) /\ PeerHello(t)' = PeerHello(t) /\ PeerChain(t)' = PeerChain(t)
  BY <1>1 DEF Hello, PeerHello, PeerChain, Continues
<1>5. Arriving(t) \subseteq Arriving(t)' /\ Offered(t) \subseteq Offered(t)'
  BY <1>2, <1>3, <1>4 DEF Arriving, Offered
<1> QED  BY <1>2, <1>3, <1>4, <1>5

\* The handshake of t is left alone.
Rests(t) ==
  /\ mp_State'[t] = mp_State[t]
  /\ handshake'[t] = handshake[t]
  /\ chain'[t] = chain[t]
  /\ pc'[t] = pc[t]
  /\ submitted'[t] = submitted[t]

LEMMA RestsKept ==
  ASSUME NEW t \in Sockets, Continues(t), SocketInv(t), Rests(t),
         incoming'[t] \in Seq(Arriving(t)')
  PROVE  SocketInv(t)'
<1>1. Buffers(t)'
  BY StillArriving, SeqMono DEF Buffers, Rests, SocketInv
<1>2. Calling(t)'
  BY DEF Calling, Rests, SocketInv
<1>3. Established(t)'
  BY StillArriving DEF Established, Rests, SocketInv
<1> QED  BY <1>1, <1>2, <1>3 DEF SocketInv

\* Nothing arrives at t either.
LEMMA SocketKept ==
  ASSUME NEW t \in Sockets, Continues(t), SocketInv(t), Rests(t), incoming'[t] = incoming[t]
  PROVE  SocketInv(t)'
<1>1. incoming'[t] \in Seq(Arriving(t)')
  BY StillArriving, SeqMono DEF SocketInv, Buffers
<1> QED  BY <1>1, RestsKept

\* A step of s leaves the attempt of every other socket and its handshake alone,
\* and lets only what may arrive there arrive.
Moves(s) ==
  /\ UNCHANGED scenario
  /\ mp_ConnectionGeneration'[Client] = mp_ConnectionGeneration[Client]
  /\ accepted \subseteq accepted'
  /\ \A t \in Sockets \ {s} : Rests(t) /\ incoming'[t] \in Seq(Arriving(t)')

LEMMA MovesKeeps ==
  ASSUME IndInv, NEW s \in Sockets, Moves(s), SocketInv(s)', TypeOK', Unused'
  PROVE  IndInv'
<1>1. ASSUME NEW t \in Sockets, t # s PROVE SocketInv(t)'
  BY <1>1, RestsKept DEF Moves, Continues, IndInv
<1> QED  BY <1>1 DEF IndInv

-----------------------------------------------------------------------------
(* The kernel.                                                             *)

\* What s offers may arrive at its present peer, once there has been an attempt.
LEMMA OfferedArrives ==
  ASSUME TypeOK, NEW s \in Sockets, Linked(s), s = Client => mp_ConnectionGeneration[Client] # 0
  PROVE  Offered(s) \subseteq Arriving(Peer(s)) /\ Peer(s) # s
<1>1. CASE s = Client
  <2>1. Peer(s) = mp_ConnectionGeneration[Client] /\ Peer(s) # Client
    BY <1>1 DEF Peer, Client
  <2>2. Attempt(Peer(s)) = Attempt(s) /\ Peer(Peer(s)) = s
    BY <1>1, <2>1 DEF Peer, Attempt
  <2> QED  BY <1>1, <2>1, <2>2 DEF Offered, Arriving, Hello, PeerHello, HasAccepted, IsAccepted
<1>2. CASE s # Client
  <2>1. Peer(s) = Client /\ s = mp_ConnectionGeneration[Client]
    BY <1>2 DEF Peer, Linked
  <2>2. Attempt(Peer(s)) = Attempt(s) /\ Peer(Peer(s)) = s
    BY <1>2, <2>1 DEF Peer, Attempt
  <2> QED  BY <1>2, <2>1, <2>2 DEF Offered, Arriving, Hello, PeerHello, HasAccepted, IsAccepted
<1> QED  BY <1>1, <1>2

\* A read leaves a part of what had arrived.
LEMMA TakeKeeps ==
  ASSUME TypeOK, NEW s \in Sockets, NEW n \in Nat, Take(s, n)
  PROVE  /\ incoming' \in [Sockets -> Held]
         /\ \A t \in Sockets \ {s} : incoming'[t] = incoming[t]
         /\ incoming'[s] = SubSeq(incoming[s], n + 1, Len(incoming[s]))
         /\ \A A : incoming[s] \in Seq(A) => incoming'[s] \in Seq(A)
<1>1. /\ incoming \in [Sockets -> Held]
      /\ incoming' = [incoming EXCEPT ![s] = SubSeq(incoming[s], n + 1, Len(incoming[s]))]
  BY DEF TypeOK, Take
<1>2. ASSUME NEW A, incoming[s] \in Seq(A)
      PROVE SubSeq(incoming[s], n + 1, Len(incoming[s])) \in Seq(A)
  BY <1>2, SeqPart
<1>3. incoming[s] \in Seq(Units) /\ Len(incoming[s]) <= Capacity
  BY <1>1 DEF Held
<1>4. SubSeq(incoming[s], n + 1, Len(incoming[s])) \in Seq(Units)
  BY <1>2, <1>3
<1>5. Len(SubSeq(incoming[s], n + 1, Len(incoming[s]))) <= Len(incoming[s])
  BY <1>3, PartLength
<1>6. SubSeq(incoming[s], n + 1, Len(incoming[s])) \in Held
  BY <1>3, <1>4, <1>5, BoundsAre DEF Held
<1> QED  BY <1>1, <1>2, <1>6

LEMMA WriteKeeps ==
  ASSUME TypeOK, NEW s \in Sockets, NEW units \in Seq(Units), Write(s, units),
         units # <<>> => Len(units) <= Space(s)
  PROVE  /\ incoming' \in [Sockets -> Held]
         /\ \A t \in Sockets \ {Peer(s)} : incoming'[t] = incoming[t]
         /\ incoming'[Peer(s)] = incoming[Peer(s)] \o units
<1>1. /\ incoming \in [Sockets -> Held]
      /\ incoming' = [incoming EXCEPT ![Peer(s)] = incoming[Peer(s)] \o units]
  BY DEF TypeOK, Write
<1>2. Peer(s) \in Sockets
  BY PeerHelloType
<1>3. incoming[Peer(s)] \in Seq(Units) /\ Len(incoming[Peer(s)]) <= Capacity
  BY <1>1, <1>2 DEF Held
<1>4. incoming[Peer(s)] \o units \in Seq(Units)
  BY <1>3, SeqJoin
<1>5. Len(incoming[Peer(s)] \o units) <= Capacity
  <2>1. Len(incoming[Peer(s)] \o units) = Len(incoming[Peer(s)]) + Len(units)
    BY <1>3, ConcatProperties
  <2>2. units = <<>> => Len(units) = 0
    OBVIOUS
  <2> QED  BY <1>3, <2>1, <2>2, HandshakeAssumption DEF Space
<1>6. incoming[Peer(s)] \o units \in Held
  BY <1>4, <1>5 DEF Held
<1> QED  BY <1>1, <1>2, <1>6

\* The attempts and acceptances stay while a socket rests.
LEMMA ArrivedStays ==
  ASSUME IndInv, NEW t \in Sockets, UNCHANGED <<scenario, mp_ConnectionGeneration>>,
         accepted \subseteq accepted', incoming'[t] = incoming[t]
  PROVE  incoming'[t] \in Seq(Arriving(t)')
<1>1. Arriving(t) \subseteq Arriving(t)'
  BY StillArriving DEF Continues
<1>2. incoming[t] \in Seq(Arriving(t))
  BY DEF IndInv, SocketInv, Buffers
<1> QED  BY <1>1, <1>2, SeqMono

LEMMA SpaceIsNat ==
  ASSUME TypeOK, NEW s \in Sockets
  PROVE  Space(s) \in Nat
<1>1. Peer(s) \in Sockets
  BY PeerHelloType
<1>2. Len(incoming[Peer(s)]) \in Nat /\ Len(incoming[Peer(s)]) <= Capacity
  BY <1>1 DEF TypeOK, Held
<1> QED  BY <1>2, HandshakeAssumption DEF Space

\* What s writes is what its present peer may read.
LEMMA WrittenArrives ==
  ASSUME IndInv, NEW s \in Sockets, NEW units \in Seq(Offered(s)),
         UNCHANGED <<scenario, mp_ConnectionGeneration, accepted>>,
         units # <<>> => Linked(s), s = Client => mp_ConnectionGeneration[Client] # 0,
         \A t \in Sockets \ {Peer(s)} : incoming'[t] = incoming[t],
         incoming'[Peer(s)] = incoming[Peer(s)] \o units
  PROVE  \A t \in Sockets : incoming'[t] \in Seq(Arriving(t)')
<1>1. \A t \in Sockets : incoming[t] \in Seq(Arriving(t)) /\ Arriving(t) \subseteq Arriving(t)'
  <2> TAKE t \in Sockets
  <2>1. incoming[t] \in Seq(Arriving(t))
    BY DEF IndInv, SocketInv, Buffers
  <2>2. Arriving(t) \subseteq Arriving(t)'
    BY StillArriving DEF Continues
  <2> QED  BY <2>1, <2>2
<1>2. Peer(s) \in Sockets
  BY PeerHelloType DEF IndInv
<1>3. units \in Seq(Arriving(Peer(s)))
  <2>1. CASE units = <<>>
    BY <2>1
  <2>2. CASE units # <<>>
    BY <2>2, OfferedArrives, SeqMono DEF IndInv
  <2> QED  BY <2>1, <2>2
<1>4. incoming'[Peer(s)] \in Seq(Arriving(Peer(s)))
  BY <1>1, <1>2, <1>3, SeqJoin
<1>5. ASSUME NEW t \in Sockets PROVE incoming'[t] \in Seq(Arriving(t))
  <2>1. CASE t = Peer(s)
    BY <1>4, <2>1
  <2>2. CASE t # Peer(s)
    BY <1>1, <2>2
  <2> QED  BY <2>1, <2>2
<1>6. ASSUME NEW t \in Sockets PROVE incoming'[t] \in Seq(Arriving(t)')
  BY <1>1, <1>5, SeqMono
<1> QED  BY <1>6

-----------------------------------------------------------------------------
(* The pump.                                                               *)

Places == {"Idle", "Flush", "Read", "LastFlush", "End", "Fail", "Transfer"}

\* What every step of the pump of s comes to.
LEMMA PumpKept ==
  ASSUME IndInv, NEW s \in Sockets, PumpKeeps, accepted \subseteq accepted',
         s = Client => mp_ConnectionGeneration[Client] # 0,
         handshake' \in [Sockets -> Handshakes], chain' \in [Sockets -> Seq(Sockets)],
         pc' \in [Sockets -> Places], incoming' \in [Sockets -> Held],
         \A t \in Sockets \ {s} :
           /\ handshake'[t] = handshake[t] /\ chain'[t] = chain[t] /\ pc'[t] = pc[t]
           /\ incoming'[t] \in Seq(Arriving(t)'),
         SocketInv(s)'
  PROVE  IndInv'
<1>1. TypeOK'
  BY DEF IndInv, TypeOK, PumpKeeps, dataVars, Places
<1>2. Unused'
  BY SocketsAre DEF IndInv, Unused, PumpKeeps, dataVars
<1>3. Moves(s)
  BY DEF Moves, PumpKeeps, dataVars, Rests
<1> QED  BY <1>1, <1>2, <1>3, MovesKeeps

\* A socket that pumps is in a handshake of an attempt.
LEMMA PumpsInHandshake ==
  ASSUME IndInv, NEW s \in Sockets, pc[s] \in {"Flush", "Read", "LastFlush", "End", "Fail"}
  PROVE  /\ mp_State[s] = "Handshake"
         /\ s = Client => mp_ConnectionGeneration[Client] # 0
<1>1. mp_State[s] = "Handshake"
  BY DEF IndInv, SocketInv, Calling
<1>2. s = Client => mp_ConnectionGeneration[Client] # 0
  BY DEF IndInv, Unused
<1> QED  BY <1>1, <1>2

LEMMA GotoKeeps ==
  ASSUME TypeOK, NEW s \in Sockets, NEW at \in Places, Goto(s, at)
  PROVE  /\ pc' \in [Sockets -> Places] /\ pc'[s] = at
         /\ \A t \in Sockets \ {s} : pc'[t] = pc[t]
BY DEF TypeOK, Goto, Places

LEMMA FirstArrives ==
  ASSUME IndInv, NEW s \in Sockets, incoming[s] # <<>>
  PROVE  FirstUnit(s) \in Arriving(s) /\ FirstUnit(s) \in Units
<1>1. incoming[s] \in Seq(Arriving(s))
  BY DEF IndInv, SocketInv, Buffers
<1>2. Head(incoming[s]) \in Arriving(s)
  BY <1>1
<1> QED  BY <1>2 DEF FirstUnit, Arriving

LEMMA ReadLengthStep ==
  ASSUME IndInv, NEW s \in Sockets, ReadLength(s)
  PROVE  IndInv'
<1>1. TypeOK /\ SocketInv(s) /\ handshake \in [Sockets -> Handshakes]
  BY DEF IndInv, TypeOK
<1>2. /\ PumpKeeps /\ UNCHANGED <<chain, accepted, pc>> /\ Take(s, 1) /\ incoming[s] # <<>>
      /\ pc[s] = "Read" /\ handshake[s].stage # "Done"
      /\ handshake' = [handshake EXCEPT ![s].length = FirstUnit(s).kind]
  BY DEF ReadLength, Running, FirstUnit
<1>3. mp_State[s] = "Handshake" /\ (s = Client => mp_ConnectionGeneration[Client] # 0)
  BY <1>2, PumpsInHandshake
<1>4. /\ incoming' \in [Sockets -> Held]
      /\ \A t \in Sockets \ {s} : incoming'[t] = incoming[t]
      /\ \A A : incoming[s] \in Seq(A) => incoming'[s] \in Seq(A)
  BY <1>1, <1>2, TakeKeeps
<1>5. FirstUnit(s).kind \in Kinds
  BY <1>2, FirstArrives DEF Units
<1>6. /\ handshake' \in [Sockets -> Handshakes]
      /\ handshake'[s] = [handshake[s] EXCEPT !.length = FirstUnit(s).kind]
      /\ \A t \in Sockets \ {s} : handshake'[t] = handshake[t]
  BY <1>1, <1>2, <1>5 DEF Handshakes
<1>7. /\ handshake'[s].stage = handshake[s].stage /\ handshake'[s].out = handshake[s].out
      /\ handshake'[s].peerHello = handshake[s].peerHello
  BY <1>1, <1>6 DEF Handshakes
<1>8. UNCHANGED <<scenario, mp_ConnectionGeneration, mp_State, submitted>>
  BY <1>2 DEF PumpKeeps, dataVars
<1>9. \A t \in Sockets \ {s} : incoming'[t] \in Seq(Arriving(t)')
  BY <1>2, <1>4, <1>8, ArrivedStays
<1>10. SocketInv(s)'
  <2>1. Continues(s)
    BY <1>2, <1>8 DEF Continues
  <2>2. Buffers(s)'
    BY <1>1, <1>4, <1>7, <1>8, <2>1, StillArriving, SeqMono DEF SocketInv, Buffers
  <2>3. Calling(s)'
    BY <1>1, <1>2, <1>8 DEF SocketInv, Calling
  <2>4. Established(s)'
    BY <1>1, <1>2, <1>7, <1>8, <2>1, StillArriving DEF SocketInv, Established
  <2> QED  BY <2>2, <2>3, <2>4 DEF SocketInv
<1>11. chain' \in [Sockets -> Seq(Sockets)] /\ pc' \in [Sockets -> Places]
  BY <1>1, <1>2 DEF TypeOK, Places
<1> QED  BY <1>2, <1>3, <1>4, <1>6, <1>9, <1>10, <1>11, PumpKept

\* The end of a frame: what the pump read of it.
LEMMA FrameReadKeeps ==
  ASSUME IndInv, NEW s \in Sockets, NEW stage, FrameRead(s, stage)
  PROVE  /\ PumpKeeps /\ pc[s] = "Read" /\ mp_State[s] = "Handshake"
         /\ handshake[s].stage = stage
         /\ s = Client => mp_ConnectionGeneration[Client] # 0
         /\ incoming' \in [Sockets -> Held]
         /\ \A t \in Sockets \ {s} : incoming'[t] = incoming[t]
         /\ \A A : incoming[s] \in Seq(A) => incoming'[s] \in Seq(A)
         /\ handshake[s].length = "Length" => incoming[s] # <<>>
<1>1. PumpKeeps /\ pc[s] = "Read" /\ handshake[s].stage = stage
  BY DEF FrameRead, Running
<1>2. mp_State[s] = "Handshake" /\ (s = Client => mp_ConnectionGeneration[Client] # 0)
  BY <1>1, PumpsInHandshake
<1>3. CASE handshake[s].length = "Empty" /\ UNCHANGED incoming
  BY <1>1, <1>2, <1>3 DEF IndInv, TypeOK
<1>4. CASE handshake[s].length = "Length" /\ incoming[s] # <<>> /\ Take(s, 1)
  BY <1>1, <1>2, <1>4, TakeKeeps DEF IndInv
<1> QED  BY <1>3, <1>4 DEF FrameRead

\* What the frame of the present stage comes to, but for the handshake.
LEMMA FrameStep ==
  ASSUME IndInv, NEW s \in Sockets, NEW stage, FrameRead(s, stage), accepted \subseteq accepted',
         handshake' \in [Sockets -> Handshakes], chain' \in [Sockets -> Seq(Sockets)],
         pc' \in [Sockets -> Places],
         \A t \in Sockets \ {s} :
           handshake'[t] = handshake[t] /\ chain'[t] = chain[t] /\ pc'[t] = pc[t],
         pc'[s] \in {"Read", "Fail"},
         handshake'[s].out \in Seq(Offered(s)'),
         Established(s)'
  PROVE  IndInv'
<1>1. /\ PumpKeeps /\ mp_State[s] = "Handshake"
      /\ s = Client => mp_ConnectionGeneration[Client] # 0
      /\ incoming' \in [Sockets -> Held]
      /\ \A t \in Sockets \ {s} : incoming'[t] = incoming[t]
      /\ \A A : incoming[s] \in Seq(A) => incoming'[s] \in Seq(A)
  BY FrameReadKeeps
<1>2. UNCHANGED <<scenario, mp_ConnectionGeneration, mp_State, submitted>>
  BY <1>1 DEF PumpKeeps, dataVars
<1>3. \A t \in Sockets \ {s} : incoming'[t] \in Seq(Arriving(t)')
  BY <1>1, <1>2, ArrivedStays
<1>4. Continues(s)
  BY <1>2 DEF Continues
<1>5. incoming'[s] \in Seq(Arriving(s)') /\ submitted'[s] \in Seq(DataUnits)
  <2>1. incoming[s] \in Seq(Arriving(s)) /\ submitted[s] \in Seq(DataUnits)
    BY DEF IndInv, SocketInv, Buffers
  <2>2. incoming[s] \in Seq(Arriving(s)')
    BY <1>4, <2>1, StillArriving, SeqMono
  <2> QED  BY <1>1, <1>2, <2>1, <2>2
<1>6. SocketInv(s)'
  <2>1. Buffers(s)'
    BY <1>5 DEF Buffers, DataUnits, Units, Kinds
  <2>2. Calling(s)'
    BY <1>1, <1>2 DEF Calling
  <2> QED  BY <2>1, <2>2 DEF SocketInv
<1> QED  BY <1>1, <1>3, <1>6, PumpKept

\* A frame that fails the handshake.
LEMMA FrameFails ==
  ASSUME IndInv, NEW s \in Sockets, NEW stage, FrameRead(s, stage), Goto(s, "Fail"),
         UNCHANGED <<handshake, chain, accepted>>
  PROVE  IndInv'
<1>1. TypeOK /\ SocketInv(s) /\ handshake \in [Sockets -> Handshakes]
      /\ chain \in [Sockets -> Seq(Sockets)]
  BY DEF IndInv, TypeOK
<1>2. PumpKeeps
  BY FrameReadKeeps
<1>3. /\ pc' \in [Sockets -> Places] /\ pc'[s] = "Fail"
      /\ \A t \in Sockets \ {s} : pc'[t] = pc[t]
  BY <1>1, GotoKeeps DEF Places
<1>4. UNCHANGED <<scenario, mp_ConnectionGeneration, mp_State>>
  BY <1>2 DEF PumpKeeps
<1>5. Continues(s)
  BY <1>4 DEF Continues
<1>6. handshake'[s].out \in Seq(Offered(s)')
  BY <1>1, <1>5, StillArriving, SeqMono DEF SocketInv, Buffers
<1>7. Established(s)'
  BY <1>1, <1>4, <1>5, StillArriving DEF SocketInv, Established
<1> QED  BY <1>1, <1>3, <1>6, <1>7, FrameStep

\* The hello is that of the present peer, and the certificates it brings are its.
LEMMA HandleHelloFrameStep ==
  ASSUME IndInv, NEW s \in Sockets, HandleHelloFrame(s)
  PROVE  IndInv'
<1> DEFINE peer == FirstUnit(s).hello
           answer == IF Policy(s).certified
                       THEN Frame(Unit("Signature", Hello(s), BuildTranscript(s, peer, s # Client)))
                     ELSE EmptyFrame
           next == [stage |-> "WaitSignature", length |-> "None", peerHello |-> peer,
                    out |-> handshake[s].out \o answer]
<1>1. /\ FrameRead(s, "WaitHello") /\ UNCHANGED accepted
      /\ TypeOK /\ SocketInv(s)
      /\ handshake \in [Sockets -> Handshakes] /\ chain \in [Sockets -> Seq(Sockets)]
      /\ pc \in [Sockets -> Places]
  BY DEF HandleHelloFrame, IndInv, TypeOK, Places
<1>2. /\ PumpKeeps /\ mp_State[s] = "Handshake" /\ handshake[s].stage = "WaitHello"
      /\ pc[s] = "Read"
      /\ s = Client => mp_ConnectionGeneration[Client] # 0
      /\ handshake[s].length = "Length" => incoming[s] # <<>>
  BY <1>1, FrameReadKeeps
<1>3. CASE Goto(s, "Fail") /\ UNCHANGED <<chain, handshake>>
  BY <1>1, <1>3, FrameFails
<1>4. CASE /\ handshake[s].length = "Length" /\ FirstUnit(s).kind = "Hello"
           /\ chain' = IF Policy(peer.by).certified THEN [chain EXCEPT ![s] = Append(chain[s], peer.by)]
                       ELSE chain
           /\ handshake' = [handshake EXCEPT ![s] = next]
           /\ UNCHANGED pc
  <2>1. FirstUnit(s) \in Arriving(s)
    BY <1>2, <1>4, FirstArrives
  <2>2. peer = PeerHello(s)
    BY <1>4, <2>1 DEF Arriving
  <2>3. peer \in Hellos /\ Peer(s) \in Sockets /\ Attempt(s) \in Sockets
    BY <1>1, <2>2, PeerHelloType
  <2>4. answer \in Seq(Offered(s)) /\ answer \in Seq(Units)
    <3>1. Unit("Signature", Hello(s), BuildTranscript(s, peer, s # Client)) \in Offered(s)
      BY <1>1, <2>3, SignatureType DEF Offered, Unit
    <3>2. \A u \in Offered(s) : Frame(u) \in Seq(Offered(s)) /\ Frame(u) \in Seq(Units)
      BY FrameOffered
    <3>3. EmptyFrame \in Seq(Offered(s)) /\ EmptyFrame \in Seq(Units)
      <4>1. EmptyFrame \in Seq(Offered(s))
        BY <3>1, FrameOffered
      <4>2. Offered(s) \subseteq Units
        BY DEF Offered
      <4> QED  BY <4>1, <4>2, SeqMono
    <3> QED  BY <3>1, <3>2, <3>3
  <2>5. handshake[s].out \in Seq(Offered(s)) /\ handshake[s].out \in Seq(Units)
    BY <1>1 DEF SocketInv, Buffers, Handshakes
  <2> HIDE DEF answer
  <2>6. handshake[s].out \o answer \in Seq(Offered(s)) /\ handshake[s].out \o answer \in Seq(Units)
    BY <2>4, <2>5, SeqJoin
  <2>7. next \in Handshakes
    BY <2>3, <2>6 DEF Handshakes, Kinds
  <2>8. /\ handshake' \in [Sockets -> Handshakes] /\ handshake'[s] = next
        /\ \A t \in Sockets \ {s} : handshake'[t] = handshake[t]
    BY <1>1, <1>4, <2>7
  <2>9. UNCHANGED <<scenario, mp_ConnectionGeneration, mp_State>>
    BY <1>2 DEF PumpKeeps
  <2>10. Continues(s)
    BY <1>1, <2>9 DEF Continues
  <2>11. handshake'[s].out \in Seq(Offered(s)')
    BY <2>6, <2>8, <2>10, StillArriving, SeqMono
  <2>12. chain[s] = <<>>
    BY <1>1, <1>2 DEF SocketInv, Established
  <2>13. peer.by = Peer(s)
    BY <2>2 DEF PeerHello
  <2>14. Append(chain[s], peer.by) = <<Peer(s)>>
    BY <2>12, <2>13
  <2>15. Append(chain[s], peer.by) \in Seq(Sockets)
    BY <2>3, <2>14
  <2>16. chain' \in [Sockets -> Seq(Sockets)] /\ \A t \in Sockets \ {s} : chain'[t] = chain[t]
    BY <1>1, <1>4, <2>15
  <2>17. chain'[s] = PeerChain(s)
    <3>1. CASE s = Client
      <4>1. Peer(s) = Attempt(s) /\ Peer(s) # Client
        BY <1>2, <3>1 DEF Peer, Attempt, Client
      <4>2. Policy(peer.by).certified
        BY <1>1, <2>13, <4>1, HandshakeAssumption DEF TypeOK, Policy
      <4>3. chain'[s] = <<Peer(s)>>
        BY <1>1, <1>4, <2>14, <4>2
      <4> QED  BY <3>1, <4>1, <4>3 DEF PeerChain
    <3>2. CASE s # Client
      <4>1. Peer(s) = Client /\ Policy(peer.by) = scenario.client
        BY <3>2, <2>13 DEF Peer, Policy
      <4>2. CASE scenario.client.certified
        BY <1>1, <1>4, <2>14, <3>2, <4>1, <4>2 DEF PeerChain
      <4>3. CASE ~scenario.client.certified
        BY <1>1, <1>4, <2>12, <3>2, <4>1, <4>3 DEF PeerChain
      <4> QED  BY <4>2, <4>3
    <3> QED  BY <3>1, <3>2
  <2>18. Established(s)'
    BY <1>2, <2>2, <2>8, <2>9, <2>10, <2>17, StillArriving DEF Established
  <2> QED  BY <1>1, <1>2, <1>4, <2>8, <2>11, <2>16, <2>18, FrameStep
<1> QED  BY <1>3, <1>4 DEF HandleHelloFrame

\* The transcript an end accepts is that of both hellos of its attempt.
LEMMA BothAreOfAttempt ==
  ASSUME TypeOK, NEW s \in Sockets, s = Client => mp_ConnectionGeneration[Client] # 0
  PROVE  BothHellos(s, PeerHello(s)) = HellosOf(Attempt(s))
<1>1. CASE s = Client
  BY <1>1 DEF BothHellos, HellosOf, Hello, PeerHello, Peer, Attempt
<1>2. CASE s # Client
  BY <1>2 DEF BothHellos, HellosOf, Hello, PeerHello, Peer, Attempt
<1> QED  BY <1>1, <1>2

LEMMA HandleSignatureFrameStep ==
  ASSUME IndInv, NEW s \in Sockets, HandleSignatureFrame(s)
  PROVE  IndInv'
<1> DEFINE next == [handshake[s] EXCEPT !.stage = "WaitAccept", !.length = "None",
                      !.out = handshake[s].out \o Frame(Plain("Accept"))]
<1>1. /\ FrameRead(s, "WaitSignature") /\ UNCHANGED chain
      /\ TypeOK /\ SocketInv(s)
      /\ handshake \in [Sockets -> Handshakes] /\ chain \in [Sockets -> Seq(Sockets)]
      /\ pc \in [Sockets -> Places]
  BY DEF HandleSignatureFrame, IndInv, TypeOK, Places
<1>2. /\ PumpKeeps /\ mp_State[s] = "Handshake" /\ handshake[s].stage = "WaitSignature"
      /\ pc[s] = "Read"
      /\ s = Client => mp_ConnectionGeneration[Client] # 0
  BY <1>1, FrameReadKeeps
<1>3. CASE Goto(s, "Fail") /\ UNCHANGED <<handshake, accepted>>
  BY <1>1, <1>3, FrameFails
<1>4. CASE AcceptPeer(s) /\ UNCHANGED pc
  <2>1. /\ handshake' = [handshake EXCEPT ![s] = next]
        /\ accepted' = accepted \cup {<<s = Client, BothHellos(s, handshake[s].peerHello)>>}
    <3>1. handshake' = [handshake EXCEPT ![s] = next]
      BY <1>4 DEF AcceptPeer
    <3>2. accepted' = accepted \cup {<<s = Client, BothHellos(s, handshake[s].peerHello)>>}
      BY <1>4, Zenon DEF AcceptPeer
    <3> QED  BY <3>1, <3>2
  <2>2. UNCHANGED <<scenario, mp_ConnectionGeneration, mp_State>>
    BY <1>2 DEF PumpKeeps
  <2>3. Continues(s) /\ accepted \subseteq accepted'
    BY <2>1, <2>2 DEF Continues
  <2>4. chain[s] = PeerChain(s) /\ handshake[s].peerHello = PeerHello(s)
    BY <1>1, <1>2 DEF SocketInv, Established
  <2>5. HasAccepted(s)'
    <3>1. BothHellos(s, handshake[s].peerHello) = HellosOf(Attempt(s))
      BY <1>1, <1>2, <2>4, BothAreOfAttempt
    <3>2. Attempt(s)' = Attempt(s)
      BY <2>2 DEF Attempt
    <3> QED  BY <2>1, <3>1, <3>2 DEF HasAccepted, HellosOf
  <2>6. handshake[s].out \in Seq(Offered(s)') /\ handshake[s].out \in Seq(Units)
    <3>1. handshake[s].out \in Seq(Offered(s)) /\ handshake[s].out \in Seq(Units)
      BY <1>1 DEF SocketInv, Buffers, Handshakes
    <3> QED  BY <2>3, <3>1, StillArriving, SeqMono
  <2>7. Frame(Plain("Accept")) \in Seq(Offered(s)') /\ Frame(Plain("Accept")) \in Seq(Units)
    <3>1. /\ Plain("Accept") \in Units /\ Plain("Accept").kind = "Accept"
          /\ Plain("Length") \in Units /\ Plain("Length").kind = "Length"
      BY PlainType DEF Kinds
    <3>2. Plain("Accept") \in Offered(s)' /\ Plain("Length") \in Offered(s)'
      BY <2>5, <3>1 DEF Offered
    <3>3. Frame(Plain("Accept")) = <<Plain("Length"), Plain("Accept")>>
      BY DEF Frame
    <3> QED  BY <3>1, <3>2, <3>3, PairIsSeq
  <2>8. /\ handshake[s].out \o Frame(Plain("Accept")) \in Seq(Offered(s)')
        /\ handshake[s].out \o Frame(Plain("Accept")) \in Seq(Units)
    BY <2>6, <2>7, SeqJoin
  <2>9. /\ next \in Handshakes /\ next.stage = "WaitAccept"
        /\ next.out = handshake[s].out \o Frame(Plain("Accept"))
        /\ next.peerHello = handshake[s].peerHello
    BY <1>1, <2>8 DEF Handshakes
  <2>10. /\ handshake' \in [Sockets -> Handshakes] /\ handshake'[s] = next
         /\ \A t \in Sockets \ {s} : handshake'[t] = handshake[t]
    BY <1>1, <2>1, <2>9
  <2>11. handshake'[s].out \in Seq(Offered(s)')
    BY <2>8, <2>9, <2>10
  <2>12. Established(s)'
    BY <1>1, <1>2, <2>2, <2>3, <2>4, <2>5, <2>9, <2>10, StillArriving DEF Established
  <2> QED  BY <1>1, <1>2, <1>4, <2>3, <2>10, <2>11, <2>12, FrameStep
<1> QED  BY <1>3, <1>4 DEF HandleSignatureFrame

\* The acceptance of the peer was sent in this attempt.
LEMMA HandleAcceptFrameStep ==
  ASSUME IndInv, NEW s \in Sockets, HandleAcceptFrame(s)
  PROVE  IndInv'
<1> DEFINE next == [handshake[s] EXCEPT !.stage = "Done", !.length = "None"]
<1>1. /\ FrameRead(s, "WaitAccept") /\ UNCHANGED <<chain, accepted>>
      /\ TypeOK /\ SocketInv(s)
      /\ handshake \in [Sockets -> Handshakes] /\ chain \in [Sockets -> Seq(Sockets)]
      /\ pc \in [Sockets -> Places]
  BY DEF HandleAcceptFrame, IndInv, TypeOK, Places
<1>2. /\ PumpKeeps /\ mp_State[s] = "Handshake" /\ handshake[s].stage = "WaitAccept"
      /\ pc[s] = "Read"
      /\ handshake[s].length = "Length" => incoming[s] # <<>>
  BY <1>1, FrameReadKeeps
<1>3. CASE Goto(s, "Fail") /\ UNCHANGED handshake
  BY <1>1, <1>3, FrameFails
<1>4. CASE /\ handshake[s].length = "Length" /\ FirstUnit(s).kind = "Accept"
           /\ handshake' = [handshake EXCEPT ![s] = next]
           /\ UNCHANGED pc
  <2>1. IsAccepted(s)
    BY <1>2, <1>4, FirstArrives DEF Arriving
  <2>2. UNCHANGED <<scenario, mp_ConnectionGeneration, mp_State>>
    BY <1>2 DEF PumpKeeps
  <2>3. Continues(s)
    BY <1>1, <2>2 DEF Continues
  <2>4. /\ next \in Handshakes /\ next.stage = "Done" /\ next.out = handshake[s].out
        /\ next.peerHello = handshake[s].peerHello
    BY <1>1 DEF Handshakes
  <2>5. /\ handshake' \in [Sockets -> Handshakes] /\ handshake'[s] = next
        /\ \A t \in Sockets \ {s} : handshake'[t] = handshake[t]
    BY <1>1, <1>4, <2>4
  <2>6. handshake'[s].out \in Seq(Offered(s)')
    BY <1>1, <2>3, <2>4, <2>5, StillArriving, SeqMono DEF SocketInv, Buffers
  <2>7. Established(s)'
    BY <1>1, <1>2, <2>1, <2>2, <2>3, <2>4, <2>5, StillArriving DEF SocketInv, Established
  <2> QED  BY <1>1, <1>2, <1>4, <2>5, <2>6, <2>7, FrameStep
<1> QED  BY <1>3, <1>4 DEF HandleAcceptFrame

\* A step of the pump that moves the call on and nothing else.
LEMMA GotoStep ==
  ASSUME IndInv, NEW s \in Sockets, PumpKeeps, NEW at \in {"LastFlush", "Fail"}, Goto(s, at),
         pc[s] \in {"Flush", "Read", "LastFlush"},
         UNCHANGED <<chain, handshake, incoming, accepted>>
  PROVE  IndInv'
<1>1. /\ TypeOK /\ SocketInv(s)
      /\ handshake \in [Sockets -> Handshakes] /\ chain \in [Sockets -> Seq(Sockets)]
      /\ incoming \in [Sockets -> Held]
  BY DEF IndInv, TypeOK
<1>2. mp_State[s] = "Handshake" /\ (s = Client => mp_ConnectionGeneration[Client] # 0)
  BY PumpsInHandshake
<1>3. /\ pc' \in [Sockets -> Places] /\ pc'[s] = at
      /\ \A t \in Sockets \ {s} : pc'[t] = pc[t]
  BY <1>1, GotoKeeps DEF Places
<1>4. UNCHANGED <<scenario, mp_ConnectionGeneration, mp_State, submitted>>
  BY DEF PumpKeeps, dataVars
<1>5. Continues(s)
  BY <1>4 DEF Continues
<1>6. \A t \in Sockets \ {s} : incoming'[t] \in Seq(Arriving(t)')
  BY <1>4, ArrivedStays
<1>7. Buffers(s)'
  BY <1>1, <1>4, <1>5, StillArriving, SeqMono DEF SocketInv, Buffers
<1>8. Calling(s)'
  BY <1>2, <1>3, <1>4 DEF Calling
<1>9. Established(s)'
  BY <1>1, <1>4, <1>5, StillArriving DEF SocketInv, Established
<1> QED  BY <1>1, <1>2, <1>3, <1>6, <1>7, <1>8, <1>9, PumpKept DEF SocketInv

LEMMA StopReadingStep ==
  ASSUME IndInv, NEW s \in Sockets, StopReading(s)
  PROVE  IndInv'
BY GotoStep DEF StopReading, Running

\* What s writes is what it offers, and it arrives at its present peer.
LEMMA FlushOutgoingStep ==
  ASSUME IndInv, NEW s \in Sockets, FlushOutgoing(s)
  PROVE  IndInv'
<1> DEFINE out == handshake[s].out
           n == IF ~HasPeer(s) THEN 0 ELSE IF Len(out) < Space(s) THEN Len(out) ELSE Space(s)
           first == SubSeq(out, 1, n)
           next == [handshake[s] EXCEPT !.out = SubSeq(out, n + 1, Len(out))]
<1>1. /\ TypeOK /\ SocketInv(s) /\ PumpKeeps /\ UNCHANGED <<chain, accepted>>
      /\ pc[s] \in {"Flush", "LastFlush"}
      /\ handshake \in [Sockets -> Handshakes] /\ chain \in [Sockets -> Seq(Sockets)]
  BY DEF FlushOutgoing, IndInv, TypeOK
<1>2. mp_State[s] = "Handshake" /\ (s = Client => mp_ConnectionGeneration[Client] # 0)
  BY <1>1, PumpsInHandshake
<1>3. CASE Goto(s, "Fail") /\ UNCHANGED <<incoming, handshake>>
  BY <1>1, <1>3, GotoStep
<1>4. CASE /\ out = <<>> \/ HasPeer(s)
           /\ Write(s, first)
           /\ handshake' = [handshake EXCEPT ![s].out = SubSeq(out, n + 1, Len(out))]
           /\ Goto(s, IF pc[s] = "Flush" THEN "Read" ELSE "End")
  <2>1. out \in Seq(Offered(s)) /\ out \in Seq(Units) /\ Len(out) \in Nat
    BY <1>1 DEF SocketInv, Buffers, Handshakes
  <2>2. n \in Nat /\ n <= Len(out)
    <3>1. Space(s) \in Nat
      BY <1>1, SpaceIsNat
    <3> QED  BY <2>1, <3>1
  <2> HIDE DEF n
  <2>3. first \in Seq(Offered(s)) /\ first \in Seq(Units) /\ Len(first) = n
    <3>1. first \in Seq(Offered(s)) /\ first \in Seq(Units)
      BY <2>1, <2>2, SeqPart
    <3>2. Len(first) = n
      BY <2>1, <2>2, SubSeqProperties
    <3> QED  BY <3>1, <3>2
  <2>4. SubSeq(out, n + 1, Len(out)) \in Seq(Offered(s)) /\ SubSeq(out, n + 1, Len(out)) \in Seq(Units)
    BY <2>1, <2>2, SeqPart
  <2>5. first # <<>> => HasPeer(s) /\ n <= Space(s)
    <3>1. CASE ~HasPeer(s)
      <4>1. n = 0
        BY <3>1 DEF n
      <4> QED  BY <2>3, <4>1
    <3>2. CASE HasPeer(s)
      <4>1. Space(s) \in Nat
        BY <1>1, SpaceIsNat
      <4> QED  BY <2>1, <3>2, <4>1 DEF n
    <3> QED  BY <3>1, <3>2
  <2> HIDE DEF first
  <2>6. /\ incoming' \in [Sockets -> Held]
        /\ \A t \in Sockets \ {Peer(s)} : incoming'[t] = incoming[t]
        /\ incoming'[Peer(s)] = incoming[Peer(s)] \o first
    BY <1>1, <1>4, <2>3, <2>5, WriteKeeps
  <2>7. UNCHANGED <<scenario, mp_ConnectionGeneration, mp_State, submitted>>
    BY <1>1 DEF PumpKeeps, dataVars
  <2>8. \A t \in Sockets : incoming'[t] \in Seq(Arriving(t)')
    BY <1>1, <1>2, <2>3, <2>5, <2>6, <2>7, WrittenArrives DEF HasPeer
  <2>9. /\ next \in Handshakes /\ next.out = SubSeq(out, n + 1, Len(out))
        /\ next.stage = handshake[s].stage /\ next.peerHello = handshake[s].peerHello
    BY <1>1, <2>4 DEF Handshakes
  <2>10. /\ handshake' \in [Sockets -> Handshakes] /\ handshake'[s] = next
         /\ \A t \in Sockets \ {s} : handshake'[t] = handshake[t]
    BY <1>1, <1>4, <2>9
  <2>11. Continues(s)
    BY <1>1, <2>7 DEF Continues
  <2>12. /\ pc' \in [Sockets -> Places] /\ pc'[s] \in {"Read", "End"}
         /\ \A t \in Sockets \ {s} : pc'[t] = pc[t]
    BY <1>1, <1>4, GotoKeeps DEF Places
  <2>13. handshake'[s].out \in Seq(Offered(s)') /\ submitted'[s] \in Seq(DataUnits)
    <3>1. handshake'[s].out \in Seq(Offered(s))
      BY <2>4, <2>9, <2>10
    <3>2. handshake'[s].out \in Seq(Offered(s)')
      BY <2>11, <3>1, StillArriving, SeqMono
    <3> QED  BY <1>1, <2>7, <3>2 DEF SocketInv, Buffers
  <2>14. SocketInv(s)'
    <3>1. Buffers(s)'
      BY <2>8, <2>13 DEF Buffers, DataUnits, Units, Kinds
    <3>2. Calling(s)'
      BY <1>2, <2>7, <2>12 DEF Calling
    <3>3. Established(s)'
      BY <1>1, <2>7, <2>9, <2>10, <2>11, StillArriving DEF SocketInv, Established
    <3> QED  BY <3>1, <3>2, <3>3 DEF SocketInv
  <2> QED  BY <1>1, <1>2, <2>6, <2>8, <2>10, <2>12, <2>14, PumpKept
<1> QED  BY <1>3, <1>4 DEF FlushOutgoing

\* A step that changes what one socket is about to do, or its transport, and
\* neither writes nor reads.
States == {"None", "Connect", "Handshake", "Done", "Disconnected", "ShutdownSocket"}
Nets == {"None", "Connecting", "Backlog", "Open", "Shut", "Closed"}
Owners == {"None", "Connecting", "Connected", "Accepted", "Actor", "Gone"}

Untouched ==
  UNCHANGED <<scenario, chain, mp_ConnectionGeneration, incoming, sent, received, submitted,
              accepted>>

LEMMA StateStep ==
  ASSUME IndInv, NEW s \in Sockets, Untouched,
         net' \in [Sockets -> Nets], owner' \in [Sockets -> Owners],
         mp_State' \in [Sockets -> States], handshake' \in [Sockets -> Handshakes],
         pc' \in [Sockets -> Places],
         \A t \in Sockets \ {s} :
           mp_State'[t] = mp_State[t] /\ handshake'[t] = handshake[t] /\ pc'[t] = pc[t],
         handshake'[s].out \in Seq(Offered(s)), Calling(s)', Established(s)', Unused'
  PROVE  IndInv'
<1>1. TypeOK'
  BY DEF IndInv, TypeOK, Untouched, States, Nets, Owners, Places
<1>2. Continues(s) /\ UNCHANGED <<incoming, submitted>>
  BY DEF Untouched, Continues
<1>3. Buffers(s)'
  <2>1. Arriving(s) \subseteq Arriving(s)' /\ Offered(s) \subseteq Offered(s)'
    BY <1>2, StillArriving
  <2>2. incoming[s] \in Seq(Arriving(s)) /\ submitted[s] \in Seq(DataUnits)
    BY DEF IndInv, SocketInv, Buffers
  <2>3. incoming'[s] \in Seq(Arriving(s)') /\ submitted'[s] \in Seq(DataUnits)
    BY <1>2, <2>1, <2>2, SeqMono
  <2>4. handshake'[s].out \in Seq(Offered(s)')
    BY <2>1, SeqMono
  <2> QED  BY <2>3, <2>4 DEF Buffers, DataUnits, Units, Kinds
<1>4. \A t \in Sockets \ {s} : incoming'[t] \in Seq(Arriving(t)')
  BY <1>2, ArrivedStays DEF Untouched
<1>5. Moves(s)
  BY <1>4 DEF Moves, Untouched, Rests
<1> QED  BY <1>1, <1>3, <1>5, MovesKeeps DEF SocketInv

\* A step of the transport or of an owner that leaves every handshake alone.
LEMMA RestStep ==
  ASSUME IndInv, Untouched, UNCHANGED <<mp_State, handshake, pc>>,
         net' \in [Sockets -> Nets], owner' \in [Sockets -> Owners],
         mp_ConnectionGeneration[Client] = 0 => owner'[Client] = owner[Client]
  PROVE  IndInv'
<1>1. Client \in Sockets
  BY SocketsAre
<1>2. TypeOK /\ SocketInv(Client) /\ Continues(Client)
  BY <1>1 DEF IndInv, Untouched, Continues
<1>3. Calling(Client)'
  BY <1>2 DEF SocketInv, Calling
<1>4. Established(Client)'
  <2>1. UNCHANGED chain
    BY DEF Untouched
  <2> QED  BY <1>1, <1>2, <2>1, StillArriving DEF SocketInv, Established
<1>5. handshake'[Client].out \in Seq(Offered(Client))
  BY <1>2 DEF SocketInv, Buffers
<1>6. Unused'
  BY DEF IndInv, Unused, Untouched
<1>7. /\ mp_State' \in [Sockets -> States] /\ handshake' \in [Sockets -> Handshakes]
      /\ pc' \in [Sockets -> Places]
  BY <1>2 DEF TypeOK, States, Places
<1> QED  BY <1>1, <1>3, <1>4, <1>5, <1>6, <1>7, StateStep

LEMMA NoHandshakeType ==
  /\ NoHandshake \in Handshakes /\ NoHandshake.out = <<>> /\ NoHandshake.stage = "WaitHello"
  /\ \A A : NoHandshake.out \in Seq(A)
<1>1. NoHello \in Hellos
  BY SocketsAre DEF NoHello, Hellos
<1>2. <<>> \in Seq(Units)
  OBVIOUS
<1> QED  BY <1>1, <1>2 DEF NoHandshake, Handshakes

LEMMA HandshakeDoneStep ==
  ASSUME IndInv, NEW s \in Sockets, HandshakeDone(s)
  PROVE  IndInv'
<1>1. /\ pc[s] = "End" /\ handshake[s].stage = "Done"
      /\ mp_State' = [mp_State EXCEPT ![s] = "Done"]
      /\ handshake' = [handshake EXCEPT ![s] = NoHandshake]
      /\ Goto(s, "Idle") \/ Goto(s, "Transfer")
      /\ Untouched /\ UNCHANGED <<net, owner>>
  BY DEF HandshakeDone, Running, Complete, Untouched, dataVars
<1>2. TypeOK /\ SocketInv(s)
  BY DEF IndInv
<1>3. mp_State[s] = "Handshake" /\ (s = Client => mp_ConnectionGeneration[Client] # 0)
  BY <1>1, PumpsInHandshake
<1>4. /\ pc' \in [Sockets -> Places] /\ pc'[s] \in {"Idle", "Transfer"}
      /\ \A t \in Sockets \ {s} : pc'[t] = pc[t]
  BY <1>1, <1>2, GotoKeeps DEF Places
<1>5. /\ mp_State' \in [Sockets -> States] /\ mp_State'[s] = "Done"
      /\ \A t \in Sockets \ {s} : mp_State'[t] = mp_State[t]
  BY <1>1, <1>2 DEF TypeOK, States
<1>6. /\ handshake' \in [Sockets -> Handshakes] /\ handshake'[s] = NoHandshake
      /\ \A t \in Sockets \ {s} : handshake'[t] = handshake[t]
  BY <1>1, <1>2, NoHandshakeType DEF TypeOK
<1>7. net' \in [Sockets -> Nets] /\ owner' \in [Sockets -> Owners]
  BY <1>1, <1>2 DEF TypeOK, Nets, Owners
<1>8. handshake'[s].out \in Seq(Offered(s))
  BY <1>6, NoHandshakeType
<1>9. Calling(s)'
  BY <1>4, <1>5 DEF Calling
<1>10. chain[s] = PeerChain(s) /\ HasAccepted(s) /\ IsAccepted(s)
  BY <1>1, <1>2, <1>3 DEF SocketInv, Established
<1>11. Established(s)'
  <2>1. Continues(s) /\ chain'[s] = chain[s]
    BY <1>1 DEF Continues, Untouched
  <2> QED  BY <1>5, <1>10, <2>1, StillArriving DEF Established
<1>12. Unused'
  BY <1>1, <1>3, <1>4, <1>5, SocketsAre DEF IndInv, Unused, Untouched
<1> QED  BY <1>1, <1>4, <1>5, <1>6, <1>7, <1>8, <1>9, <1>11, <1>12, StateStep

\* A call that only moves on, or ends.
LEMMA PlaceStep ==
  ASSUME IndInv, NEW s \in Sockets, Untouched, UNCHANGED <<mp_State, handshake, net, owner>>,
         NEW at \in Places, Goto(s, at), at = "Transfer" => mp_State[s] = "Done",
         at \notin {"Idle", "Transfer"} => mp_State[s] = "Handshake",
         s = Client => at = "Idle" \/ mp_ConnectionGeneration[Client] # 0
  PROVE  IndInv'
<1>1. TypeOK /\ SocketInv(s)
  BY DEF IndInv
<1>2. /\ pc' \in [Sockets -> Places] /\ pc'[s] = at
      /\ \A t \in Sockets \ {s} : pc'[t] = pc[t]
  BY <1>1, GotoKeeps
<1>3. /\ mp_State' \in [Sockets -> States] /\ handshake' \in [Sockets -> Handshakes]
      /\ net' \in [Sockets -> Nets] /\ owner' \in [Sockets -> Owners]
  BY <1>1 DEF TypeOK, States, Nets, Owners
<1>4. handshake'[s].out \in Seq(Offered(s))
  BY <1>1 DEF SocketInv, Buffers
<1>5. Calling(s)'
  BY <1>2 DEF Calling, Places
<1>6. Established(s)'
  <2>1. Continues(s) /\ UNCHANGED chain
    BY DEF Continues, Untouched
  <2> QED  BY <1>1, <2>1, StillArriving DEF SocketInv, Established
<1>7. Unused'
  BY <1>2, SocketsAre DEF IndInv, Unused, Untouched
<1> QED  BY <1>2, <1>3, <1>4, <1>5, <1>6, <1>7, StateStep

LEMMA PumpEndsStep ==
  ASSUME IndInv, NEW s \in Sockets, PumpEnds(s)
  PROVE  IndInv'
<1>1. /\ Goto(s, "Idle") /\ Untouched /\ UNCHANGED <<mp_State, handshake, net, owner>>
  BY DEF PumpEnds, Untouched, ownVars, loopVars, dataVars
<1> QED  BY <1>1, PlaceStep DEF Places

LEMMA PumpThrowsStep ==
  ASSUME IndInv, NEW s \in Sockets, PumpThrows(s)
  PROVE  IndInv'
<1>1. /\ Goto(s, "Fail") /\ Untouched /\ UNCHANGED <<mp_State, handshake, net, owner>>
      /\ pc[s] \in {"Flush", "Read", "LastFlush"}
  BY DEF PumpThrows, Untouched, ownVars, loopVars, dataVars
<1>2. mp_State[s] = "Handshake" /\ (s = Client => mp_ConnectionGeneration[Client] # 0)
  BY <1>1, PumpsInHandshake
<1> QED  BY <1>1, <1>2, PlaceStep DEF Places

LEMMA LeavesKeeps ==
  ASSUME TypeOK, NEW s \in Sockets, NEW how \in Nets, Leaves(s, how)
  PROVE  net' \in [Sockets -> Nets]
BY DEF TypeOK, Leaves, Nets

\* A socket that leaves the connection, or never had one.
LEMMA LeaveStep ==
  ASSUME IndInv, NEW s \in Sockets, Untouched, net' \in [Sockets -> Nets], UNCHANGED owner,
         NEW state \in {"Disconnected", "ShutdownSocket"},
         mp_State' = [mp_State EXCEPT ![s] = state],
         handshake' = [handshake EXCEPT ![s] = NoHandshake] \/ UNCHANGED handshake,
         pc' \in [Sockets -> Places], pc'[s] = "Idle",
         \A t \in Sockets \ {s} : pc'[t] = pc[t],
         s = Client => mp_ConnectionGeneration[Client] # 0
  PROVE  IndInv'
<1>1. TypeOK /\ SocketInv(s)
  BY DEF IndInv
<1>2. /\ mp_State' \in [Sockets -> States] /\ mp_State'[s] = state
      /\ \A t \in Sockets \ {s} : mp_State'[t] = mp_State[t]
  BY <1>1 DEF TypeOK, States
<1>3. /\ handshake' \in [Sockets -> Handshakes]
      /\ handshake'[s].out \in Seq(Offered(s))
      /\ \A t \in Sockets \ {s} : handshake'[t] = handshake[t]
  <2>1. handshake \in [Sockets -> Handshakes] /\ handshake[s].out \in Seq(Offered(s))
    BY <1>1 DEF TypeOK, SocketInv, Buffers
  <2> QED  BY <2>1, NoHandshakeType
<1>4. Calling(s)'
  BY <1>2 DEF Calling
<1>5. Established(s)'
  BY <1>2 DEF Established
<1>6. Unused'
  BY <1>2, SocketsAre DEF IndInv, Unused, Untouched
<1>7. owner' \in [Sockets -> Owners]
  BY <1>1 DEF TypeOK, Owners
<1> QED  BY <1>2, <1>3, <1>4, <1>5, <1>6, <1>7, StateStep

LEMMA FailHandshakeStep ==
  ASSUME IndInv, NEW s \in Sockets, FailHandshake(s)
  PROVE  IndInv'
<1>1. /\ pc[s] = "Fail" /\ mp_State' = [mp_State EXCEPT ![s] = "Disconnected"]
      /\ handshake' = [handshake EXCEPT ![s] = NoHandshake]
      /\ Leaves(s, "Shut") /\ Goto(s, "Idle") /\ Untouched /\ UNCHANGED owner
  BY DEF FailHandshake, Untouched, dataVars, Goto
<1>2. TypeOK
  BY DEF IndInv
<1>3. /\ pc' \in [Sockets -> Places] /\ pc'[s] = "Idle"
      /\ \A t \in Sockets \ {s} : pc'[t] = pc[t]
  BY <1>1, <1>2, GotoKeeps DEF Places
<1>4. net' \in [Sockets -> Nets]
  BY <1>1, <1>2, LeavesKeeps DEF Nets
<1>5. s = Client => mp_ConnectionGeneration[Client] # 0
  BY <1>1, PumpsInHandshake
<1> QED  BY <1>1, <1>3, <1>4, <1>5, LeaveStep

-----------------------------------------------------------------------------
(* The calls of the owner.                                                 *)

\* The client has an owner once it has connected.
LEMMA OwnedIsUsed ==
  ASSUME IndInv, NEW s \in Sockets, owner[s] # "None"
  PROVE  s = Client => mp_ConnectionGeneration[Client] # 0
BY DEF IndInv, Unused

\* A handshake that starts offers its hello and has nothing else.
LEMMA StartKeeps ==
  ASSUME TypeOK, NEW s \in Sockets, NEW connected, StartHandshake(s, connected),
         Attempt(s)' \in Sockets
  PROVE  /\ mp_State' \in [Sockets -> States] /\ mp_State'[s] = "Handshake"
         /\ handshake' \in [Sockets -> Handshakes] /\ handshake'[s].stage = "WaitHello"
         /\ handshake'[s].out \in Seq(Offered(s)')
         /\ pc' \in [Sockets -> Places] /\ pc'[s] \in {"Flush", "Fail"}
         /\ \A t \in Sockets \ {s} :
              mp_State'[t] = mp_State[t] /\ handshake'[t] = handshake[t] /\ pc'[t] = pc[t]
<1> DEFINE hello == Unit("Hello", Hello(s)', NoTranscript)
           next == [NoHandshake EXCEPT !.out = Frame(hello)]
<1>1. /\ mp_State' = [mp_State EXCEPT ![s] = "Handshake"]
      /\ \/ handshake' = [handshake EXCEPT ![s] = next] /\ pc' = [pc EXCEPT ![s] = "Flush"]
         \/ handshake' = [handshake EXCEPT ![s] = NoHandshake] /\ pc' = [pc EXCEPT ![s] = "Fail"]
  BY DEF StartHandshake
<1>2. /\ mp_State \in [Sockets -> States] /\ handshake \in [Sockets -> Handshakes]
      /\ pc \in [Sockets -> Places]
  BY DEF TypeOK, States, Places
<1>3. hello \in Units /\ hello.kind = "Hello" /\ hello.hello = Hello(s)'
  <2>1. Hello(s)' \in Hellos
    BY DEF Hello, Hellos
  <2>2. NoTranscript \in Transcripts
    BY DEF NoTranscript, Transcripts
  <2> QED  BY <2>1, <2>2 DEF Unit, Units, Kinds
<1> DEFINE O == Offered(s)'
<1>4. hello \in O /\ Plain("Length") \in O /\ Plain("Length") \in Units
  <2>1. Plain("Length") \in Units /\ Plain("Length").kind = "Length"
    BY PlainType DEF Kinds
  <2> QED  BY <1>3, <2>1 DEF Offered
<1> HIDE DEF hello, O
<1>5. Frame(hello) \in Seq(O) /\ Frame(hello) \in Seq(Units)
  BY <1>3, <1>4, PairIsSeq DEF Frame
<1>6. next \in Handshakes /\ next.out = Frame(hello) /\ next.stage = "WaitHello"
  BY <1>5, NoHandshakeType DEF Handshakes
<1> HIDE DEF next
<1>7. CASE handshake' = [handshake EXCEPT ![s] = next] /\ pc' = [pc EXCEPT ![s] = "Flush"]
  <2>1. handshake' \in [Sockets -> Handshakes] /\ handshake'[s] = next
    BY <1>2, <1>6, <1>7
  <2> QED  BY <1>1, <1>2, <1>5, <1>6, <1>7, <2>1 DEF O, States, Places
<1>8. CASE handshake' = [handshake EXCEPT ![s] = NoHandshake] /\ pc' = [pc EXCEPT ![s] = "Fail"]
  <2>1. handshake' \in [Sockets -> Handshakes] /\ handshake'[s] = NoHandshake
    BY <1>2, <1>8, NoHandshakeType
  <2>2. handshake'[s].out \in Seq(O)
    BY <2>1, NoHandshakeType
  <2> QED  BY <1>1, <1>2, <1>8, <2>1, <2>2, NoHandshakeType DEF O, States, Places
<1> QED  BY <1>1, <1>7, <1>8

LEMMA CallKeeps ==
  ASSUME IndInv, NEW s \in Sockets, NEW flag, CallFor(s, flag)
  PROVE  /\ pc[s] = "Idle" /\ UNCHANGED <<net, owner>>
         /\ UNCHANGED <<scenario, incoming, sent, received, submitted, accepted>>
         /\ s = Client => mp_ConnectionGeneration[Client] # 0
<1>1. /\ pc[s] = "Idle" /\ UNCHANGED <<net, owner>> /\ owner[s] = "Actor"
      /\ UNCHANGED <<scenario, incoming, sent, received, submitted, accepted>>
  BY DEF CallFor, Running, dataVars
<1> QED  BY <1>1, OwnedIsUsed

LEMMA CallIdleStep ==
  ASSUME IndInv, NEW s \in Sockets, NEW flag, CallIdle(s, flag)
  PROVE  IndInv'
<1>1. /\ CallFor(s, flag) /\ UNCHANGED <<mp_State, chain, pc, mp_ConnectionGeneration>>
      /\ \/ UNCHANGED handshake
         \/ /\ mp_State[s] \in {"ShutdownSocket", "Disconnected"}
            /\ handshake' = [handshake EXCEPT ![s] = NoHandshake]
  BY DEF CallIdle, loopVars
<1>2. /\ pc[s] = "Idle" /\ UNCHANGED <<net, owner>> /\ Untouched
      /\ s = Client => mp_ConnectionGeneration[Client] # 0
  BY <1>1, CallKeeps DEF Untouched
<1>3. TypeOK
  BY DEF IndInv
<1>4. /\ net' \in [Sockets -> Nets] /\ owner' \in [Sockets -> Owners]
      /\ pc' \in [Sockets -> Places]
  BY <1>1, <1>2, <1>3 DEF TypeOK, Nets, Owners, Places
<1>5. CASE UNCHANGED handshake
  BY <1>1, <1>2, <1>4, <1>5, RestStep
<1>6. CASE /\ mp_State[s] \in {"ShutdownSocket", "Disconnected"}
           /\ handshake' = [handshake EXCEPT ![s] = NoHandshake]
  <2>1. mp_State' = [mp_State EXCEPT ![s] = mp_State[s]]
    BY <1>1, <1>3 DEF TypeOK
  <2>2. pc'[s] = "Idle" /\ \A t \in Sockets \ {s} : pc'[t] = pc[t]
    BY <1>1, <1>2
  <2> QED  BY <1>2, <1>4, <1>6, <2>1, <2>2, LeaveStep
<1> QED  BY <1>1, <1>5, <1>6

LEMMA CallStartsHandshakeStep ==
  ASSUME IndInv, NEW s \in Sockets, NEW flag, CallStartsHandshake(s, flag)
  PROVE  IndInv'
<1>1. /\ CallFor(s, flag) /\ UNCHANGED <<chain, mp_ConnectionGeneration>>
      /\ mp_State[s] = "Connect"
      /\ StartHandshake(s, net[s] \in {"Open", "Shut"})
  BY DEF CallStartsHandshake, Calls, loopVars
<1>2. /\ UNCHANGED <<net, owner>> /\ Untouched
      /\ s = Client => mp_ConnectionGeneration[Client] # 0
  BY <1>1, CallKeeps DEF Untouched
<1>3. TypeOK /\ SocketInv(s)
  BY DEF IndInv
<1>4. Attempt(s)' = Attempt(s) /\ Attempt(s) \in Sockets
  BY <1>2, <1>3, PeerHelloType DEF Untouched, Attempt
<1>5. /\ mp_State' \in [Sockets -> States] /\ mp_State'[s] = "Handshake"
      /\ handshake' \in [Sockets -> Handshakes] /\ handshake'[s].stage = "WaitHello"
      /\ handshake'[s].out \in Seq(Offered(s)')
      /\ pc' \in [Sockets -> Places] /\ pc'[s] \in {"Flush", "Fail"}
      /\ \A t \in Sockets \ {s} :
           mp_State'[t] = mp_State[t] /\ handshake'[t] = handshake[t] /\ pc'[t] = pc[t]
  BY <1>1, <1>3, <1>4, StartKeeps
<1>6. /\ net' \in [Sockets -> Nets] /\ owner' \in [Sockets -> Owners]
  BY <1>2, <1>3 DEF TypeOK, Nets, Owners
<1>7. handshake'[s].out \in Seq(Offered(s))
  <2>1. Offered(s)' = Offered(s)
    BY <1>2, <1>4 DEF Offered, Hello, HasAccepted, HellosOf, Untouched
  <2> QED  BY <1>5, <2>1
<1>8. Calling(s)'
  BY <1>5 DEF Calling
<1>9. chain'[s] = <<>>
  BY <1>1, <1>3 DEF SocketInv, Established
<1>10. Established(s)'
  BY <1>5, <1>9 DEF Established
<1>11. Unused'
  BY <1>2, <1>5, SocketsAre DEF IndInv, Unused, Untouched
<1> QED  BY <1>2, <1>5, <1>6, <1>7, <1>8, <1>10, <1>11, StateStep

LEMMA CallPumpsStep ==
  ASSUME IndInv, NEW s \in Sockets, NEW flag, CallPumps(s, flag)
  PROVE  IndInv'
<1>1. /\ CallFor(s, flag) /\ UNCHANGED <<chain, mp_ConnectionGeneration, mp_State, handshake>>
      /\ mp_State[s] = "Handshake" /\ Goto(s, "Flush")
  BY DEF CallPumps, Calls, loopVars
<1>2. /\ UNCHANGED <<net, owner>> /\ Untouched
      /\ s = Client => mp_ConnectionGeneration[Client] # 0
  BY <1>1, CallKeeps DEF Untouched
<1> QED  BY <1>1, <1>2, PlaceStep DEF Places

LEMMA CallTransfersStep ==
  ASSUME IndInv, NEW s \in Sockets, NEW flag, CallTransfers(s, flag)
  PROVE  IndInv'
<1>1. /\ CallFor(s, flag) /\ UNCHANGED <<chain, mp_ConnectionGeneration, mp_State, handshake>>
      /\ mp_State[s] = "Done" /\ Goto(s, "Transfer")
  BY DEF CallTransfers, Calls, loopVars
<1>2. /\ UNCHANGED <<net, owner>> /\ Untouched
      /\ s = Client => mp_ConnectionGeneration[Client] # 0
  BY <1>1, CallKeeps DEF Untouched
<1> QED  BY <1>1, <1>2, PlaceStep DEF Places

\* A step that reads or writes payload; its call, if it is one, ends.
Transferring ==
  UNCHANGED <<scenario, mp_State, handshake, chain, mp_ConnectionGeneration, net, owner, accepted>>

LEMMA TransferStep ==
  ASSUME IndInv, NEW s \in Sockets, Transferring,
         incoming' \in [Sockets -> Held], \A t \in Sockets : incoming'[t] \in Seq(Arriving(t)'),
         sent' \in [Sockets -> 0 .. Payload], received' \in [Sockets -> Seq(Units)],
         submitted' \in [Sockets -> Seq(Units)], submitted'[s] \in Seq(DataUnits),
         \A t \in Sockets \ {s} : submitted'[t] = submitted[t],
         pc' \in [Sockets -> Places], pc'[s] \in {pc[s], "Idle"},
         \A t \in Sockets \ {s} : pc'[t] = pc[t],
         s = Client => mp_ConnectionGeneration[Client] # 0
  PROVE  IndInv'
<1>1. TypeOK'
  BY DEF IndInv, TypeOK, Transferring, Places
<1>2. Unused'
  BY SocketsAre DEF IndInv, Unused, Transferring
<1>3. Moves(s)
  BY DEF Moves, Transferring, Rests
<1>4. SocketInv(s) /\ Continues(s)
  BY DEF IndInv, Transferring, Continues
<1>5. SocketInv(s)'
  <2>1. handshake'[s].out \in Seq(Offered(s)')
    BY <1>4, StillArriving, SeqMono DEF SocketInv, Buffers, Transferring
  <2>2. Buffers(s)'
    BY <2>1 DEF Buffers, DataUnits, Units, Kinds
  <2>3. Calling(s)'
    BY <1>4 DEF SocketInv, Calling, Transferring
  <2>4. Established(s)'
    BY <1>4, StillArriving DEF SocketInv, Established, Transferring
  <2> QED  BY <2>2, <2>3, <2>4 DEF SocketInv
<1> QED  BY <1>1, <1>2, <1>3, <1>5, MovesKeeps

\* All that had arrived is read.
LEMMA ReadStep ==
  ASSUME IndInv, NEW s \in Sockets, Transferring, Take(s, Len(incoming[s])),
         received' = [received EXCEPT ![s] = received[s] \o incoming[s]],
         UNCHANGED <<sent, submitted>>, Goto(s, "Idle") \/ UNCHANGED pc,
         s = Client => mp_ConnectionGeneration[Client] # 0
  PROVE  IndInv'
<1>1. TypeOK /\ SocketInv(s)
  BY DEF IndInv
<1>2. incoming[s] \in Seq(Units) /\ Len(incoming[s]) \in Nat
  BY <1>1 DEF TypeOK, Held
<1>3. /\ incoming' \in [Sockets -> Held]
      /\ \A t \in Sockets \ {s} : incoming'[t] = incoming[t]
      /\ \A A : incoming[s] \in Seq(A) => incoming'[s] \in Seq(A)
  BY <1>1, <1>2, TakeKeeps
<1>4. UNCHANGED <<scenario, mp_ConnectionGeneration, accepted>>
  BY DEF Transferring
<1>5. \A t \in Sockets \ {s} : incoming'[t] \in Seq(Arriving(t)')
  BY <1>3, <1>4, ArrivedStays
<1>6. incoming'[s] \in Seq(Arriving(s)')
  <2>1. Continues(s)
    BY <1>4 DEF Continues
  <2>2. incoming'[s] \in Seq(Arriving(s))
    BY <1>1, <1>3 DEF SocketInv, Buffers
  <2> QED  BY <2>1, <2>2, StillArriving, SeqMono
<1>7. received' \in [Sockets -> Seq(Units)]
  <2>1. received \in [Sockets -> Seq(Units)]
    BY <1>1 DEF TypeOK
  <2>2. received[s] \o incoming[s] \in Seq(Units)
    BY <1>2, <2>1, SeqJoin
  <2> QED  BY <2>1, <2>2
<1>8. /\ sent' \in [Sockets -> 0 .. Payload] /\ submitted' \in [Sockets -> Seq(Units)]
      /\ submitted'[s] \in Seq(DataUnits)
  BY <1>1 DEF TypeOK, SocketInv, Buffers
<1>9. /\ pc' \in [Sockets -> Places] /\ pc'[s] \in {pc[s], "Idle"}
      /\ \A t \in Sockets \ {s} : pc'[t] = pc[t]
  BY <1>1, GotoKeeps DEF Places, TypeOK
<1> QED  BY <1>3, <1>5, <1>6, <1>7, <1>8, <1>9, TransferStep

LEMMA ReceivePayloadStep ==
  ASSUME IndInv, NEW s \in Sockets, ReceivePayload(s)
  PROVE  IndInv'
<1>1. /\ Transferring /\ Take(s, Len(incoming[s])) /\ Goto(s, "Idle")
      /\ received' = [received EXCEPT ![s] = received[s] \o incoming[s]]
      /\ UNCHANGED <<sent, submitted>> /\ pc[s] = "Transfer"
  BY DEF ReceivePayload, TransferKeeps, Transferring, ownVars, Running
<1>2. s = Client => mp_ConnectionGeneration[Client] # 0
  BY <1>1 DEF IndInv, Unused
<1> QED  BY <1>1, <1>2, ReadStep

LEMMA ReceiveSegmentStep ==
  ASSUME IndInv, NEW s \in Sockets, ReceiveSegment(s)
  PROVE  IndInv'
<1>1. /\ Transferring /\ Take(s, Len(incoming[s])) /\ UNCHANGED pc
      /\ received' = [received EXCEPT ![s] = received[s] \o incoming[s]]
      /\ UNCHANGED <<sent, submitted>> /\ owner[s] = "Actor"
  BY DEF ReceiveSegment, StreamKeeps, Transferring, ownVars
<1> QED  BY <1>1, OwnedIsUsed, ReadStep

LEMMA DataOffered ==
  ASSUME NEW s \in Sockets
  PROVE  DataUnits \subseteq Offered(s) /\ DataUnits \subseteq Units
BY DEF DataUnits, Offered

\* Payload that its present peer has room for is written.
LEMMA WriteStep ==
  ASSUME IndInv, NEW s \in Sockets, Transferring, NEW units \in Seq(DataUnits), Write(s, units),
         Len(units) <= Space(s), Linked(s),
         sent' \in [Sockets -> 0 .. Payload], UNCHANGED received,
         submitted' \in [Sockets -> Seq(Units)], submitted'[s] \in Seq(DataUnits),
         \A t \in Sockets \ {s} : submitted'[t] = submitted[t],
         Goto(s, "Idle") \/ UNCHANGED pc,
         s = Client => mp_ConnectionGeneration[Client] # 0
  PROVE  IndInv'
<1>1. TypeOK
  BY DEF IndInv
<1>2. units \in Seq(Offered(s)) /\ units \in Seq(Units)
  BY DataOffered, SeqMono
<1>3. /\ incoming' \in [Sockets -> Held]
      /\ \A t \in Sockets \ {Peer(s)} : incoming'[t] = incoming[t]
      /\ incoming'[Peer(s)] = incoming[Peer(s)] \o units
  BY <1>1, <1>2, WriteKeeps
<1>4. \A t \in Sockets : incoming'[t] \in Seq(Arriving(t)')
  BY <1>2, <1>3, WrittenArrives DEF Transferring
<1>5. received' \in [Sockets -> Seq(Units)]
  BY <1>1 DEF TypeOK
<1>6. /\ pc' \in [Sockets -> Places] /\ pc'[s] \in {pc[s], "Idle"}
      /\ \A t \in Sockets \ {s} : pc'[t] = pc[t]
  BY <1>1, GotoKeeps DEF Places, TypeOK
<1> QED  BY <1>3, <1>4, <1>5, <1>6, TransferStep

\* A call or a submission that writes nothing.
LEMMA NoWriteStep ==
  ASSUME IndInv, NEW s \in Sockets, Transferring, UNCHANGED <<incoming, received>>,
         sent' \in [Sockets -> 0 .. Payload],
         submitted' \in [Sockets -> Seq(Units)], submitted'[s] \in Seq(DataUnits),
         \A t \in Sockets \ {s} : submitted'[t] = submitted[t],
         Goto(s, "Idle") \/ UNCHANGED pc,
         s = Client => mp_ConnectionGeneration[Client] # 0
  PROVE  IndInv'
<1>1. TypeOK
  BY DEF IndInv
<1>2. incoming' \in [Sockets -> Held] /\ received' \in [Sockets -> Seq(Units)]
  BY <1>1 DEF TypeOK
<1>3. \A t \in Sockets : incoming'[t] \in Seq(Arriving(t)')
  BY ArrivedStays DEF Transferring
<1>4. /\ pc' \in [Sockets -> Places] /\ pc'[s] \in {pc[s], "Idle"}
      /\ \A t \in Sockets \ {s} : pc'[t] = pc[t]
  BY <1>1, GotoKeeps DEF Places, TypeOK
<1> QED  BY <1>2, <1>3, <1>4, TransferStep

LEMMA SubmittedIs ==
  ASSUME IndInv, NEW s \in Sockets
  PROVE  submitted \in [Sockets -> Seq(Units)] /\ submitted[s] \in Seq(DataUnits)
BY DEF IndInv, TypeOK, SocketInv, Buffers

LEMMA SendPayloadStep ==
  ASSUME IndInv, NEW s \in Sockets, SendPayload(s)
  PROVE  IndInv'
<1> DEFINE queued == Payload - sent[s]
           n == IF ~HasPeer(s) THEN 0 ELSE IF queued < Space(s) THEN queued ELSE Space(s)
<1>1. /\ Transferring /\ Goto(s, "Idle") /\ pc[s] = "Transfer" /\ UNCHANGED <<received, submitted>>
      /\ IF HasPeer(s) THEN Write(s, Data(s, n)) ELSE UNCHANGED incoming
      /\ sent' = [sent EXCEPT ![s] = sent[s] + n]
  BY DEF SendPayload, TransferKeeps, Transferring, ownVars, Running
<1>2. s = Client => mp_ConnectionGeneration[Client] # 0
  BY <1>1 DEF IndInv, Unused
<1>3. TypeOK /\ sent \in [Sockets -> 0 .. Payload] /\ Payload \in Nat /\ Space(s) \in Nat
  BY BoundsAre, SpaceIsNat DEF IndInv, TypeOK
<1>4. n \in Nat /\ n <= queued /\ (HasPeer(s) => n <= Space(s))
  BY <1>3
<1> HIDE DEF n
<1>5. sent' \in [Sockets -> 0 .. Payload]
  <2>1. sent[s] + n \in 0 .. Payload
    BY <1>3, <1>4
  <2> QED  BY <1>1, <1>3, <2>1
<1>6. /\ submitted' \in [Sockets -> Seq(Units)] /\ submitted'[s] \in Seq(DataUnits)
      /\ \A t \in Sockets \ {s} : submitted'[t] = submitted[t]
  BY <1>1, SubmittedIs
<1>7. CASE HasPeer(s)
  <2>1. Data(s, n) \in Seq(DataUnits) /\ Len(Data(s, n)) = n
    BY <1>3, <1>4, DataType
  <2>2. Linked(s)
    BY <1>7 DEF HasPeer
  <2> QED  BY <1>1, <1>2, <1>4, <1>5, <1>6, <1>7, <2>1, <2>2, WriteStep
<1>8. CASE ~HasPeer(s)
  BY <1>1, <1>2, <1>5, <1>6, <1>8, NoWriteStep
<1> QED  BY <1>7, <1>8

LEMMA SubmitSendStep ==
  ASSUME IndInv, NEW s \in Sockets, SubmitSend(s)
  PROVE  IndInv'
<1> DEFINE data == Data(s, Payload - sent[s])
<1>1. /\ Transferring /\ UNCHANGED <<incoming, received, pc>> /\ owner[s] = "Actor"
      /\ sent[s] < Payload
      /\ submitted' = [submitted EXCEPT ![s] = submitted[s] \o data]
      /\ sent' = [sent EXCEPT ![s] = Payload]
  BY DEF SubmitSend, Transferring, ownVars, loopVars
<1>2. TypeOK /\ sent \in [Sockets -> 0 .. Payload] /\ Payload \in Nat
  BY BoundsAre DEF IndInv, TypeOK
<1>3. sent' \in [Sockets -> 0 .. Payload]
  <2>1. Payload \in 0 .. Payload
    BY <1>2
  <2> QED  BY <1>1, <1>2, <2>1
<1>4. data \in Seq(DataUnits)
  <2>1. Payload - sent[s] \in Nat
    BY <1>1, <1>2
  <2> QED  BY <1>2, <2>1, DataType
<1> HIDE DEF data
<1>5. submitted[s] \o data \in Seq(DataUnits)
  BY <1>4, SubmittedIs, SeqJoin
<1>6. submitted[s] \o data \in Seq(Units)
  BY <1>5, DataOffered, SeqMono
<1>7. /\ submitted' \in [Sockets -> Seq(Units)] /\ submitted'[s] \in Seq(DataUnits)
      /\ \A t \in Sockets \ {s} : submitted'[t] = submitted[t]
  BY <1>1, <1>5, <1>6, SubmittedIs
<1> QED  BY <1>1, <1>3, <1>7, OwnedIsUsed, NoWriteStep

LEMMA KernelWritesStep ==
  ASSUME IndInv, NEW s \in Sockets, KernelWrites(s)
  PROVE  IndInv'
<1> DEFINE q == submitted[s]
           n == IF Len(q) < Space(s) THEN Len(q) ELSE Space(s)
           first == SubSeq(q, 1, n)
           rest == SubSeq(q, n + 1, Len(q))
<1>1. /\ Transferring /\ UNCHANGED <<received, pc, sent>> /\ Linked(s) /\ q # <<>>
      /\ Write(s, first)
      /\ submitted' = [submitted EXCEPT ![s] = rest]
  BY DEF KernelWrites, StreamKeeps, Transferring, ownVars, HasPeer
<1>2. TypeOK /\ Space(s) \in Nat /\ sent' \in [Sockets -> 0 .. Payload]
  BY <1>1, SpaceIsNat DEF IndInv, TypeOK
<1>3. q \in Seq(DataUnits) /\ Len(q) \in Nat
  BY SubmittedIs
<1>4. n \in Nat /\ n <= Len(q) /\ n <= Space(s)
  BY <1>2, <1>3
<1> HIDE DEF n
<1>5. first \in Seq(DataUnits) /\ Len(first) = n
  <2>1. first \in Seq(DataUnits)
    BY <1>3, <1>4, SeqPart
  <2>2. Len(first) = n
    BY <1>3, <1>4, SubSeqProperties
  <2> QED  BY <2>1, <2>2
<1>6. rest \in Seq(DataUnits)
  BY <1>3, <1>4, SeqPart
<1>7. rest \in Seq(Units)
  BY <1>6, DataOffered, SeqMono
<1> HIDE DEF first, rest
<1>8. /\ submitted' \in [Sockets -> Seq(Units)] /\ submitted'[s] \in Seq(DataUnits)
      /\ \A t \in Sockets \ {s} : submitted'[t] = submitted[t]
  BY <1>1, <1>6, <1>7, SubmittedIs
<1>9. s = Client => mp_ConnectionGeneration[Client] # 0
  BY <1>1 DEF IndInv, Unused
<1> QED  BY <1>1, <1>2, <1>4, <1>5, <1>8, <1>9, WriteStep

LEMMA ShutdownStep ==
  ASSUME IndInv, NEW s \in Sockets, Shutdown(s)
  PROVE  IndInv'
<1>1. /\ owner[s] = "Actor" /\ pc[s] = "Idle" /\ Leaves(s, "Shut")
      /\ Untouched /\ UNCHANGED <<handshake, pc, owner>>
      /\ UNCHANGED mp_State \/ mp_State' = [mp_State EXCEPT ![s] = "ShutdownSocket"]
  BY DEF Shutdown, Untouched, loopVars, dataVars, Running
<1>2. TypeOK
  BY DEF IndInv
<1>3. /\ net' \in [Sockets -> Nets] /\ owner' \in [Sockets -> Owners]
      /\ pc' \in [Sockets -> Places] /\ pc'[s] = "Idle" /\ \A t \in Sockets \ {s} : pc'[t] = pc[t]
  BY <1>1, <1>2, LeavesKeeps DEF TypeOK, Nets, Owners, Places
<1>4. CASE UNCHANGED mp_State
  BY <1>1, <1>3, <1>4, RestStep
<1>5. CASE mp_State' = [mp_State EXCEPT ![s] = "ShutdownSocket"]
  BY <1>1, <1>3, <1>5, OwnedIsUsed, LeaveStep
<1> QED  BY <1>1, <1>4, <1>5

LEMMA CloseStep ==
  ASSUME IndInv, NEW s \in Sockets, Close(s)
  PROVE  IndInv'
<1>1. /\ owner[s] # "None" /\ Leaves(s, "Closed") /\ owner' = [owner EXCEPT ![s] = "Gone"]
      /\ Untouched /\ UNCHANGED <<mp_State, handshake, pc>>
  BY DEF Close, Untouched, ownVars, loopVars, dataVars
<1>2. TypeOK
  BY DEF IndInv
<1>3. net' \in [Sockets -> Nets] /\ owner' \in [Sockets -> Owners]
  BY <1>1, <1>2, LeavesKeeps DEF TypeOK, Nets, Owners
<1>4. mp_ConnectionGeneration[Client] = 0 => owner'[Client] = owner[Client]
  BY <1>1, <1>2, OwnedIsUsed, SocketsAre DEF TypeOK
<1> QED  BY <1>1, <1>3, <1>4, RestStep

LEMMA HandOverStep ==
  ASSUME IndInv, NEW s \in Sockets, HandOver(s)
  PROVE  IndInv'
<1>1. /\ owner[s] # "None" /\ owner' = [owner EXCEPT ![s] = "Actor"]
      /\ Untouched /\ UNCHANGED <<mp_State, handshake, pc, net>>
  BY DEF HandOver, Untouched, ownVars, dataVars
<1>2. TypeOK
  BY DEF IndInv
<1>3. net' \in [Sockets -> Nets] /\ owner' \in [Sockets -> Owners]
  BY <1>1, <1>2 DEF TypeOK, Nets, Owners
<1>4. mp_ConnectionGeneration[Client] = 0 => owner'[Client] = owner[Client]
  BY <1>1, <1>2, OwnedIsUsed, SocketsAre DEF TypeOK
<1> QED  BY <1>1, <1>3, <1>4, RestStep

LEMMA ActivateStep ==
  ASSUME IndInv, NEW s \in Sockets, Activate(s)
  PROVE  IndInv'
<1>1. Untouched /\ UNCHANGED <<mp_State, handshake, pc, net, owner>>
  BY DEF Activate, Untouched, ownVars, loopVars
<1>2. net' \in [Sockets -> Nets] /\ owner' \in [Sockets -> Owners]
  BY <1>1 DEF IndInv, TypeOK, Nets, Owners
<1> QED  BY <1>1, <1>2, RestStep

-----------------------------------------------------------------------------
(* The loop and the platform, and the connections of the users.            *)

LEMMA DeliverStep ==
  ASSUME IndInv, NEW s \in Sockets, Deliver(s)
  PROVE  IndInv'
<1>1. /\ \/ UNCHANGED owner
         \/ owner[s] = "Connecting" /\ owner' = [owner EXCEPT ![s] = "Connected"]
      /\ Untouched /\ UNCHANGED <<mp_State, handshake, pc, net>>
  <2>1. Untouched /\ UNCHANGED <<mp_State, handshake, pc, net>>
    BY DEF Deliver, Untouched, ownVars, dataVars
  <2>2. PICK e \in edges[s] :
          \/ UNCHANGED owner
          \/ owner' = [owner EXCEPT ![s] =
               IF owner[s] = "Connecting" /\ e[2] = "Connected" THEN "Connected" ELSE owner[s]]
    BY DEF Deliver
  <2>3. owner \in [Sockets -> Owners]
    BY DEF IndInv, TypeOK, Owners
  <2>4. CASE owner[s] = "Connecting" /\ e[2] = "Connected"
    BY <2>1, <2>2, <2>4
  <2>5. CASE ~(owner[s] = "Connecting" /\ e[2] = "Connected")
    <3>1. [owner EXCEPT ![s] = owner[s]] = owner
      BY <2>3
    <3> QED  BY <2>1, <2>2, <2>5, <3>1
  <2> QED  BY <2>4, <2>5
<1>2. TypeOK
  BY DEF IndInv
<1>3. net' \in [Sockets -> Nets] /\ owner' \in [Sockets -> Owners]
  BY <1>1, <1>2 DEF TypeOK, Nets, Owners
<1>4. mp_ConnectionGeneration[Client] = 0 => owner'[Client] = owner[Client]
  <2>1. CASE UNCHANGED owner
    BY <2>1
  <2>2. CASE owner[s] = "Connecting" /\ owner' = [owner EXCEPT ![s] = "Connected"]
    <3>1. s = Client => mp_ConnectionGeneration[Client] # 0
      BY <2>2, OwnedIsUsed
    <3> QED  BY <1>2, <2>2, <3>1, SocketsAre DEF TypeOK
  <2> QED  BY <1>1, <2>1, <2>2
<1> QED  BY <1>1, <1>3, <1>4, RestStep

LEMMA ConnectingStep ==
  ASSUME IndInv, TransportConnects \/ TransportRefused
  PROVE  IndInv'
<1>1. Untouched /\ UNCHANGED <<mp_State, handshake, pc, owner>>
  BY DEF TransportConnects, TransportRefused, Connecting, Untouched, ownVars, loopVars, dataVars
<1>2. TypeOK
  BY DEF IndInv
<1>3. net' \in [Sockets -> Nets]
  <2>1. net \in [Sockets -> Nets]
    BY <1>2 DEF TypeOK, Nets
  <2>2. CASE TransportConnects
    BY <2>1, <2>2 DEF TransportConnects, Nets
  <2>3. CASE TransportRefused
    BY <2>1, <2>3 DEF TransportRefused, Nets
  <2> QED  BY <2>2, <2>3
<1>4. owner' \in [Sockets -> Owners]
  BY <1>1, <1>2 DEF TypeOK, Owners
<1> QED  BY <1>1, <1>3, <1>4, RestStep

\* A connection that is taken: its handshake starts with no certificates.
LEMMA TakeConnectionStep ==
  ASSUME IndInv, NEW s \in Attempts, TakeConnection(s),
         mp_ConnectionGeneration' \in [Sockets -> Nat],
         mp_ConnectionGeneration'[Client] = mp_ConnectionGeneration[Client]
  PROVE  IndInv'
<1>1. s \in Sockets /\ s # Client /\ Client \in Sockets
  BY SocketsAre
<1>2. /\ net' = [net EXCEPT ![s] = "Open"] /\ owner' = [owner EXCEPT ![s] = "Accepted"]
      /\ chain' = [chain EXCEPT ![s] = <<>>]
      /\ StartHandshake(s, TRUE)
      /\ UNCHANGED <<scenario, incoming, sent, received, submitted, accepted>>
  BY DEF TakeConnection, ResetConnectionState, dataVars
<1>3. TypeOK /\ SocketInv(s)
  BY <1>1 DEF IndInv
<1>4. Attempt(s)' \in Sockets
  BY <1>1 DEF Attempt
<1>5. /\ mp_State' \in [Sockets -> States] /\ mp_State'[s] = "Handshake"
      /\ handshake' \in [Sockets -> Handshakes] /\ handshake'[s].stage = "WaitHello"
      /\ handshake'[s].out \in Seq(Offered(s)')
      /\ pc' \in [Sockets -> Places] /\ pc'[s] \in {"Flush", "Fail"}
      /\ \A t \in Sockets \ {s} :
           mp_State'[t] = mp_State[t] /\ handshake'[t] = handshake[t] /\ pc'[t] = pc[t]
  BY <1>1, <1>2, <1>3, <1>4, StartKeeps
<1>6. /\ chain' \in [Sockets -> Seq(Sockets)] /\ chain'[s] = <<>>
      /\ \A t \in Sockets \ {s} : chain'[t] = chain[t]
  <2>1. <<>> \in Seq(Sockets)
    OBVIOUS
  <2> QED  BY <1>1, <1>2, <1>3, <2>1 DEF TypeOK
<1>7. net' \in [Sockets -> Nets] /\ owner' \in [Sockets -> Owners]
  BY <1>2, <1>3 DEF TypeOK, Nets, Owners
<1>8. TypeOK'
  BY <1>2, <1>3, <1>5, <1>6, <1>7 DEF TypeOK, States, Nets, Owners, Places
<1>9. Unused'
  <2>1. owner'[Client] = owner[Client]
    BY <1>1, <1>2, <1>3 DEF TypeOK
  <2> QED  BY <1>1, <1>2, <1>5, <2>1 DEF IndInv, Unused
<1>10. \A t \in Sockets : incoming'[t] \in Seq(Arriving(t)')
  <2> TAKE t \in Sockets
  <2>1. Continues(t)
    BY <1>2 DEF Continues
  <2>2. incoming[t] \in Seq(Arriving(t))
    BY DEF IndInv, SocketInv, Buffers
  <2> QED  BY <1>2, <2>1, <2>2, StillArriving, SeqMono
<1>11. Moves(s)
  BY <1>2, <1>5, <1>6, <1>10 DEF Moves, Rests
<1>12. SocketInv(s)'
  <2>1. submitted'[s] \in Seq(DataUnits)
    BY <1>2, <1>3 DEF SocketInv, Buffers
  <2>2. Buffers(s)'
    BY <1>1, <1>5, <1>10, <2>1 DEF Buffers, DataUnits, Units, Kinds
  <2>3. Calling(s)'
    BY <1>5 DEF Calling
  <2>4. Established(s)'
    BY <1>5, <1>6 DEF Established
  <2> QED  BY <2>2, <2>3, <2>4 DEF SocketInv
<1> QED  BY <1>1, <1>8, <1>9, <1>11, <1>12, MovesKeeps

LEMMA AcceptStep ==
  ASSUME IndInv, NEW s \in Attempts, Accept(s) \/ AdoptSocket(s)
  PROVE  IndInv'
<1>1. TakeConnection(s)
  BY DEF Accept, AdoptSocket
<1>2. s # Client /\ s \in Sockets /\ mp_ConnectionGeneration \in [Sockets -> Nat]
  BY SocketsAre DEF IndInv, TypeOK
<1>3. CASE UNCHANGED mp_ConnectionGeneration
  BY <1>1, <1>2, <1>3, TakeConnectionStep
<1>4. CASE NextGeneration(s)
  <2>1. /\ mp_ConnectionGeneration' \in [Sockets -> Nat]
        /\ mp_ConnectionGeneration'[Client] = mp_ConnectionGeneration[Client]
    BY <1>2, <1>4 DEF NextGeneration
  <2> QED  BY <1>1, <2>1, TakeConnectionStep
<1> QED  BY <1>3, <1>4 DEF Accept, AdoptSocket

\* A client that connects again: what its last attempt left is gone.
LEMMA ReuseStep ==
  ASSUME IndInv, Reuse,
         net' \in [Sockets -> Nets], owner' \in [Sockets -> Owners],
         mp_State' \in [Sockets -> States], handshake' \in [Sockets -> Handshakes],
         pc' \in [Sockets -> Places],
         \A t \in Sockets \ {Client} :
           mp_State'[t] = mp_State[t] /\ handshake'[t] = handshake[t] /\ pc'[t] = pc[t],
         handshake'[Client].out \in Seq(Offered(Client)'), Calling(Client)',
         mp_State'[Client] # "Done", handshake'[Client].stage = "WaitHello",
         Attempt(Client)' = mp_ConnectionGeneration[Client] + 1
  PROVE  IndInv'
<1>1. Client \in Sockets
  BY SocketsAre
<1>2. TypeOK
  BY DEF IndInv
<1>3. /\ mp_ConnectionGeneration' =
           [mp_ConnectionGeneration EXCEPT ![Client] = mp_ConnectionGeneration[Client] + 1]
      /\ mp_ConnectionGeneration[Client] < scenario.attempts
      /\ chain' = [chain EXCEPT ![Client] = <<>>]
      /\ incoming' = [incoming EXCEPT ![Client] = <<>>]
      /\ sent' = [sent EXCEPT ![Client] = 0]
      /\ received' = [received EXCEPT ![Client] = <<>>]
      /\ submitted' = [submitted EXCEPT ![Client] = <<>>]
      /\ UNCHANGED <<scenario, accepted>>
  BY DEF Reuse, NextGeneration, ResetConnectionState
<1>4. /\ mp_ConnectionGeneration' \in [Sockets -> Nat]
      /\ mp_ConnectionGeneration'[Client] \in Sockets
      /\ mp_ConnectionGeneration'[Client] # 0
  <2>1. mp_ConnectionGeneration[Client] \in Nat /\ mp_ConnectionGeneration \in [Sockets -> Nat]
    BY <1>1, <1>2 DEF TypeOK
  <2>2. scenario.attempts \in 1 .. MaxAttempts
    BY <1>2, BoundsAre DEF TypeOK, Attempts
  <2>3. mp_ConnectionGeneration[Client] + 1 \in 1 .. MaxAttempts
    BY <1>3, <2>1, <2>2, SocketsAre
  <2>4. mp_ConnectionGeneration[Client] + 1 \in Sockets
    BY <2>3 DEF Sockets, Attempts
  <2> QED  BY <1>1, <1>3, <2>1, <2>3, <2>4
<1>5. \A A : <<>> \in Seq(A)
  OBVIOUS
<1>6. <<>> \in Held
  <2>1. <<>> \in Seq(Units) /\ Len(<<>>) = 0
    OBVIOUS
  <2> QED  BY <2>1, BoundsAre DEF Held
<1>7. /\ incoming' \in [Sockets -> Held] /\ incoming'[Client] = <<>>
      /\ \A t \in Sockets \ {Client} : incoming'[t] = incoming[t]
  BY <1>1, <1>2, <1>3, <1>6 DEF TypeOK
<1>8. /\ chain' \in [Sockets -> Seq(Sockets)] /\ chain'[Client] = <<>>
      /\ \A t \in Sockets \ {Client} : chain'[t] = chain[t]
  BY <1>1, <1>2, <1>3, <1>5 DEF TypeOK
<1>9. /\ submitted' \in [Sockets -> Seq(Units)] /\ submitted'[Client] = <<>>
      /\ \A t \in Sockets \ {Client} : submitted'[t] = submitted[t]
  BY <1>1, <1>2, <1>3, <1>5 DEF TypeOK
<1>10. received' \in [Sockets -> Seq(Units)] /\ sent' \in [Sockets -> 0 .. Payload]
  <2>1. 0 \in 0 .. Payload
    BY BoundsAre
  <2> QED  BY <1>2, <1>3, <1>5, <2>1 DEF TypeOK
<1>11. TypeOK'
  BY <1>2, <1>3, <1>4, <1>7, <1>8, <1>9, <1>10 DEF TypeOK, States, Nets, Owners, Places
<1>12. Unused'
  BY <1>4 DEF Unused
<1>13. ASSUME NEW t \in Sockets, t # Client PROVE SocketInv(t)'
  <2>1. SocketInv(t) /\ Continues(t) /\ Rests(t) /\ incoming'[t] = incoming[t]
    BY <1>3, <1>7, <1>8, <1>9, <1>13 DEF IndInv, Continues, Rests
  <2> QED  BY <2>1, SocketKept
<1>14. SocketInv(Client)'
  <2>1. incoming'[Client] \in Seq(Arriving(Client)') /\ submitted'[Client] \in Seq(DataUnits)
    BY <1>5, <1>7, <1>9
  <2>2. Buffers(Client)'
    BY <2>1 DEF Buffers, DataUnits, Units, Kinds
  <2>3. Established(Client)'
    BY <1>8 DEF Established
  <2> QED  BY <2>2, <2>3 DEF SocketInv
<1> QED  BY <1>11, <1>12, <1>13, <1>14 DEF IndInv

LEMMA ReusedAttempt ==
  ASSUME TypeOK, Reuse
  PROVE  /\ Attempt(Client)' = mp_ConnectionGeneration[Client] + 1
         /\ Attempt(Client)' \in Sockets
         /\ Attempt(Client)' \in Attempts
         /\ pc[Client] = "Idle"
<1>1. Client \in Sockets
  BY SocketsAre
<1>2. /\ mp_ConnectionGeneration' =
           [mp_ConnectionGeneration EXCEPT ![Client] = mp_ConnectionGeneration[Client] + 1]
      /\ mp_ConnectionGeneration[Client] < scenario.attempts
      /\ pc[Client] = "Idle"
  BY DEF Reuse, NextGeneration, MayCall
<1>3. mp_ConnectionGeneration[Client] \in Nat /\ mp_ConnectionGeneration \in [Sockets -> Nat]
  BY <1>1 DEF TypeOK
<1>4. scenario.attempts \in 1 .. MaxAttempts
  BY BoundsAre DEF TypeOK, Attempts
<1>5. mp_ConnectionGeneration[Client] + 1 \in 1 .. MaxAttempts
  BY <1>2, <1>3, <1>4, SocketsAre
<1>6. mp_ConnectionGeneration[Client] + 1 \in Attempts
  BY <1>5 DEF Attempts
<1>7. Attempt(Client)' = mp_ConnectionGeneration[Client] + 1
  BY <1>1, <1>2, <1>3 DEF Attempt
<1> QED  BY <1>2, <1>6, <1>7, SocketsAre

\* A connect that only begins, or fails at once.
LEMMA ReuseWithoutHandshake ==
  ASSUME IndInv, Reuse, NEW state \in {"Connect", "None"},
         mp_State' = [mp_State EXCEPT ![Client] = state],
         handshake' = [handshake EXCEPT ![Client] = NoHandshake],
         NEW how \in Nets, net' = [net EXCEPT ![Client] = how],
         NEW who \in Owners, owner' = [owner EXCEPT ![Client] = who], UNCHANGED pc
  PROVE  IndInv'
<1>1. Client \in Sockets /\ TypeOK
  BY SocketsAre DEF IndInv
<1>2. Attempt(Client)' = mp_ConnectionGeneration[Client] + 1 /\ pc[Client] = "Idle"
  BY <1>1, ReusedAttempt
<1>3. net' \in [Sockets -> Nets] /\ owner' \in [Sockets -> Owners]
  BY <1>1 DEF TypeOK, Nets, Owners
<1>4. /\ mp_State' \in [Sockets -> States] /\ mp_State'[Client] = state
      /\ \A t \in Sockets \ {Client} : mp_State'[t] = mp_State[t]
  BY <1>1 DEF TypeOK, States
<1>5. /\ handshake' \in [Sockets -> Handshakes] /\ handshake'[Client] = NoHandshake
      /\ \A t \in Sockets \ {Client} : handshake'[t] = handshake[t]
  BY <1>1, NoHandshakeType DEF TypeOK
<1>6. pc' \in [Sockets -> Places] /\ pc'[Client] = "Idle"
  BY <1>1, <1>2 DEF TypeOK, Places
<1>7. Calling(Client)'
  BY <1>6 DEF Calling
<1>8. handshake'[Client].out \in Seq(Offered(Client)') /\ handshake'[Client].stage = "WaitHello"
  BY <1>5, NoHandshakeType
<1> QED  BY <1>2, <1>3, <1>4, <1>5, <1>6, <1>7, <1>8, ReuseStep

LEMMA ConnectStep ==
  ASSUME IndInv, Connect
  PROVE  IndInv'
<1>1. Client \in Sockets /\ TypeOK
  BY SocketsAre DEF IndInv
<1>2. /\ Reuse /\ StartHandshake(Client, TRUE)
      /\ net' = [net EXCEPT ![Client] = "Open", ![mp_ConnectionGeneration[Client] + 1] = "Backlog"]
      /\ owner' = [owner EXCEPT ![Client] = "Actor"]
  BY DEF Connect
<1>3. /\ Attempt(Client)' = mp_ConnectionGeneration[Client] + 1
      /\ Attempt(Client)' \in Sockets
  BY <1>1, <1>2, ReusedAttempt
<1>4. /\ mp_State' \in [Sockets -> States] /\ mp_State'[Client] = "Handshake"
      /\ handshake' \in [Sockets -> Handshakes] /\ handshake'[Client].stage = "WaitHello"
      /\ handshake'[Client].out \in Seq(Offered(Client)')
      /\ pc' \in [Sockets -> Places] /\ pc'[Client] \in {"Flush", "Fail"}
      /\ \A t \in Sockets \ {Client} :
           mp_State'[t] = mp_State[t] /\ handshake'[t] = handshake[t] /\ pc'[t] = pc[t]
  BY <1>1, <1>2, <1>3, StartKeeps
<1>5. net' \in [Sockets -> Nets] /\ owner' \in [Sockets -> Owners]
  <2>1. net \in [Sockets -> Nets] /\ owner \in [Sockets -> Owners]
    BY <1>1 DEF TypeOK, Nets, Owners
  <2> QED  BY <1>2, <2>1 DEF Nets, Owners
<1>6. Calling(Client)'
  BY <1>4 DEF Calling
<1> QED  BY <1>2, <1>3, <1>4, <1>5, <1>6, ReuseStep

LEMMA AsyncConnectStep ==
  ASSUME IndInv, AsyncConnect \/ ConnectThrows
  PROVE  IndInv'
<1>1. CASE AsyncConnect
  BY <1>1, ReuseWithoutHandshake DEF AsyncConnect, Nets, Owners
<1>2. CASE ConnectThrows
  BY <1>2, ReuseWithoutHandshake DEF ConnectThrows, Nets, Owners
<1> QED  BY <1>1, <1>2

-----------------------------------------------------------------------------
(* The theorem.                                                            *)

LEMMA InitHolds == Init => IndInv
<1> SUFFICES ASSUME Init PROVE IndInv
  OBVIOUS
<1>1. /\ scenario \in Scenarios
      /\ mp_State = [s \in Sockets |-> "None"] /\ handshake = [s \in Sockets |-> NoHandshake]
      /\ chain = [s \in Sockets |-> <<>>] /\ pc = [s \in Sockets |-> "Idle"]
      /\ mp_ConnectionGeneration = [s \in Sockets |-> 0]
      /\ net = [s \in Sockets |-> "None"] /\ incoming = [s \in Sockets |-> <<>>]
      /\ owner = [s \in Sockets |-> "None"] /\ sent = [s \in Sockets |-> 0]
      /\ received = [s \in Sockets |-> <<>>] /\ submitted = [s \in Sockets |-> <<>>]
  BY DEF Init
<1>2. \A A : <<>> \in Seq(A)
  OBVIOUS
<1>3. Client \in Sockets /\ 0 \in Sockets /\ Client = 0
  BY SocketsAre DEF Client
<1>4. <<>> \in Held
  <2>1. Len(<<>>) = 0
    OBVIOUS
  <2> QED  BY <1>2, <2>1, BoundsAre DEF Held
<1>5. 0 \in 0 .. Payload
  BY BoundsAre
<1>6. TypeOK
  BY <1>1, <1>2, <1>3, <1>4, <1>5, NoHandshakeType DEF TypeOK
<1>7. Unused
  BY <1>1, <1>3 DEF Unused
<1>8. ASSUME NEW s \in Sockets PROVE SocketInv(s)
  <2>1. Buffers(s)
    BY <1>1, <1>2, NoHandshakeType DEF Buffers, DataUnits, Units, Kinds
  <2>2. Calling(s) /\ Established(s)
    BY <1>1 DEF Calling, Established
  <2> QED  BY <2>1, <2>2 DEF SocketInv
<1> QED  BY <1>6, <1>7, <1>8 DEF IndInv

LEMMA UnchangedHolds ==
  ASSUME IndInv, UNCHANGED vars
  PROVE  IndInv'
<1>1. Untouched /\ UNCHANGED <<mp_State, handshake, pc, net, owner>>
  BY DEF vars, Untouched, ownVars, loopVars, dataVars
<1>2. net' \in [Sockets -> Nets] /\ owner' \in [Sockets -> Owners]
  BY <1>1 DEF IndInv, TypeOK, Nets, Owners
<1> QED  BY <1>1, <1>2, RestStep

LEMMA PumpHolds ==
  ASSUME IndInv, NEW s \in Sockets, PumpStep(s)
  PROVE  IndInv'
BY FlushOutgoingStep, ReadLengthStep, HandleHelloFrameStep, HandleSignatureFrameStep,
   HandleAcceptFrameStep, StopReadingStep, HandshakeDoneStep, PumpEndsStep, FailHandshakeStep
   DEF PumpStep

LEMMA OwnerHolds ==
  ASSUME IndInv, NEW s \in Sockets, OwnerStep(s)
  PROVE  IndInv'
BY CallIdleStep, CallStartsHandshakeStep, CallPumpsStep, CallTransfersStep, ReceivePayloadStep,
   SendPayloadStep, ActivateStep, SubmitSendStep, ReceiveSegmentStep, CloseStep, HandOverStep
   DEF OwnerStep

LEMMA NextHolds ==
  ASSUME IndInv, Next
  PROVE  IndInv'
<1>1. CASE UserStep
  BY <1>1, AsyncConnectStep, ConnectStep, ConnectingStep, ShutdownStep, PumpThrowsStep DEF UserStep
<1>2. CASE SystemStep
  BY <1>2, ConnectingStep, AcceptStep, PumpHolds, OwnerHolds, DeliverStep, KernelWritesStep
     DEF SystemStep
<1> QED  BY <1>1, <1>2 DEF Next

\* The hellos, acceptances and certificates of every socket are those of its
\* present attempt, in every reachable state.
THEOREM HandshakeInvariant == Spec => []IndInv
<1>1. IndInv /\ [Next]_vars => IndInv'
  BY NextHolds, UnchangedHolds
<1> QED  BY InitHolds, <1>1, PTL DEF Spec

\* No end reports success that its peer has not accepted it, over the hellos of
\* this very attempt, and the certificates it shows are those of this peer, for
\* every number of attempts, capacity of the kernel and set of scenarios.
THEOREM MutualAcceptanceSafe == Spec => []MutualAcceptance
<1>1. IndInv => MutualAcceptance
  <2> SUFFICES ASSUME IndInv, NEW s \in Sockets, mp_State[s] = "Done"
               PROVE  /\ {<<TRUE, HellosOf(Attempt(s))>>, <<FALSE, HellosOf(Attempt(s))>>}
                           \subseteq accepted
                      /\ chain[s] = PeerChain(s)
    BY DEF MutualAcceptance, PeerChain
  <2>1. chain[s] = PeerChain(s) /\ HasAccepted(s) /\ IsAccepted(s)
    BY DEF IndInv, SocketInv, Established
  <2>2. {<<TRUE, HellosOf(Attempt(s))>>, <<FALSE, HellosOf(Attempt(s))>>} \subseteq accepted
    <3>1. CASE s = Client
      <4>1. (s = Client) = TRUE /\ (s # Client) = FALSE
        BY <3>1
      <4> QED  BY <2>1, <4>1 DEF HasAccepted, IsAccepted
    <3>2. CASE s # Client
      <4>1. (s = Client) = FALSE /\ (s # Client) = TRUE
        BY <3>2
      <4> QED  BY <2>1, <4>1 DEF HasAccepted, IsAccepted
    <3> QED  BY <3>1, <3>2
  <2> QED  BY <2>1, <2>2
<1> QED  BY <1>1, HandshakeInvariant, PTL

-----------------------------------------------------------------------------
(* What one end writes to the other: its handshake, and its payload behind *)
(* it.  c is the size of the signature frame of the end that writes, g its *)
(* attempt, and i counts its units.                                        *)

Sizes == {1, 2}
HandshakeUnits(c) == 4 + c

KindAt(c, i) ==
  IF i = 1 THEN "Length"
  ELSE IF i = 2 THEN "Hello"
  ELSE IF i = 3 THEN (IF c = 2 THEN "Length" ELSE "Empty")
  ELSE IF c = 2 /\ i = 4 THEN "Signature"
  ELSE IF i = HandshakeUnits(c) - 1 THEN "Length"
  ELSE IF i = HandshakeUnits(c) THEN "Accept"
  ELSE "Data"

At(c, g, i, u) ==
  /\ u.kind = KindAt(c, i)
  /\ i > HandshakeUnits(c) =>
       u.hello.attempt = g /\ u.transcript = <<i - HandshakeUnits(c)>>

\* q holds the units that follow the first k.
RunOf(c, g, k, q) == \A i \in 1 .. Len(q) : At(c, g, k + i, q[i])

StageUnits(c, stage) ==
  IF stage = "WaitHello" THEN 0
  ELSE IF stage = "WaitSignature" THEN 2
  ELSE IF stage = "WaitAccept" THEN 2 + c
  ELSE HandshakeUnits(c)

\* the signature of an end without a certificate is an empty frame
SignatureSize(s) == IF Policy(s).certified THEN 2 ELSE 1
PeerSize(s) == SignatureSize(Peer(s))

\* What s has read of its peer, and what arrived at it.
ReadUnits(s) ==
  IF mp_State[s] = "Done" THEN HandshakeUnits(PeerSize(s)) + Len(received[s])
  ELSE StageUnits(PeerSize(s), handshake[s].stage)
         + (IF handshake[s].length = "None" THEN 0 ELSE 1)
Got(s) == ReadUnits(s) + Len(incoming[s])

\* What s has queued for its peer, and what of it is still to be written.
QueuedUnits(s) ==
  IF mp_State[s] \in {"None", "Connect"} THEN 0
  ELSE IF mp_State[s] = "Done" THEN HandshakeUnits(SignatureSize(s)) + sent[s]
  ELSE IF handshake[s].stage = "WaitHello" THEN 2
  ELSE IF handshake[s].stage = "WaitSignature" THEN 2 + SignatureSize(s)
  ELSE HandshakeUnits(SignatureSize(s))
Pending(s) == IF mp_State[s] = "Done" THEN submitted[s] ELSE handshake[s].out

\* s has not broken its connection off.
Alive(s) == mp_State[s] \in {"None", "Connect", "Handshake", "Done"} /\ pc[s] # "Fail"

-----------------------------------------------------------------------------
(* The invariant of the streams.                                           *)

\* The application has read data only, in the order of its peer.
ReadInOrder(s) ==
  \A i \in DOMAIN received[s] :
    /\ received[s][i].kind = "Data"
    /\ received[s][i].hello.attempt = Attempt(s)
    /\ received[s][i].transcript = <<i>>

\* Payload moves behind the handshake only, and by submissions or by calls.
Payloads(s) ==
  /\ mp_State[s] # "Done" => received[s] = <<>> /\ sent[s] = 0 /\ ~streaming[s]
  /\ ~streaming[s] => submitted[s] = <<>>
  /\ streaming[s] => scenario.completion
  /\ pc[s] = "Transfer" => ~streaming[s]

\* A handshake counts its frames as its peer sent them.
Frames(s) ==
  /\ mp_State[s] \in {"None", "Connect"} => handshake[s] = NoHandshake
  /\ handshake[s].stage = "Done" => handshake[s].length = "None"
  /\ mp_State[s] = "Handshake" /\ handshake[s].length # "None" /\ pc[s] # "Fail" =>
       handshake[s].length = KindAt(PeerSize(s), ReadUnits(s))

Arrivals(s) == Alive(s) => RunOf(PeerSize(s), Attempt(s), ReadUnits(s), incoming[s])

Streams(s) == ReadInOrder(s) /\ Payloads(s) /\ Frames(s) /\ Arrivals(s)

\* What w queued is with r, on its way, or still pending, in this order.
Flow(w, r) ==
  Alive(w) /\ Alive(r) =>
    /\ Got(r) + Len(Pending(w)) = QueuedUnits(w)
    /\ RunOf(SignatureSize(w), Attempt(w), Got(r), Pending(w))
Flows ==
  mp_ConnectionGeneration[Client] # 0 =>
    Flow(Client, Peer(Client)) /\ Flow(Peer(Client), Client)

\* A socket of the server that nothing has happened to.
Fresh(t) == net[t] = "None" /\ mp_State[t] = "None" /\ owner[t] = "None" /\ incoming[t] = <<>>
Unaccepted ==
  /\ \A t \in Attempts :
       /\ t > mp_ConnectionGeneration[Client] => Fresh(t)
       /\ net[t] = "Backlog" => mp_State[t] = "None" /\ owner[t] = "None"
  /\ net[Client] # "Backlog"
  /\ net[Client] = "Connecting" => mp_ConnectionGeneration[Client] # 0 /\ Fresh(Peer(Client))

StreamInv ==
  /\ streaming \in [Sockets -> BOOLEAN]
  /\ Unaccepted /\ Flows
  /\ \A s \in Sockets : Streams(s)

-----------------------------------------------------------------------------
(* Runs of units.                                                          *)

LEMMA UnitsOf ==
  ASSUME NEW c \in Sizes
  PROVE  /\ c \in Nat /\ HandshakeUnits(c) \in Nat
         /\ c = 2 => HandshakeUnits(c) = 6
         /\ c = 1 => HandshakeUnits(c) = 5
         /\ c = 1 \/ c = 2
BY DEF Sizes, HandshakeUnits

LEMMA KindsAre ==
  ASSUME NEW c \in Sizes
  PROVE  /\ KindAt(c, 1) = "Length" /\ KindAt(c, 2) = "Hello"
         /\ c = 2 => /\ KindAt(c, 3) = "Length" /\ KindAt(c, 4) = "Signature"
                 /\ KindAt(c, 5) = "Length" /\ KindAt(c, 6) = "Accept"
         /\ c = 1 => /\ KindAt(c, 3) = "Empty"
                  /\ KindAt(c, 4) = "Length" /\ KindAt(c, 5) = "Accept"
         /\ \A i \in Nat : i > HandshakeUnits(c) => KindAt(c, i) = "Data"
<1>1. CASE c = 2
  BY <1>1 DEF KindAt, HandshakeUnits, Sizes
<1>2. CASE c = 1
  BY <1>2 DEF KindAt, HandshakeUnits, Sizes
<1> QED  BY <1>1, <1>2 DEF Sizes

LEMMA RunNone ==
  ASSUME NEW c, NEW g, NEW k
  PROVE  RunOf(c, g, k, <<>>)
BY DEF RunOf

\* The first n units of q, and the others.
FirstOf(q, n) == SubSeq(q, 1, n)
RestOf(q, n) == SubSeq(q, n + 1, Len(q))

LEMMA RestIs ==
  ASSUME NEW q \in Seq(Units), NEW n \in Nat, n <= Len(q)
  PROVE  Len(RestOf(q, n)) = Len(q) - n /\ \A i \in 1 .. Len(q) - n : RestOf(q, n)[i] = q[n + i]
<1>1. Len(q) \in Nat
  OBVIOUS
<1>2. CASE n = Len(q)
  <2>1. RestOf(q, n) = <<>>
    BY <1>1, <1>2 DEF RestOf
  <2>2. Len(RestOf(q, n)) = 0
    BY <2>1
  <2> QED  BY <1>1, <1>2, <2>2
<1>3. CASE n < Len(q)
  BY <1>1, <1>3, SubSeqProperties DEF RestOf
<1> QED  BY <1>1, <1>2, <1>3

LEMMA FirstIs ==
  ASSUME NEW q \in Seq(Units), NEW n \in Nat, n <= Len(q)
  PROVE  Len(FirstOf(q, n)) = n /\ \A i \in 1 .. n : FirstOf(q, n)[i] = q[i]
BY SubSeqProperties DEF FirstOf

LEMMA RunPart ==
  ASSUME NEW c, NEW g, NEW k \in Nat, NEW q \in Seq(Units), NEW n \in Nat, n <= Len(q),
         RunOf(c, g, k, q)
  PROVE  RunOf(c, g, k, FirstOf(q, n)) /\ RunOf(c, g, k + n, RestOf(q, n))
<1>1. Len(q) \in Nat
  OBVIOUS
<1>2. RunOf(c, g, k, FirstOf(q, n))
  <2> SUFFICES ASSUME NEW i \in 1 .. n PROVE At(c, g, k + i, FirstOf(q, n)[i])
    BY FirstIs DEF RunOf
  <2>1. At(c, g, k + i, q[i])
    BY <1>1 DEF RunOf
  <2> QED  BY <2>1, FirstIs
<1>3. RunOf(c, g, k + n, RestOf(q, n))
  <2> SUFFICES ASSUME NEW i \in 1 .. Len(q) - n PROVE At(c, g, (k + n) + i, RestOf(q, n)[i])
    BY RestIs DEF RunOf
  <2>1. n + i \in 1 .. Len(q) /\ k + (n + i) = (k + n) + i
    BY <1>1
  <2>2. At(c, g, k + (n + i), q[n + i])
    BY <2>1 DEF RunOf
  <2>3. RestOf(q, n)[i] = q[n + i]
    BY RestIs
  <2> QED  BY <2>1, <2>2, <2>3
<1> QED  BY <1>2, <1>3

LEMMA RunJoin ==
  ASSUME NEW c, NEW g, NEW k \in Nat, NEW A, NEW q \in Seq(A), NEW r \in Seq(A),
         RunOf(c, g, k, q), RunOf(c, g, k + Len(q), r)
  PROVE  RunOf(c, g, k, q \o r) /\ Len(q \o r) = Len(q) + Len(r)
<1> DEFINE both == q \o r
<1>1. /\ Len(q) \in Nat /\ Len(r) \in Nat /\ Len(both) = Len(q) + Len(r)
      /\ \A i \in 1 .. Len(q) : both[i] = q[i]
      /\ \A i \in Len(q) + 1 .. Len(q) + Len(r) : both[i] = r[i - Len(q)]
  BY ConcatProperties
<1> HIDE DEF both
<1>2. RunOf(c, g, k, both)
  <2> SUFFICES ASSUME NEW i \in 1 .. Len(q) + Len(r) PROVE At(c, g, k + i, both[i])
    BY <1>1 DEF RunOf
  <2>1. CASE i <= Len(q)
    <3>1. i \in 1 .. Len(q)
      BY <1>1, <2>1
    <3>2. At(c, g, k + i, q[i])
      BY <3>1 DEF RunOf
    <3> QED  BY <1>1, <3>1, <3>2
  <2>2. CASE i > Len(q)
    <3>1. /\ i - Len(q) \in 1 .. Len(r) /\ i \in Len(q) + 1 .. Len(q) + Len(r)
          /\ (k + Len(q)) + (i - Len(q)) = k + i
      BY <1>1, <2>2
    <3>2. At(c, g, (k + Len(q)) + (i - Len(q)), r[i - Len(q)])
      BY <3>1 DEF RunOf
    <3>3. both[i] = r[i - Len(q)]
      BY <1>1, <3>1
    <3> QED  BY <3>1, <3>2, <3>3
  <2> QED  BY <1>1, <2>1, <2>2
<1> QED  BY <1>1, <1>2 DEF both

\* The frames of the handshake, where they stand.
LEMMA PairRun ==
  ASSUME NEW c \in Sizes, NEW g, NEW k \in Nat, NEW u, NEW v,
         u.kind = KindAt(c, k + 1), v.kind = KindAt(c, k + 2), k + 2 <= HandshakeUnits(c)
  PROVE  RunOf(c, g, k, <<u, v>>) /\ Len(<<u, v>>) = 2
<1>1. HandshakeUnits(c) \in Nat
  BY UnitsOf
<1>2. At(c, g, k + 1, u) /\ At(c, g, k + 2, v)
  BY <1>1 DEF At
<1> QED  BY <1>2 DEF RunOf

LEMMA FrameRuns ==
  ASSUME NEW c \in Sizes, NEW g, NEW h, NEW t
  PROVE  /\ RunOf(c, g, 0, Frame(Unit("Hello", h, t))) /\ Len(Frame(Unit("Hello", h, t))) = 2
         /\ c = 2 => /\ RunOf(c, g, 2, Frame(Unit("Signature", h, t)))
                 /\ Len(Frame(Unit("Signature", h, t))) = 2
         /\ c = 1 => RunOf(c, g, 2, EmptyFrame) /\ Len(EmptyFrame) = 1
         /\ RunOf(c, g, 2 + c, Frame(Plain("Accept")))
         /\ Len(Frame(Plain("Accept"))) = 2
<1>1. /\ Plain("Length").kind = "Length" /\ Plain("Empty").kind = "Empty"
      /\ Plain("Accept").kind = "Accept"
      /\ Unit("Hello", h, t).kind = "Hello" /\ Unit("Signature", h, t).kind = "Signature"
  BY DEF Plain, Unit
<1>2. RunOf(c, g, 0, Frame(Unit("Hello", h, t))) /\ Len(Frame(Unit("Hello", h, t))) = 2
  <2>1. 0 + 1 = 1 /\ 0 + 2 = 2 /\ 0 + 2 <= HandshakeUnits(c)
    BY UnitsOf
  <2> QED  BY <1>1, <2>1, PairRun, KindsAre DEF Frame
<1>3. ASSUME c = 2
      PROVE  /\ RunOf(c, g, 2, Frame(Unit("Signature", h, t)))
             /\ Len(Frame(Unit("Signature", h, t))) = 2
  <2>1. 2 + 1 = 3 /\ 2 + 2 = 4 /\ 2 + 2 <= HandshakeUnits(c)
    BY <1>3, UnitsOf
  <2> QED  BY <1>1, <1>3, <2>1, PairRun, KindsAre DEF Frame
<1>4. ASSUME c = 1 PROVE RunOf(c, g, 2, EmptyFrame) /\ Len(EmptyFrame) = 1
  <2>1. At(c, g, 3, Plain("Empty"))
    BY <1>1, <1>4, KindsAre, UnitsOf DEF At
  <2> QED  BY <2>1 DEF RunOf, EmptyFrame
<1>5. RunOf(c, g, 2 + c, Frame(Plain("Accept"))) /\ Len(Frame(Plain("Accept"))) = 2
  <2>1. CASE c = 2
    <3>1. 2 + c = 4 /\ 4 + 1 = 5 /\ 4 + 2 = 6 /\ 4 + 2 <= HandshakeUnits(c)
      BY <2>1, UnitsOf
    <3> QED  BY <1>1, <2>1, <3>1, PairRun, KindsAre DEF Frame
  <2>2. CASE c = 1
    <3>1. 2 + c = 3 /\ 3 + 1 = 4 /\ 3 + 2 = 5 /\ 3 + 2 <= HandshakeUnits(c)
      BY <2>2, UnitsOf
    <3> QED  BY <1>1, <2>2, <3>1, PairRun, KindsAre DEF Frame
  <2> QED  BY <2>1, <2>2 DEF Sizes
<1> QED  BY <1>2, <1>3, <1>4, <1>5

\* The data of s follows its handshake and what it has sent before.
LEMMA DataRun ==
  ASSUME TypeOK, NEW s \in Sockets, NEW n \in Nat, NEW c \in Sizes
  PROVE  RunOf(c, Attempt(s), HandshakeUnits(c) + sent[s], Data(s, n))
<1>1. sent[s] \in Nat /\ HandshakeUnits(c) \in Nat
  BY UnitsOf, BoundsAre DEF TypeOK
<1>2. Len(Data(s, n)) = n
  BY DataType
<1> SUFFICES ASSUME NEW i \in 1 .. n
             PROVE  At(c, Attempt(s), (HandshakeUnits(c) + sent[s]) + i, Data(s, n)[i])
  BY <1>2 DEF RunOf
<1>3. Data(s, n)[i] = Unit("Data", Hello(s), <<sent[s] + i>>)
  BY DEF Data
<1>4. Unit("Data", Hello(s), <<sent[s] + i>>).kind = "Data"
  BY DEF Unit
<1>5. Unit("Data", Hello(s), <<sent[s] + i>>).hello.attempt = Attempt(s)
  BY DEF Unit, Hello
<1>6. Unit("Data", Hello(s), <<sent[s] + i>>).transcript = <<sent[s] + i>>
  BY DEF Unit
<1>7. /\ (HandshakeUnits(c) + sent[s]) + i \in Nat
      /\ (HandshakeUnits(c) + sent[s]) + i > HandshakeUnits(c)
      /\ ((HandshakeUnits(c) + sent[s]) + i) - HandshakeUnits(c) = sent[s] + i
  BY <1>1
<1>8. KindAt(c, (HandshakeUnits(c) + sent[s]) + i) = "Data"
  BY <1>7, KindsAre
<1> QED  BY <1>3, <1>4, <1>5, <1>6, <1>7, <1>8 DEF At

LEMMA SizesAre ==
  ASSUME TypeOK, NEW s \in Sockets
  PROVE  /\ SignatureSize(s) \in Sizes /\ PeerSize(s) \in Sizes
         /\ ReadUnits(s) \in Nat /\ Got(s) \in Nat /\ QueuedUnits(s) \in Nat
         /\ Pending(s) \in Seq(Units) /\ Len(Pending(s)) \in Nat
         /\ incoming[s] \in Seq(Units) /\ Len(incoming[s]) \in Nat
<1>1. SignatureSize(s) \in Sizes /\ PeerSize(s) \in Sizes
  BY DEF SignatureSize, PeerSize, Sizes
<1>2. /\ received[s] \in Seq(Units) /\ incoming[s] \in Seq(Units) /\ sent[s] \in Nat
      /\ submitted[s] \in Seq(Units) /\ handshake[s].out \in Seq(Units)
  BY BoundsAre DEF TypeOK, Held, Handshakes
<1>3. Len(received[s]) \in Nat /\ Len(incoming[s]) \in Nat
  BY <1>2
<1>4. /\ HandshakeUnits(PeerSize(s)) \in Nat /\ PeerSize(s) \in Nat
      /\ HandshakeUnits(SignatureSize(s)) \in Nat /\ SignatureSize(s) \in Nat
  BY <1>1, UnitsOf
<1>5. ReadUnits(s) \in Nat
  <2>1. StageUnits(PeerSize(s), handshake[s].stage) \in Nat
    BY <1>4 DEF StageUnits
  <2> QED  BY <1>3, <1>4, <2>1 DEF ReadUnits
<1>6. Got(s) \in Nat
  BY <1>3, <1>5 DEF Got
<1>7. QueuedUnits(s) \in Nat
  BY <1>2, <1>4 DEF QueuedUnits
<1>8. Pending(s) \in Seq(Units)
  BY <1>2 DEF Pending
<1> QED  BY <1>1, <1>2, <1>3, <1>5, <1>6, <1>7, <1>8

-----------------------------------------------------------------------------
(* Steps that leave the streams alone.                                     *)

Stays(t) ==
  /\ mp_State'[t] = mp_State[t] /\ handshake'[t] = handshake[t] /\ pc'[t] = pc[t]
  /\ sent'[t] = sent[t] /\ received'[t] = received[t]
  /\ streaming'[t] = streaming[t] /\ submitted'[t] = submitted[t]

SameAttempt ==
  UNCHANGED scenario /\ mp_ConnectionGeneration'[Client] = mp_ConnectionGeneration[Client]

LEMMA SameEnds ==
  ASSUME SameAttempt, NEW t \in Sockets
  PROVE  /\ Peer(t)' = Peer(t) /\ Attempt(t)' = Attempt(t) /\ Linked(t)' = Linked(t)
         /\ SignatureSize(t)' = SignatureSize(t) /\ PeerSize(t)' = PeerSize(t)
<1>1. Peer(t)' = Peer(t) /\ Attempt(t)' = Attempt(t)
  BY DEF SameAttempt, Peer, Attempt
<1>2. Linked(t)' = Linked(t)
  BY DEF SameAttempt, Linked
<1>3. SignatureSize(t)' = SignatureSize(t)
  BY DEF SameAttempt, SignatureSize, Policy
<1>4. PeerSize(t)' = PeerSize(t)
  BY <1>1 DEF SameAttempt, PeerSize, SignatureSize, Policy
<1> QED  BY <1>1, <1>2, <1>3, <1>4

LEMMA StaysSame ==
  ASSUME SameAttempt, NEW t \in Sockets, Stays(t)
  PROVE  /\ Alive(t)' => Alive(t)
         /\ ReadUnits(t)' = ReadUnits(t) /\ QueuedUnits(t)' = QueuedUnits(t)
         /\ Pending(t)' = Pending(t)
<1>1. Alive(t)' => Alive(t)
  BY DEF Alive, Stays
<1>2. ReadUnits(t)' = ReadUnits(t)
  BY SameEnds DEF ReadUnits, Stays
<1>3. QueuedUnits(t)' = QueuedUnits(t)
  BY SameEnds DEF QueuedUnits, Stays
<1>4. Pending(t)' = Pending(t)
  BY DEF Pending, Stays
<1> QED  BY <1>1, <1>2, <1>3, <1>4

LEMMA StreamsStay ==
  ASSUME SameAttempt, NEW t \in Sockets, Stays(t), Streams(t),
         Alive(t) => RunOf(PeerSize(t), Attempt(t), ReadUnits(t), incoming'[t])
  PROVE  Streams(t)'
<1>1. ReadInOrder(t)'
  BY SameEnds DEF Streams, ReadInOrder, Stays
<1>2. Payloads(t)'
  BY DEF Streams, Payloads, Stays, SameAttempt
<1>3. Frames(t)'
  BY SameEnds, StaysSame DEF Streams, Frames, Stays
<1>4. Arrivals(t)'
  BY SameEnds, StaysSame DEF Arrivals
<1> QED  BY <1>1, <1>2, <1>3, <1>4 DEF Streams

\* The two ends of the present attempt.
LEMMA PairIs ==
  ASSUME TypeOK, NEW s \in Sockets, s = Client => mp_ConnectionGeneration[Client] # 0
  PROVE  /\ Peer(s) \in Sockets /\ Peer(s) # s
         /\ Linked(s) => /\ Peer(Peer(s)) = s /\ Attempt(Peer(s)) = Attempt(s)
                         /\ PeerSize(Peer(s)) = SignatureSize(s)
                         /\ PeerSize(s) = SignatureSize(Peer(s))
                         /\ mp_ConnectionGeneration[Client] # 0
                         /\ s = Client \/ s = Peer(Client)
         /\ ~Linked(s) => s # Client /\ s # Peer(Client) /\ Peer(s) = Client
<1>1. Peer(s) \in Sockets
  BY PeerHelloType
<1>2. CASE s = Client
  <2>1. Peer(s) = mp_ConnectionGeneration[Client] /\ Peer(s) # Client /\ Linked(s)
    BY <1>2 DEF Peer, Client, Linked
  <2>2. Attempt(Peer(s)) = Attempt(s) /\ Peer(Peer(s)) = s
    BY <1>2, <2>1 DEF Peer, Attempt
  <2> QED  BY <1>1, <1>2, <2>1, <2>2 DEF PeerSize
<1>3. CASE s # Client /\ Linked(s)
  <2>1. Peer(s) = Client /\ s = mp_ConnectionGeneration[Client] /\ s = Peer(Client)
    BY <1>3 DEF Peer, Linked
  <2>2. Attempt(Peer(s)) = Attempt(s) /\ Peer(Peer(s)) = s
    BY <1>3, <2>1 DEF Peer, Attempt
  <2> QED  BY <1>1, <1>3, <2>1, <2>2 DEF PeerSize, Client
<1>4. CASE ~Linked(s)
  BY <1>1, <1>4 DEF Linked, Peer
<1> QED  BY <1>2, <1>3, <1>4

\* s writes some of what it has pending, or more it had not queued before; what
\* it has pending then goes on from there.
Forwards(s, written) ==
  \A k \in Nat :
    k + Len(Pending(s)) = QueuedUnits(s) /\ RunOf(SignatureSize(s), Attempt(s), k, Pending(s)) =>
      /\ (k + Len(written)) + Len(Pending(s)') = QueuedUnits(s)'
      /\ RunOf(SignatureSize(s), Attempt(s), k, written)
      /\ RunOf(SignatureSize(s), Attempt(s), k + Len(written), Pending(s)')

\* A step of s that keeps the streams: what it read it counts, and what it writes
\* goes on from what its peer has got.
LEMMA StreamStep ==
  ASSUME IndInv, TypeOK', StreamInv, SameAttempt, NEW s \in Sockets,
         s = Client => mp_ConnectionGeneration[Client] # 0,
         \A t \in Sockets \ {s} : Stays(t),
         NEW written \in Seq(Units), written # <<>> => Linked(s) /\ Alive(s)',
         \A t \in Sockets : t # s /\ t # Peer(s) => incoming'[t] = incoming[t],
         incoming'[Peer(s)] = incoming[Peer(s)] \o written,
         Alive(s)' => Alive(s) /\ Got(s)' = Got(s) /\ Forwards(s, written),
         Streams(s)', Unaccepted', streaming' \in [Sockets -> BOOLEAN]
  PROVE  StreamInv'
<1>0. PICK r \in Sockets : r = Peer(s)
  BY PairIs DEF IndInv
<1>1. TypeOK /\ r \in Sockets /\ r # s /\ r = Peer(s) /\ Client \in Sockets
  BY <1>0, PairIs, SocketsAre DEF IndInv
<1>2. (\A t \in Sockets : Streams(t)) /\ incoming'[r] = incoming[r] \o written
  BY <1>1 DEF StreamInv
<1>3. Linked(s) => (Alive(s) /\ Alive(r) =>
        /\ Got(r) + Len(Pending(s)) = QueuedUnits(s)
        /\ RunOf(SignatureSize(s), Attempt(s), Got(r), Pending(s)))
  BY <1>1, PairIs DEF StreamInv, Flows, Flow
<1>4. Linked(s) => (Alive(s) /\ Alive(r) =>
        /\ Got(s) + Len(Pending(r)) = QueuedUnits(r)
        /\ RunOf(SignatureSize(r), Attempt(r), Got(s), Pending(r)))
  BY <1>1, PairIs DEF StreamInv, Flows, Flow
<1>5. Got(r) \in Nat /\ incoming[r] \in Seq(Units) /\ ReadUnits(r) \in Nat
  BY <1>1, SizesAre
<1>6. Linked(s) /\ Alive(s)' /\ Alive(r) =>
        /\ (Got(r) + Len(written)) + Len(Pending(s)') = QueuedUnits(s)'
        /\ RunOf(SignatureSize(s), Attempt(s), Got(r), written)
        /\ RunOf(SignatureSize(s), Attempt(s), Got(r) + Len(written), Pending(s)')
  BY <1>3, <1>5 DEF Forwards
<1>7. Streams(r)'
  <2>1. ASSUME Alive(r) PROVE RunOf(PeerSize(r), Attempt(r), ReadUnits(r), incoming'[r])
    <3>1. RunOf(PeerSize(r), Attempt(r), ReadUnits(r), incoming[r])
      BY <1>1, <1>2, <2>1 DEF Streams, Arrivals
    <3>2. CASE written = <<>>
      <4>1. incoming[r] \o written = incoming[r]
        BY <1>5, <3>2
      <4> QED  BY <1>2, <3>1, <4>1
    <3>3. CASE written # <<>>
      <4>1. Linked(s) /\ RunOf(SignatureSize(s), Attempt(s), Got(r), written)
        BY <1>6, <2>1, <3>3
      <4>2. PeerSize(r) = SignatureSize(s) /\ Attempt(r) = Attempt(s)
        BY <1>1, <4>1, PairIs
      <4>3. RunOf(PeerSize(r), Attempt(r), ReadUnits(r) + Len(incoming[r]), written)
        BY <4>1, <4>2 DEF Got
      <4> QED  BY <1>2, <1>5, <3>1, <4>3, RunJoin
    <3> QED  BY <3>2, <3>3
  <2> QED  BY <1>1, <1>2, <2>1, StreamsStay
<1>8. ASSUME NEW t \in Sockets, t # s PROVE Streams(t)'
  <2>1. CASE t = r
    BY <1>7, <2>1
  <2>2. CASE t # r
    <3>1. incoming'[t] = incoming[t] /\ Streams(t) /\ Stays(t)
      BY <1>1, <1>2, <1>8, <2>2
    <3>2. Alive(t) => RunOf(PeerSize(t), Attempt(t), ReadUnits(t), incoming'[t])
      BY <3>1 DEF Streams, Arrivals
    <3> QED  BY <3>1, <3>2, StreamsStay
  <2> QED  BY <2>1, <2>2
<1>9. Flows'
  <2> SUFFICES ASSUME mp_ConnectionGeneration'[Client] # 0
               PROVE  Flow(Client, Peer(Client))' /\ Flow(Peer(Client), Client)'
    BY DEF Flows
  <2>1. CASE Linked(s)
    <3>1. Stays(r) /\ Peer(s)' = r /\ Peer(r)' = s
      BY <1>1, <2>1, PairIs, SameEnds
    <3>2. /\ Alive(r)' => Alive(r)
          /\ ReadUnits(r)' = ReadUnits(r) /\ QueuedUnits(r)' = QueuedUnits(r)
          /\ Pending(r)' = Pending(r)
      BY <1>1, <3>1, StaysSame
    <3>3. /\ SignatureSize(s)' = SignatureSize(s) /\ SignatureSize(r)' = SignatureSize(r)
          /\ Attempt(s)' = Attempt(s) /\ Attempt(r)' = Attempt(r)
      BY <1>1, SameEnds
    <3>4. Got(r)' = Got(r) + Len(written)
      <4>1. Len(incoming[r] \o written) = Len(incoming[r]) + Len(written)
        BY <1>5, ConcatProperties
      <4>2. Len(incoming[r]) \in Nat /\ Len(written) \in Nat
        BY <1>5
      <4> QED  BY <1>2, <1>5, <3>2, <4>1, <4>2 DEF Got
    <3>5. Alive(s)' /\ Alive(r)' =>
            /\ Got(r)' + Len(Pending(s)') = QueuedUnits(s)'
            /\ RunOf(SignatureSize(s)', Attempt(s)', Got(r)', Pending(s)')
      BY <1>6, <2>1, <3>2, <3>3, <3>4
    <3>6. Alive(s)' /\ Alive(r)' =>
            /\ Got(s)' + Len(Pending(r)') = QueuedUnits(r)'
            /\ RunOf(SignatureSize(r)', Attempt(r)', Got(s)', Pending(r)')
      BY <1>4, <2>1, <3>2, <3>3
    <3>7. Flow(s, r)' /\ Flow(r, s)'
      BY <3>5, <3>6 DEF Flow
    <3>8. s = Client \/ (s = Peer(Client) /\ r = Client)
      BY <1>1, <2>1, PairIs
    <3>9. Peer(Client)' = Peer(Client)
      BY <1>1, SameEnds
    <3>10. CASE s = Client
      <4>1. r = Peer(Client)
        BY <1>1, <3>10
      <4> QED  BY <3>7, <3>9, <3>10, <4>1 DEF Flow
    <3>11. CASE s = Peer(Client) /\ r = Client
      BY <3>7, <3>9, <3>11 DEF Flow
    <3> QED  BY <3>8, <3>10, <3>11
  <2>2. CASE ~Linked(s)
    <3>0. PICK p \in Sockets : p = Peer(Client)
      BY <1>1, PeerHelloType
    <3>1. s # Client /\ s # p /\ r = Client /\ written = <<>>
      BY <1>1, <2>2, <3>0, PairIs
    <3>2. p \in Sockets /\ p # Client /\ Peer(Client)' = p
      <4>1. mp_ConnectionGeneration[Client] # 0
        BY DEF SameAttempt
      <4> QED  BY <1>1, <3>0, <4>1, PairIs, SameEnds
    <3>3. Stays(Client) /\ Stays(p)
      BY <1>1, <3>1, <3>2
    <3>4. incoming'[Client] = incoming[Client] /\ incoming'[p] = incoming[p]
      <4>1. incoming[Client] \o written = incoming[Client]
        BY <1>5, <3>1
      <4> QED  BY <1>1, <1>2, <3>1, <3>2, <4>1
    <3>5. /\ Got(Client)' = Got(Client) /\ Got(p)' = Got(p)
          /\ Pending(Client)' = Pending(Client) /\ Pending(p)' = Pending(p)
          /\ QueuedUnits(Client)' = QueuedUnits(Client) /\ QueuedUnits(p)' = QueuedUnits(p)
          /\ Alive(Client)' => Alive(Client)
          /\ Alive(p)' => Alive(p)
      BY <1>1, <3>2, <3>3, <3>4, StaysSame DEF Got
    <3>6. /\ SignatureSize(Client)' = SignatureSize(Client) /\ SignatureSize(p)' = SignatureSize(p)
          /\ Attempt(Client)' = Attempt(Client) /\ Attempt(p)' = Attempt(p)
      BY <1>1, <3>2, SameEnds
    <3>7. Flow(Client, p) /\ Flow(p, Client)
      BY <3>0 DEF StreamInv, Flows, SameAttempt
    <3>8. Flow(Client, p)' /\ Flow(p, Client)'
      BY <3>5, <3>6, <3>7 DEF Flow
    <3> QED  BY <3>2, <3>8 DEF Flow
  <2> QED  BY <2>1, <2>2
<1> QED  BY <1>8, <1>9 DEF StreamInv

\* A socket that has an owner or a connection is no longer fresh.
LEMMA UnacceptedKept ==
  ASSUME IndInv, StreamInv, SameAttempt, NEW s \in Sockets,
         mp_State[s] # "None" \/ owner[s] # "None",
         \A t \in Sockets \ {s} :
           mp_State'[t] = mp_State[t] /\ net'[t] = net[t] /\ owner'[t] = owner[t],
         net'[s] \in {net[s], "Shut", "Closed"},
         \A t \in Sockets \ {s} : incoming'[t] # incoming[t] => t = Peer(s) /\ HasPeer(s)
  PROVE  Unaccepted'
<1>1. ASSUME NEW t \in Sockets, Fresh(t) PROVE Fresh(t)'
  <2>1. t # s
    BY <1>1 DEF Fresh
  <2>2. incoming'[t] = incoming[t]
    BY <1>1, <2>1 DEF Fresh, HasPeer
  <2> QED  BY <1>1, <2>1, <2>2 DEF Fresh
<1>2. Client \in Sockets /\ Attempts \subseteq Sockets /\ Unaccepted
  BY SocketsAre DEF StreamInv
<1>3. ASSUME NEW t \in Attempts
      PROVE  /\ t > mp_ConnectionGeneration'[Client] => Fresh(t)'
             /\ net'[t] = "Backlog" => mp_State'[t] = "None" /\ owner'[t] = "None"
  <2>1. t > mp_ConnectionGeneration'[Client] => Fresh(t)'
    BY <1>1, <1>2 DEF Unaccepted, SameAttempt
  <2>2. CASE t = s
    BY <1>2, <2>1, <2>2 DEF Unaccepted
  <2>3. CASE t # s
    BY <1>2, <2>1, <2>3 DEF Unaccepted
  <2> QED  BY <2>2, <2>3
<1>4. net'[Client] # "Backlog"
  BY <1>2 DEF Unaccepted
<1>5. ASSUME net'[Client] = "Connecting"
      PROVE  mp_ConnectionGeneration'[Client] # 0 /\ Fresh(Peer(Client))'
  <2>1. net[Client] = "Connecting"
    BY <1>2, <1>5
  <2>2. PICK p \in Sockets : p = Peer(Client)
    BY <1>2, PeerHelloType DEF IndInv
  <2>3. Fresh(p)' /\ Peer(Client)' = p
    BY <1>1, <1>2, <2>1, <2>2, SameEnds DEF Unaccepted
  <2>4. mp_ConnectionGeneration'[Client] # 0
    BY <1>2, <2>1 DEF Unaccepted, SameAttempt
  <2> QED  BY <2>3, <2>4 DEF Fresh
<1> QED  BY <1>3, <1>4, <1>5 DEF Unaccepted

LEMMA ForwardsNothing ==
  ASSUME TypeOK, NEW s \in Sockets, Pending(s)' = Pending(s), QueuedUnits(s)' = QueuedUnits(s)
  PROVE  Forwards(s, <<>>)
<1>1. Len(Pending(s)) \in Nat
  BY SizesAre
<1> SUFFICES ASSUME NEW k \in Nat,
                    RunOf(SignatureSize(s), Attempt(s), k, Pending(s))
             PROVE  /\ (k + Len(<<>>)) + Len(Pending(s)) = k + Len(Pending(s))
                    /\ RunOf(SignatureSize(s), Attempt(s), k, <<>>)
                    /\ RunOf(SignatureSize(s), Attempt(s), k + Len(<<>>), Pending(s))
  BY DEF Forwards
<1>2. k + Len(<<>>) = k
  OBVIOUS
<1> QED  BY <1>1, <1>2, RunNone

\* It queues more.
LEMMA ForwardsMore ==
  ASSUME TypeOK, NEW s \in Sockets, NEW units \in Seq(Units), Pending(s)' = Pending(s) \o units,
         QueuedUnits(s)' = QueuedUnits(s) + Len(units),
         RunOf(SignatureSize(s), Attempt(s), QueuedUnits(s), units)
  PROVE  Forwards(s, <<>>)
<1>1. Len(Pending(s)) \in Nat /\ Pending(s) \in Seq(Units) /\ Len(units) \in Nat
  BY SizesAre
<1> SUFFICES ASSUME NEW k \in Nat, k + Len(Pending(s)) = QueuedUnits(s),
                    RunOf(SignatureSize(s), Attempt(s), k, Pending(s))
             PROVE  /\ (k + Len(<<>>)) + Len(Pending(s) \o units) = QueuedUnits(s) + Len(units)
                    /\ RunOf(SignatureSize(s), Attempt(s), k, <<>>)
                    /\ RunOf(SignatureSize(s), Attempt(s), k + Len(<<>>), Pending(s) \o units)
  BY DEF Forwards
<1>2. k + Len(<<>>) = k
  OBVIOUS
<1>3. RunOf(SignatureSize(s), Attempt(s), k, Pending(s) \o units)
      /\ Len(Pending(s) \o units) = Len(Pending(s)) + Len(units)
  BY <1>1, RunJoin
<1> QED  BY <1>1, <1>2, <1>3, RunNone

\* It writes the first of what it has pending.
LEMMA ForwardsFirst ==
  ASSUME TypeOK, NEW s \in Sockets, NEW n \in Nat, n <= Len(Pending(s)),
         Pending(s)' = RestOf(Pending(s), n), QueuedUnits(s)' = QueuedUnits(s)
  PROVE  Forwards(s, FirstOf(Pending(s), n))
<1>1. Len(Pending(s)) \in Nat /\ Pending(s) \in Seq(Units)
  BY SizesAre
<1>2. Len(FirstOf(Pending(s), n)) = n /\ Len(RestOf(Pending(s), n)) = Len(Pending(s)) - n
  BY <1>1, FirstIs, RestIs
<1> SUFFICES ASSUME NEW k \in Nat, k + Len(Pending(s)) = QueuedUnits(s),
                    RunOf(SignatureSize(s), Attempt(s), k, Pending(s))
             PROVE  /\ (k + n) + (Len(Pending(s)) - n) = QueuedUnits(s)
                    /\ RunOf(SignatureSize(s), Attempt(s), k, FirstOf(Pending(s), n))
                    /\ RunOf(SignatureSize(s), Attempt(s), k + n, RestOf(Pending(s), n))
  BY <1>2 DEF Forwards
<1> QED  BY <1>1, RunPart

\* It has nothing pending, and writes more at once.
LEMMA ForwardsDirectly ==
  ASSUME TypeOK, NEW s \in Sockets, NEW units \in Seq(Units),
         Pending(s) = <<>>, Pending(s)' = <<>>,
         QueuedUnits(s)' = QueuedUnits(s) + Len(units),
         RunOf(SignatureSize(s), Attempt(s), QueuedUnits(s), units)
  PROVE  Forwards(s, units)
<1>1. Len(units) \in Nat /\ QueuedUnits(s) \in Nat /\ Len(<<>>) = 0
  BY SizesAre
<1> SUFFICES ASSUME NEW k \in Nat, k + Len(<<>>) = QueuedUnits(s)
             PROVE  /\ (k + Len(units)) + Len(<<>>) = QueuedUnits(s) + Len(units)
                    /\ RunOf(SignatureSize(s), Attempt(s), k, units)
                    /\ RunOf(SignatureSize(s), Attempt(s), k + Len(units), <<>>)
  BY DEF Forwards
<1>2. k = QueuedUnits(s)
  BY <1>1
<1> QED  BY <1>1, <1>2, RunNone

\* A step of s that writes nothing.
LEMMA OwnStep ==
  ASSUME IndInv, TypeOK', StreamInv, SameAttempt, NEW s \in Sockets,
         s = Client => mp_ConnectionGeneration[Client] # 0,
         mp_State[s] # "None" \/ owner[s] # "None",
         \A t \in Sockets \ {s} : Stays(t) /\ net'[t] = net[t] /\ owner'[t] = owner[t],
         net'[s] \in {net[s], "Shut", "Closed"},
         \A t \in Sockets \ {s} : incoming'[t] = incoming[t],
         Alive(s)' => Alive(s) /\ Got(s)' = Got(s) /\ Forwards(s, <<>>),
         Streams(s)', streaming' \in [Sockets -> BOOLEAN]
  PROVE  StreamInv'
<1>1. Peer(s) \in Sockets /\ Peer(s) # s /\ TypeOK
  BY PairIs DEF IndInv
<1>2. incoming'[Peer(s)] = incoming[Peer(s)] \o <<>>
  <2>1. incoming[Peer(s)] \in Seq(Units)
    BY <1>1, SizesAre
  <2>2. incoming[Peer(s)] \o <<>> = incoming[Peer(s)]
    BY <2>1
  <2> QED  BY <1>1, <2>2
<1>3. Unaccepted'
  <2>1. \A t \in Sockets \ {s} : mp_State'[t] = mp_State[t]
    BY DEF Stays
  <2> QED  BY <2>1, UnacceptedKept
<1>4. <<>> \in Seq(Units)
  OBVIOUS
<1> QED  BY <1>2, <1>3, <1>4, StreamStep

\* A read of the next units of the peer.
LEMMA ReadsRun ==
  ASSUME IndInv, StreamInv, SameAttempt, NEW s \in Sockets, NEW n \in Nat, n <= Len(incoming[s]),
         incoming'[s] = RestOf(incoming[s], n), Alive(s),
         ReadUnits(s)' = ReadUnits(s) + n
  PROVE  Arrivals(s)' /\ Got(s)' = Got(s)
<1>1. /\ ReadUnits(s) \in Nat /\ incoming[s] \in Seq(Units) /\ Len(incoming[s]) \in Nat
  BY SizesAre DEF IndInv
<1>2. RunOf(PeerSize(s), Attempt(s), ReadUnits(s), incoming[s])
  BY DEF StreamInv, Streams, Arrivals
<1>3. /\ RunOf(PeerSize(s), Attempt(s), ReadUnits(s) + n, incoming'[s])
      /\ Len(incoming'[s]) = Len(incoming[s]) - n
  BY <1>1, <1>2, RunPart, RestIs
<1>4. Arrivals(s)'
  BY <1>3, SameEnds DEF Arrivals
<1>5. Got(s)' = Got(s)
  <2>1. (ReadUnits(s) + n) + (Len(incoming[s]) - n) = ReadUnits(s) + Len(incoming[s])
    BY <1>1
  <2> QED  BY <1>3, <2>1 DEF Got
<1> QED  BY <1>4, <1>5

\* The payload is left alone.
LEMMA PayloadRests ==
  ASSUME StreamInv, SameAttempt, NEW s \in Sockets,
         UNCHANGED <<received, sent, streaming, submitted>>,
         mp_State[s] = "Done" => mp_State'[s] = "Done",
         pc'[s] = "Transfer" => ~streaming[s]
  PROVE  ReadInOrder(s)' /\ Payloads(s)'
<1>1. ReadInOrder(s)'
  BY SameEnds DEF StreamInv, Streams, ReadInOrder
<1>2. Payloads(s)'
  BY DEF StreamInv, Streams, Payloads, SameAttempt
<1> QED  BY <1>1, <1>2

-----------------------------------------------------------------------------
(* The streams under the pump.                                             *)

LEMMA PumpStays ==
  ASSUME PumpKeeps, NEW s \in Sockets,
         \A t \in Sockets \ {s} : handshake'[t] = handshake[t] /\ pc'[t] = pc[t]
  PROVE  /\ SameAttempt /\ UNCHANGED <<received, sent, streaming, submitted, mp_State, net, owner>>
         /\ \A t \in Sockets \ {s} : Stays(t) /\ net'[t] = net[t] /\ owner'[t] = owner[t]
BY DEF PumpKeeps, dataVars, SameAttempt, Stays

LEMMA ReadLengthStream ==
  ASSUME IndInv, StreamInv, NEW s \in Sockets, ReadLength(s)
  PROVE  StreamInv'
<1>1. TypeOK /\ TypeOK' /\ handshake \in [Sockets -> Handshakes] /\ Streams(s)
      /\ streaming \in [Sockets -> BOOLEAN]
  BY ReadLengthStep DEF IndInv, TypeOK, StreamInv
<1>2. /\ PumpKeeps /\ UNCHANGED <<chain, accepted, pc>> /\ Take(s, 1) /\ incoming[s] # <<>>
      /\ pc[s] = "Read" /\ handshake[s].stage # "Done" /\ handshake[s].length = "None"
      /\ handshake' = [handshake EXCEPT ![s].length = FirstUnit(s).kind]
  BY DEF ReadLength, Running, FirstUnit
<1>3. mp_State[s] = "Handshake" /\ (s = Client => mp_ConnectionGeneration[Client] # 0)
  BY <1>2, PumpsInHandshake
<1>4. /\ \A t \in Sockets \ {s} : incoming'[t] = incoming[t]
      /\ incoming'[s] = RestOf(incoming[s], 1)
  BY <1>1, <1>2, TakeKeeps DEF RestOf
<1>5. incoming[s] \in Seq(Units) /\ Len(incoming[s]) \in Nat /\ 1 <= Len(incoming[s])
      /\ ReadUnits(s) \in Nat
  BY <1>1, <1>2, SizesAre
<1>6. FirstUnit(s).kind \in Kinds
  BY <1>2, FirstArrives DEF Units
<1>7. /\ handshake'[s] = [handshake[s] EXCEPT !.length = FirstUnit(s).kind]
      /\ \A t \in Sockets \ {s} : handshake'[t] = handshake[t]
  BY <1>1, <1>2
<1>8. /\ handshake'[s].stage = handshake[s].stage /\ handshake'[s].out = handshake[s].out
      /\ handshake'[s].length = FirstUnit(s).kind /\ FirstUnit(s).kind # "None"
  BY <1>1, <1>6, <1>7 DEF Handshakes, Kinds
<1>9. /\ SameAttempt /\ UNCHANGED <<received, sent, streaming, submitted, mp_State, net, owner>>
      /\ \A t \in Sockets \ {s} : Stays(t) /\ net'[t] = net[t] /\ owner'[t] = owner[t]
  BY <1>2, <1>7, PumpStays
<1>10. Alive(s)
  BY <1>2, <1>3 DEF Alive
<1>11. ReadUnits(s)' = ReadUnits(s) + 1
  <2>1. PeerSize(s)' = PeerSize(s)
    BY <1>9, SameEnds
  <2>2. StageUnits(PeerSize(s), handshake[s].stage) \in Nat
    BY <1>1, SizesAre, UnitsOf DEF StageUnits
  <2> QED  BY <1>2, <1>3, <1>8, <1>9, <2>1, <2>2 DEF ReadUnits
<1>12. Arrivals(s)' /\ Got(s)' = Got(s)
  BY <1>4, <1>5, <1>9, <1>10, <1>11, ReadsRun
<1>13. FirstUnit(s).kind = KindAt(PeerSize(s), ReadUnits(s) + 1)
  <2>1. RunOf(PeerSize(s), Attempt(s), ReadUnits(s), incoming[s])
    BY <1>1, <1>10 DEF Streams, Arrivals
  <2>2. 1 \in 1 .. Len(incoming[s])
    BY <1>5
  <2>3. At(PeerSize(s), Attempt(s), ReadUnits(s) + 1, incoming[s][1])
    BY <2>1, <2>2 DEF RunOf
  <2>4. FirstUnit(s) = incoming[s][1]
    BY <1>5 DEF FirstUnit
  <2> QED  BY <2>3, <2>4 DEF At
<1>14. Frames(s)'
  BY <1>2, <1>3, <1>8, <1>9, <1>11, <1>13, SameEnds DEF Frames
<1>15. Forwards(s, <<>>)
  <2>1. Pending(s)' = Pending(s)
    BY <1>3, <1>8, <1>9 DEF Pending
  <2>2. QueuedUnits(s)' = QueuedUnits(s)
    BY <1>8, <1>9, SameEnds DEF QueuedUnits
  <2> QED  BY <1>1, <2>1, <2>2, ForwardsNothing
<1>16. ReadInOrder(s)' /\ Payloads(s)'
  BY <1>2, <1>9, PayloadRests
<1> QED  BY <1>1, <1>3, <1>4, <1>9, <1>10, <1>12, <1>14, <1>15, <1>16, OwnStep DEF Streams

\* What the pump reads of the frame of a stage.
LEMMA FrameReads ==
  ASSUME IndInv, NEW s \in Sockets, NEW stage, FrameRead(s, stage)
  PROVE  \E n \in {0, 1} :
           /\ n <= Len(incoming[s])
           /\ incoming'[s] = RestOf(incoming[s], n)
           /\ handshake[s].length = "Length" => n = 1
           /\ handshake[s].length = "Empty" => n = 0
           /\ handshake[s].length \in {"Length", "Empty"}
<1>1. TypeOK /\ incoming[s] \in Seq(Units) /\ Len(incoming[s]) \in Nat
  BY SizesAre DEF IndInv
<1>2. CASE handshake[s].length = "Empty" /\ UNCHANGED incoming
  <2>1. RestOf(incoming[s], 0) = incoming[s]
    BY <1>1 DEF RestOf
  <2> WITNESS 0 \in {0, 1}
  <2> QED  BY <1>1, <1>2, <2>1
<1>3. CASE handshake[s].length = "Length" /\ incoming[s] # <<>> /\ Take(s, 1)
  <2>1. incoming'[s] = RestOf(incoming[s], 1) /\ 1 <= Len(incoming[s])
    BY <1>1, <1>3, TakeKeeps DEF RestOf
  <2> WITNESS 1 \in {0, 1}
  <2> QED  BY <1>3, <2>1
<1> QED  BY <1>2, <1>3 DEF FrameRead

\* A frame the pump goes on behind, or fails at.
LEMMA FrameStream ==
  ASSUME IndInv, TypeOK', StreamInv, NEW s \in Sockets, NEW stage, FrameRead(s, stage),
         \A t \in Sockets \ {s} : handshake'[t] = handshake[t] /\ pc'[t] = pc[t],
         pc'[s] \in {"Read", "Fail"},
         handshake'[s].stage = "Done" => handshake'[s].length = "None",
         pc'[s] = "Read" =>
           /\ handshake'[s].length = "None" /\ Forwards(s, <<>>)
           /\ \A n \in {0, 1} : (/\ handshake[s].length = "Length" => n = 1
                                 /\ handshake[s].length = "Empty" => n = 0)
                => ReadUnits(s)' = ReadUnits(s) + n
  PROVE  StreamInv'
<1>1. TypeOK /\ Streams(s) /\ streaming \in [Sockets -> BOOLEAN]
  BY DEF IndInv, StreamInv
<1>2. /\ PumpKeeps /\ mp_State[s] = "Handshake" /\ pc[s] = "Read"
      /\ s = Client => mp_ConnectionGeneration[Client] # 0
      /\ \A t \in Sockets \ {s} : incoming'[t] = incoming[t]
  BY FrameReadKeeps
<1>3. /\ SameAttempt /\ UNCHANGED <<received, sent, streaming, submitted, mp_State, net, owner>>
      /\ \A t \in Sockets \ {s} : Stays(t) /\ net'[t] = net[t] /\ owner'[t] = owner[t]
  BY <1>2, PumpStays
<1>4. Alive(s)
  BY <1>2 DEF Alive
<1>5. ReadInOrder(s)' /\ Payloads(s)'
  BY <1>2, <1>3, PayloadRests
<1>6. CASE pc'[s] = "Fail"
  <2>1. ~Alive(s)'
    BY <1>6 DEF Alive
  <2>2. Frames(s)' /\ Arrivals(s)'
    BY <1>2, <1>3, <1>6, <2>1 DEF Frames, Arrivals
  <2> QED  BY <1>1, <1>2, <1>3, <1>5, <2>1, <2>2, OwnStep DEF Streams
<1>7. CASE pc'[s] = "Read"
  <2>1. PICK n \in {0, 1} :
          /\ n <= Len(incoming[s])
          /\ incoming'[s] = RestOf(incoming[s], n)
          /\ handshake[s].length = "Length" => n = 1
          /\ handshake[s].length = "Empty" => n = 0
    BY FrameReads
  <2>2. ReadUnits(s)' = ReadUnits(s) + n /\ n \in Nat
    BY <1>7, <2>1
  <2>3. Arrivals(s)' /\ Got(s)' = Got(s)
    BY <1>3, <1>4, <2>1, <2>2, ReadsRun
  <2>4. Frames(s)'
    BY <1>2, <1>3, <1>7 DEF Frames
  <2> QED  BY <1>1, <1>2, <1>3, <1>4, <1>5, <1>7, <2>3, <2>4, OwnStep DEF Streams
<1> QED  BY <1>6, <1>7

LEMMA FrameFailsStream ==
  ASSUME IndInv, TypeOK', StreamInv, NEW s \in Sockets, NEW stage, FrameRead(s, stage),
         stage # "Done", Goto(s, "Fail"), UNCHANGED handshake
  PROVE  StreamInv'
<1>1. TypeOK /\ handshake[s].stage = stage
  BY FrameReadKeeps DEF IndInv
<1>2. pc'[s] = "Fail" /\ \A t \in Sockets \ {s} : pc'[t] = pc[t]
  BY <1>1, GotoKeeps DEF Places
<1> QED  BY <1>1, <1>2, FrameStream

\* The hello is the second unit of the peer; the signature follows the own one.
LEMMA HandleHelloFrameStream ==
  ASSUME IndInv, StreamInv, NEW s \in Sockets, HandleHelloFrame(s)
  PROVE  StreamInv'
<1> DEFINE peer == FirstUnit(s).hello
           answer == IF Policy(s).certified
                       THEN Frame(Unit("Signature", Hello(s), BuildTranscript(s, peer, s # Client)))
                     ELSE EmptyFrame
           next == [stage |-> "WaitSignature", length |-> "None", peerHello |-> peer,
                    out |-> handshake[s].out \o answer]
<1>1. /\ FrameRead(s, "WaitHello") /\ TypeOK /\ TypeOK'
      /\ handshake \in [Sockets -> Handshakes]
  BY HandleHelloFrameStep DEF HandleHelloFrame, IndInv, TypeOK
<1>2. /\ PumpKeeps /\ mp_State[s] = "Handshake" /\ handshake[s].stage = "WaitHello"
      /\ pc[s] = "Read"
  BY <1>1, FrameReadKeeps
<1>3. CASE Goto(s, "Fail") /\ UNCHANGED handshake
  BY <1>1, <1>3, FrameFailsStream
<1>4. CASE /\ handshake[s].length = "Length"
           /\ handshake' = [handshake EXCEPT ![s] = next]
           /\ UNCHANGED pc
  <2>1. SignatureSize(s) \in Sizes /\ PeerSize(s) \in Sizes
    BY <1>1, SizesAre
  <2>2. RunOf(SignatureSize(s), Attempt(s), 2, answer) /\ Len(answer) = SignatureSize(s)
        /\ answer \in Seq(Units)
    <3>1. CASE Policy(s).certified
      <4>1. SignatureSize(s) = 2
        BY <3>1 DEF SignatureSize
      <4>2. answer = Frame(Unit("Signature", Hello(s), BuildTranscript(s, peer, s # Client)))
        BY <3>1
      <4>3. answer \in Seq(Units)
        <5>1. handshake'[s] \in Handshakes
          BY <1>1 DEF TypeOK
        <5>2. FirstUnit(s).hello \in Hellos
          BY <1>2, <1>4, <1>1, FrameReadKeeps, FirstArrives DEF Units
        <5>3. Unit("Signature", Hello(s), BuildTranscript(s, peer, s # Client)) \in Units
          BY <1>1, <5>2, SignatureType
        <5>4. Plain("Length") \in Units
          BY PlainType DEF Kinds
        <5> QED  BY <4>2, <5>3, <5>4, PairIsSeq DEF Frame
      <4> QED  BY <2>1, <4>1, <4>2, <4>3, FrameRuns
    <3>2. CASE ~Policy(s).certified
      <4>1. SignatureSize(s) = 1
        BY <3>2 DEF SignatureSize
      <4>2. answer = EmptyFrame
        BY <3>2
      <4>3. Plain("Empty") \in Units
        BY PlainType DEF Kinds
      <4>4. EmptyFrame \in Seq(Units)
        BY <4>3 DEF EmptyFrame
      <4> QED  BY <2>1, <4>1, <4>2, <4>4, FrameRuns
    <3> QED  BY <3>1, <3>2
  <2> HIDE DEF answer
  <2>3. /\ handshake'[s] = next /\ \A t \in Sockets \ {s} : handshake'[t] = handshake[t]
        /\ handshake'[s].stage = "WaitSignature" /\ handshake'[s].length = "None"
        /\ handshake'[s].out = handshake[s].out \o answer
    BY <1>1, <1>4
  <2>4. SameAttempt /\ UNCHANGED mp_State
    BY <1>2 DEF PumpKeeps, SameAttempt
  <2>5. PeerSize(s)' = PeerSize(s) /\ SignatureSize(s)' = SignatureSize(s)
    BY <2>4, SameEnds
  <2>6. ReadUnits(s) = 1 /\ ReadUnits(s)' = 2
    BY <1>2, <1>4, <2>3, <2>4 DEF ReadUnits, StageUnits
  <2>7. Forwards(s, <<>>)
    <3>1. Pending(s)' = Pending(s) \o answer
      BY <1>2, <2>3, <2>4 DEF Pending
    <3>2. QueuedUnits(s) = 2 /\ QueuedUnits(s)' = 2 + SignatureSize(s)
      BY <1>2, <2>3, <2>4, <2>5 DEF QueuedUnits
    <3> QED  BY <1>1, <2>2, <3>1, <3>2, ForwardsMore
  <2> QED  BY <1>1, <1>2, <1>4, <2>3, <2>6, <2>7, FrameStream
<1> QED  BY <1>3, <1>4 DEF HandleHelloFrame

\* A signature is as long as its first unit says; the acceptance follows the own one.
LEMMA HandleSignatureFrameStream ==
  ASSUME IndInv, StreamInv, NEW s \in Sockets, HandleSignatureFrame(s)
  PROVE  StreamInv'
<1> DEFINE next == [handshake[s] EXCEPT !.stage = "WaitAccept", !.length = "None",
                      !.out = handshake[s].out \o Frame(Plain("Accept"))]
<1>1. /\ FrameRead(s, "WaitSignature") /\ TypeOK /\ TypeOK' /\ Frames(s)
      /\ handshake \in [Sockets -> Handshakes]
  BY HandleSignatureFrameStep DEF HandleSignatureFrame, IndInv, TypeOK, StreamInv, Streams
<1>2. /\ PumpKeeps /\ mp_State[s] = "Handshake" /\ handshake[s].stage = "WaitSignature"
      /\ pc[s] = "Read"
  BY <1>1, FrameReadKeeps
<1>3. CASE Goto(s, "Fail") /\ UNCHANGED handshake
  BY <1>1, <1>3, FrameFailsStream
<1>4. CASE AcceptPeer(s) /\ UNCHANGED pc
  <2>0. handshake' = [handshake EXCEPT ![s] = next]
    BY <1>4 DEF AcceptPeer
  <2>1. SignatureSize(s) \in Sizes /\ PeerSize(s) \in Sizes
    BY <1>1, SizesAre
  <2>2. /\ RunOf(SignatureSize(s), Attempt(s), 2 + SignatureSize(s), Frame(Plain("Accept")))
        /\ Len(Frame(Plain("Accept"))) = 2
        /\ Frame(Plain("Accept")) \in Seq(Units)
    <3>1. Plain("Accept") \in Units /\ Plain("Length") \in Units
      BY PlainType DEF Kinds
    <3>2. Frame(Plain("Accept")) \in Seq(Units)
      BY <3>1, PairIsSeq DEF Frame
    <3> QED  BY <2>1, <3>2, FrameRuns
  <2>3. /\ handshake'[s] = next /\ \A t \in Sockets \ {s} : handshake'[t] = handshake[t]
    BY <1>1, <2>0
  <2>4. /\ handshake'[s].stage = "WaitAccept" /\ handshake'[s].length = "None"
        /\ handshake'[s].out = handshake[s].out \o Frame(Plain("Accept"))
    BY <1>1, <2>3 DEF Handshakes
  <2>5. SameAttempt /\ UNCHANGED mp_State
    BY <1>2 DEF PumpKeeps, SameAttempt
  <2>6. PeerSize(s)' = PeerSize(s) /\ SignatureSize(s)' = SignatureSize(s)
    BY <2>5, SameEnds
  <2>7. handshake[s].length \in {"Length", "Empty"}
    BY <1>1 DEF FrameRead
  <2>8. ReadUnits(s) = 3
    BY <1>2, <2>7 DEF ReadUnits, StageUnits
  <2>9. ReadUnits(s)' = 2 + PeerSize(s)
    BY <1>2, <2>1, <2>4, <2>5, <2>6 DEF ReadUnits, StageUnits, Sizes
  <2>10. handshake[s].length = KindAt(PeerSize(s), 3)
    BY <1>1, <1>2, <2>7, <2>8 DEF Frames
  <2>11. \A n \in {0, 1} : (/\ handshake[s].length = "Length" => n = 1
                            /\ handshake[s].length = "Empty" => n = 0)
           => ReadUnits(s)' = ReadUnits(s) + n
    <3>1. CASE PeerSize(s) = 2
      <4>1. handshake[s].length = "Length"
        BY <2>1, <2>10, <3>1, KindsAre
      <4>2. ReadUnits(s)' = ReadUnits(s) + 1
        BY <2>8, <2>9, <3>1
      <4> QED  BY <4>1, <4>2
    <3>2. CASE PeerSize(s) = 1
      <4>1. handshake[s].length = "Empty"
        BY <2>1, <2>10, <3>2, KindsAre
      <4> QED  BY <2>8, <2>9, <3>2, <4>1
    <3> QED  BY <2>1, <3>1, <3>2 DEF Sizes
  <2>12. Forwards(s, <<>>)
    <3>1. Pending(s)' = Pending(s) \o Frame(Plain("Accept"))
      BY <1>2, <2>4, <2>5 DEF Pending
    <3>2. QueuedUnits(s) = 2 + SignatureSize(s) /\ QueuedUnits(s)' = (2 + SignatureSize(s)) + 2
      BY <1>2, <2>1, <2>4, <2>5, <2>6 DEF QueuedUnits, HandshakeUnits, Sizes
    <3> QED  BY <1>1, <2>2, <3>1, <3>2, ForwardsMore
  <2> QED  BY <1>1, <1>2, <1>4, <2>3, <2>4, <2>11, <2>12, FrameStream
<1> QED  BY <1>3, <1>4 DEF HandleSignatureFrame

LEMMA HandleAcceptFrameStream ==
  ASSUME IndInv, StreamInv, NEW s \in Sockets, HandleAcceptFrame(s)
  PROVE  StreamInv'
<1> DEFINE next == [handshake[s] EXCEPT !.stage = "Done", !.length = "None"]
<1>1. /\ FrameRead(s, "WaitAccept") /\ TypeOK /\ TypeOK'
      /\ handshake \in [Sockets -> Handshakes]
  BY HandleAcceptFrameStep DEF HandleAcceptFrame, IndInv, TypeOK
<1>2. /\ PumpKeeps /\ mp_State[s] = "Handshake" /\ handshake[s].stage = "WaitAccept"
      /\ pc[s] = "Read"
  BY <1>1, FrameReadKeeps
<1>3. CASE Goto(s, "Fail") /\ UNCHANGED handshake
  BY <1>1, <1>3, FrameFailsStream
<1>4. CASE /\ handshake[s].length = "Length"
           /\ handshake' = [handshake EXCEPT ![s] = next]
           /\ UNCHANGED pc
  <2>1. SignatureSize(s) \in Sizes /\ PeerSize(s) \in Sizes
    BY <1>1, SizesAre
  <2>2. handshake'[s] = next /\ \A t \in Sockets \ {s} : handshake'[t] = handshake[t]
    BY <1>1, <1>4
  <2>3. /\ handshake'[s].stage = "Done" /\ handshake'[s].length = "None"
        /\ handshake'[s].out = handshake[s].out
    BY <1>1, <2>2 DEF Handshakes
  <2>4. SameAttempt /\ UNCHANGED mp_State
    BY <1>2 DEF PumpKeeps, SameAttempt
  <2>5. PeerSize(s)' = PeerSize(s) /\ SignatureSize(s)' = SignatureSize(s)
    BY <2>4, SameEnds
  <2>6. ReadUnits(s)' = ReadUnits(s) + 1
    BY <1>2, <1>4, <2>1, <2>3, <2>4, <2>5 DEF ReadUnits, StageUnits, HandshakeUnits, Sizes
  <2>7. Forwards(s, <<>>)
    <3>1. Pending(s)' = Pending(s)
      BY <1>2, <2>3, <2>4 DEF Pending
    <3>2. QueuedUnits(s)' = QueuedUnits(s)
      BY <1>2, <2>3, <2>4, <2>5 DEF QueuedUnits
    <3> QED  BY <1>1, <3>1, <3>2, ForwardsNothing
  <2> QED  BY <1>1, <1>2, <1>4, <2>2, <2>3, <2>6, <2>7, FrameStream
<1> QED  BY <1>3, <1>4 DEF HandleAcceptFrame

\* The pump writes the first of what it offers.
LEMMA FlushOutgoingStream ==
  ASSUME IndInv, StreamInv, NEW s \in Sockets, FlushOutgoing(s)
  PROVE  StreamInv'
<1> DEFINE out == handshake[s].out
           n == IF ~HasPeer(s) THEN 0 ELSE IF Len(out) < Space(s) THEN Len(out) ELSE Space(s)
<1>1. /\ TypeOK /\ TypeOK' /\ PumpKeeps /\ pc[s] \in {"Flush", "LastFlush"}
      /\ handshake \in [Sockets -> Handshakes] /\ Streams(s)
      /\ streaming \in [Sockets -> BOOLEAN]
  BY FlushOutgoingStep DEF FlushOutgoing, IndInv, TypeOK, StreamInv
<1>2. mp_State[s] = "Handshake" /\ (s = Client => mp_ConnectionGeneration[Client] # 0)
  BY <1>1, PumpsInHandshake
<1>3. Alive(s) /\ Peer(s) \in Sockets /\ Peer(s) # s
  BY <1>1, <1>2, PairIs DEF Alive
<1>4. CASE Goto(s, "Fail") /\ UNCHANGED <<incoming, handshake>>
  <2>1. pc'[s] = "Fail" /\ \A t \in Sockets \ {s} : pc'[t] = pc[t]
    BY <1>1, <1>4, GotoKeeps DEF Places
  <2>2. /\ SameAttempt /\ UNCHANGED <<received, sent, streaming, submitted, mp_State, net, owner>>
        /\ \A t \in Sockets \ {s} : Stays(t) /\ net'[t] = net[t] /\ owner'[t] = owner[t]
    BY <1>1, <1>4, <2>1, PumpStays
  <2>3. ReadInOrder(s)' /\ Payloads(s)'
    BY <1>2, <2>1, <2>2, PayloadRests
  <2>4. ~Alive(s)'
    BY <2>1 DEF Alive
  <2>5. Frames(s)' /\ Arrivals(s)'
    BY <1>1, <1>2, <1>4, <2>1, <2>2, <2>4 DEF Streams, Frames, Arrivals
  <2> QED  BY <1>1, <1>2, <1>4, <2>2, <2>3, <2>4, <2>5, OwnStep DEF Streams
<1>5. CASE /\ out = <<>> \/ HasPeer(s)
           /\ Write(s, SubSeq(out, 1, n))
           /\ handshake' = [handshake EXCEPT ![s].out = SubSeq(out, n + 1, Len(out))]
           /\ Goto(s, IF pc[s] = "Flush" THEN "Read" ELSE "End")
  <2>1. out \in Seq(Units) /\ Len(out) \in Nat /\ Space(s) \in Nat
    BY <1>1, SpaceIsNat DEF Handshakes
  <2>2. n \in Nat /\ n <= Len(out)
    BY <2>1
  <2>3. ~HasPeer(s) => n = 0
    OBVIOUS
  <2>4. HasPeer(s) => n <= Space(s)
    BY <2>1
  <2> HIDE DEF n
  <2> DEFINE first == FirstOf(out, n)
             rest == RestOf(out, n)
  <2>5. first \in Seq(Units) /\ Len(first) = n
    <3>1. first \in Seq(Units)
      BY <2>1, <2>2, SeqPart DEF FirstOf
    <3> QED  BY <2>1, <2>2, <3>1, FirstIs
  <2>6. /\ Write(s, first)
        /\ handshake' = [handshake EXCEPT ![s].out = rest]
    BY <1>5 DEF FirstOf, RestOf
  <2> HIDE DEF first, rest
  <2>7. first # <<>> => HasPeer(s) /\ n <= Space(s)
    <3>1. n = 0 => first = <<>>
      BY <2>5
    <3> QED  BY <2>3, <2>4, <3>1
  <2>8. /\ \A t \in Sockets \ {Peer(s)} : incoming'[t] = incoming[t]
        /\ incoming'[Peer(s)] = incoming[Peer(s)] \o first
    BY <1>1, <2>5, <2>6, <2>7, WriteKeeps
  <2>9. /\ \A t \in Sockets \ {s} : handshake'[t] = handshake[t]
        /\ handshake'[s].stage = handshake[s].stage /\ handshake'[s].length = handshake[s].length
        /\ handshake'[s].out = rest
    BY <1>1, <2>6 DEF Handshakes
  <2>10. pc'[s] \in {"Read", "End"} /\ \A t \in Sockets \ {s} : pc'[t] = pc[t]
    BY <1>1, <1>5, GotoKeeps DEF Places
  <2>11. /\ SameAttempt /\ UNCHANGED <<received, sent, streaming, submitted, mp_State, net, owner>>
         /\ \A t \in Sockets \ {s} : Stays(t) /\ net'[t] = net[t] /\ owner'[t] = owner[t]
    BY <1>1, <2>9, <2>10, PumpStays
  <2>12. ReadInOrder(s)' /\ Payloads(s)'
    BY <1>2, <2>10, <2>11, PayloadRests
  <2>13. ReadUnits(s)' = ReadUnits(s) /\ QueuedUnits(s)' = QueuedUnits(s)
    BY <2>9, <2>11, SameEnds DEF ReadUnits, QueuedUnits
  <2>14. incoming'[s] = incoming[s]
    BY <1>3, <2>8
  <2>15. Frames(s)' /\ Arrivals(s)' /\ Got(s)' = Got(s) /\ Alive(s)'
    <3>1. Frames(s)'
      BY <1>1, <1>2, <2>9, <2>10, <2>11, <2>13, SameEnds DEF Streams, Frames
    <3>2. Arrivals(s)'
      BY <1>1, <1>3, <2>11, <2>13, <2>14, SameEnds DEF Streams, Arrivals
    <3>3. Got(s)' = Got(s)
      BY <2>13, <2>14 DEF Got
    <3>4. Alive(s)'
      BY <1>2, <2>10, <2>11 DEF Alive
    <3> QED  BY <3>1, <3>2, <3>3, <3>4
  <2>16. Forwards(s, first)
    <3>1. Pending(s) = out /\ Pending(s)' = rest
      BY <1>2, <2>9, <2>11 DEF Pending
    <3> QED  BY <1>1, <2>2, <2>13, <3>1, ForwardsFirst DEF first, rest
  <2>17. Unaccepted'
    <3>1. \A t \in Sockets \ {s} : incoming'[t] # incoming[t] => t = Peer(s) /\ HasPeer(s)
      <4>1. CASE first = <<>>
        <5>1. incoming[Peer(s)] \in Seq(Units)
          BY <1>1, <1>3, SizesAre
        <5>2. incoming[Peer(s)] \o first = incoming[Peer(s)]
          BY <4>1, <5>1
        <5> QED  BY <2>8, <5>2
      <4>2. CASE first # <<>>
        BY <2>7, <2>8, <4>2
      <4> QED  BY <4>1, <4>2
    <3> QED  BY <1>2, <2>11, <3>1, UnacceptedKept
  <2>18. \A t \in Sockets : t # s /\ t # Peer(s) => incoming'[t] = incoming[t]
    BY <2>8
  <2>19. first # <<>> => Linked(s) /\ Alive(s)'
    BY <2>7, <2>15 DEF HasPeer
  <2>20. Streams(s)' /\ streaming' \in [Sockets -> BOOLEAN]
    BY <1>1, <2>11, <2>12, <2>15 DEF Streams
  <2> QED  BY <1>1, <1>2, <1>3, <2>5, <2>8, <2>11, <2>15, <2>16, <2>17, <2>18, <2>19, <2>20,
              StreamStep
<1> QED  BY <1>4, <1>5 DEF FlushOutgoing

-----------------------------------------------------------------------------
(* Steps that move no unit.                                                *)

\* Only the call, the state or the handshake of s changes.
LEMMA QuietStep ==
  ASSUME IndInv, TypeOK', StreamInv, SameAttempt, NEW s \in Sockets,
         s = Client => mp_ConnectionGeneration[Client] # 0,
         mp_State[s] # "None" \/ owner[s] # "None",
         UNCHANGED <<incoming, received, sent, streaming, submitted>>,
         \A t \in Sockets \ {s} :
           /\ mp_State'[t] = mp_State[t] /\ handshake'[t] = handshake[t] /\ pc'[t] = pc[t]
           /\ net'[t] = net[t] /\ owner'[t] = owner[t],
         net'[s] \in {net[s], "Shut", "Closed"},
         mp_State[s] = "Done" => mp_State'[s] = "Done",
         pc'[s] = "Transfer" => ~streaming[s],
         Frames(s)',
         Alive(s)' => Alive(s) /\ ReadUnits(s)' = ReadUnits(s) /\ Forwards(s, <<>>)
  PROVE  StreamInv'
<1>1. Streams(s) /\ streaming \in [Sockets -> BOOLEAN]
  BY DEF StreamInv
<1>2. ReadInOrder(s)' /\ Payloads(s)'
  BY PayloadRests
<1>3. Arrivals(s)'
  BY <1>1, SameEnds DEF Streams, Arrivals
<1>4. Alive(s)' => Got(s)' = Got(s)
  BY DEF Got
<1>5. \A t \in Sockets \ {s} : Stays(t) /\ incoming'[t] = incoming[t]
  BY DEF Stays
<1> QED  BY <1>1, <1>2, <1>3, <1>4, <1>5, OwnStep DEF Streams

\* Only the place of the call changes, or who has the socket.
LEMMA GoStep ==
  ASSUME IndInv, TypeOK', StreamInv, SameAttempt, NEW s \in Sockets,
         s = Client => mp_ConnectionGeneration[Client] # 0,
         mp_State[s] # "None" \/ owner[s] # "None",
         UNCHANGED <<incoming, received, sent, streaming, submitted, mp_State, handshake>>,
         \A t \in Sockets \ {s} : pc'[t] = pc[t] /\ net'[t] = net[t] /\ owner'[t] = owner[t],
         net'[s] \in {net[s], "Shut", "Closed"},
         pc[s] # "Fail", pc'[s] = "Transfer" => ~streaming[s]
  PROVE  StreamInv'
<1>1. Frames(s) /\ TypeOK
  BY DEF StreamInv, Streams, IndInv
<1>2. ReadUnits(s)' = ReadUnits(s) /\ QueuedUnits(s)' = QueuedUnits(s) /\ Pending(s)' = Pending(s)
  BY SameEnds DEF ReadUnits, QueuedUnits, Pending
<1>3. Frames(s)'
  BY <1>1, <1>2, SameEnds DEF Frames
<1>4. Alive(s)' => Alive(s)
  BY DEF Alive
<1>5. Forwards(s, <<>>)
  BY <1>1, <1>2, ForwardsNothing
<1> QED  BY <1>2, <1>3, <1>4, <1>5, QuietStep

LEMMA StopReadingStream ==
  ASSUME IndInv, StreamInv, NEW s \in Sockets, StopReading(s)
  PROVE  StreamInv'
<1>1. /\ TypeOK /\ TypeOK' /\ PumpKeeps /\ pc[s] = "Read" /\ Goto(s, "LastFlush")
      /\ UNCHANGED <<handshake, incoming>>
  BY StopReadingStep DEF StopReading, Running, IndInv
<1>2. mp_State[s] = "Handshake" /\ (s = Client => mp_ConnectionGeneration[Client] # 0)
  BY <1>1, PumpsInHandshake
<1>3. pc'[s] = "LastFlush" /\ \A t \in Sockets \ {s} : pc'[t] = pc[t]
  BY <1>1, GotoKeeps DEF Places
<1>4. SameAttempt /\ UNCHANGED <<received, sent, streaming, submitted, mp_State, net, owner>>
  BY <1>1 DEF PumpKeeps, SameAttempt, dataVars
<1> QED  BY <1>1, <1>2, <1>3, <1>4, GoStep

LEMMA PumpEndsStream ==
  ASSUME IndInv, StreamInv, NEW s \in Sockets, PumpEnds(s)
  PROVE  StreamInv'
<1>1. /\ TypeOK /\ TypeOK' /\ pc[s] = "End" /\ Goto(s, "Idle")
      /\ UNCHANGED <<scenario, mp_ConnectionGeneration, incoming, mp_State, handshake, net, owner>>
      /\ UNCHANGED <<received, sent, streaming, submitted>>
  BY PumpEndsStep DEF PumpEnds, Running, IndInv, ownVars, loopVars, dataVars
<1>2. mp_State[s] = "Handshake" /\ (s = Client => mp_ConnectionGeneration[Client] # 0)
  BY <1>1, PumpsInHandshake
<1>3. pc'[s] = "Idle" /\ \A t \in Sockets \ {s} : pc'[t] = pc[t]
  BY <1>1, GotoKeeps DEF Places
<1> QED  BY <1>1, <1>2, <1>3, GoStep DEF SameAttempt

\* The handshake of s fails, or is about to.
LEMMA PumpThrowsStream ==
  ASSUME IndInv, StreamInv, NEW s \in Sockets, PumpThrows(s)
  PROVE  StreamInv'
<1>1. /\ TypeOK /\ TypeOK' /\ pc[s] \in {"Flush", "Read", "LastFlush"} /\ Goto(s, "Fail")
      /\ UNCHANGED <<scenario, mp_ConnectionGeneration, incoming, mp_State, handshake, net, owner>>
      /\ UNCHANGED <<received, sent, streaming, submitted>>
  BY PumpThrowsStep DEF PumpThrows, IndInv, ownVars, loopVars, dataVars
<1>2. mp_State[s] = "Handshake" /\ (s = Client => mp_ConnectionGeneration[Client] # 0)
  BY <1>1, PumpsInHandshake
<1>3. pc'[s] = "Fail" /\ \A t \in Sockets \ {s} : pc'[t] = pc[t]
  BY <1>1, GotoKeeps DEF Places
<1> QED  BY <1>1, <1>2, <1>3, GoStep DEF SameAttempt

LEMMA LeavesOnly ==
  ASSUME TypeOK, NEW s \in Sockets, NEW how \in {"Shut", "Closed"}, Leaves(s, how)
  PROVE  /\ net'[s] \in {net[s], "Shut", "Closed"}
         /\ \A t \in Sockets \ {s} : net'[t] = net[t]
BY DEF TypeOK, Leaves

LEMMA FailHandshakeStream ==
  ASSUME IndInv, StreamInv, NEW s \in Sockets, FailHandshake(s)
  PROVE  StreamInv'
<1>1. /\ TypeOK /\ TypeOK' /\ pc[s] = "Fail" /\ Leaves(s, "Shut") /\ Goto(s, "Idle")
      /\ mp_State' = [mp_State EXCEPT ![s] = "Disconnected"]
      /\ handshake' = [handshake EXCEPT ![s] = NoHandshake]
      /\ UNCHANGED <<scenario, mp_ConnectionGeneration, incoming, owner>>
      /\ UNCHANGED <<received, sent, streaming, submitted>>
  BY FailHandshakeStep DEF FailHandshake, IndInv, dataVars, Goto
<1>2. mp_State[s] = "Handshake" /\ (s = Client => mp_ConnectionGeneration[Client] # 0)
  BY <1>1, PumpsInHandshake
<1>3. pc'[s] = "Idle" /\ \A t \in Sockets \ {s} : pc'[t] = pc[t]
  BY <1>1, GotoKeeps DEF Places
<1>4. mp_State'[s] = "Disconnected" /\ \A t \in Sockets \ {s} : mp_State'[t] = mp_State[t]
  BY <1>1 DEF TypeOK
<1>5. handshake'[s] = NoHandshake /\ \A t \in Sockets \ {s} : handshake'[t] = handshake[t]
  BY <1>1 DEF TypeOK
<1>6. net'[s] \in {net[s], "Shut", "Closed"} /\ \A t \in Sockets \ {s} : net'[t] = net[t]
  BY <1>1, LeavesOnly
<1>7. Frames(s)' /\ ~Alive(s)'
  BY <1>4, <1>5, NoHandshakeType DEF Frames, Alive
<1> QED  BY <1>1, <1>2, <1>3, <1>4, <1>5, <1>6, <1>7, QuietStep DEF SameAttempt

\* A handshake that is done has read and written all of its frames.
LEMMA HandshakeDoneStream ==
  ASSUME IndInv, StreamInv, NEW s \in Sockets, HandshakeDone(s)
  PROVE  StreamInv'
<1>1. /\ TypeOK /\ TypeOK' /\ Streams(s)
      /\ pc[s] = "End" /\ handshake[s].stage = "Done" /\ handshake[s].out = <<>>
      /\ Goto(s, "Idle") \/ Goto(s, "Transfer")
      /\ mp_State' = [mp_State EXCEPT ![s] = "Done"]
      /\ handshake' = [handshake EXCEPT ![s] = NoHandshake]
      /\ UNCHANGED <<scenario, mp_ConnectionGeneration, incoming, net, owner>>
      /\ UNCHANGED <<received, sent, streaming, submitted>>
  BY HandshakeDoneStep DEF HandshakeDone, Running, Complete, IndInv, dataVars, StreamInv
<1>2. mp_State[s] = "Handshake" /\ (s = Client => mp_ConnectionGeneration[Client] # 0)
  BY <1>1, PumpsInHandshake
<1>3. pc'[s] \in {"Idle", "Transfer"} /\ \A t \in Sockets \ {s} : pc'[t] = pc[t]
  BY <1>1, GotoKeeps DEF Places
<1>4. mp_State'[s] = "Done" /\ \A t \in Sockets \ {s} : mp_State'[t] = mp_State[t]
  BY <1>1 DEF TypeOK
<1>5. handshake'[s] = NoHandshake /\ \A t \in Sockets \ {s} : handshake'[t] = handshake[t]
  BY <1>1 DEF TypeOK
<1>6. Frames(s)'
  BY <1>4, <1>5, NoHandshakeType DEF Frames
<1>7. ~streaming[s] /\ received[s] = <<>> /\ sent[s] = 0 /\ submitted[s] = <<>>
  BY <1>1, <1>2 DEF Streams, Payloads
<1>8. SameAttempt /\ PeerSize(s)' = PeerSize(s) /\ SignatureSize(s)' = SignatureSize(s)
  BY <1>1, SameEnds DEF SameAttempt
<1>9. PeerSize(s) \in Sizes /\ SignatureSize(s) \in Sizes
  BY <1>1, SizesAre
<1>10. HandshakeUnits(PeerSize(s)) \in Nat /\ HandshakeUnits(SignatureSize(s)) \in Nat
  BY <1>9, UnitsOf
<1>11. ReadUnits(s)' = ReadUnits(s)
  <2>1. ReadUnits(s) = HandshakeUnits(PeerSize(s))
    BY <1>1, <1>2, <1>10 DEF ReadUnits, StageUnits, Streams, Frames
  <2>2. Len(received'[s]) = 0
    BY <1>1, <1>7
  <2>3. ReadUnits(s)' = HandshakeUnits(PeerSize(s)) + 0
    BY <1>4, <1>8, <2>2 DEF ReadUnits
  <2> QED  BY <1>10, <2>1, <2>3
<1>12. Forwards(s, <<>>)
  <2>1. Pending(s) = <<>> /\ Pending(s)' = <<>>
    BY <1>1, <1>2, <1>4, <1>7 DEF Pending
  <2>2. QueuedUnits(s) = HandshakeUnits(SignatureSize(s))
    BY <1>1, <1>2 DEF QueuedUnits
  <2>3. QueuedUnits(s)' = HandshakeUnits(SignatureSize(s)) + 0
    BY <1>1, <1>4, <1>7, <1>8 DEF QueuedUnits
  <2> QED  BY <1>1, <1>10, <2>1, <2>2, <2>3, ForwardsNothing
<1>13. Alive(s)
  BY <1>1, <1>2 DEF Alive
<1> QED  BY <1>1, <1>2, <1>3, <1>4, <1>5, <1>6, <1>7, <1>8, <1>11, <1>12, <1>13, QuietStep

-----------------------------------------------------------------------------
(* The calls of the owner, and what it is told.                            *)

\* A handshake that starts has nothing but its hello to write.
LEMMA Started ==
  ASSUME TypeOK, TypeOK', NEW s \in Sockets, NEW connected, StartHandshake(s, connected)
  PROVE  /\ mp_State'[s] = "Handshake" /\ pc'[s] \in {"Flush", "Fail"}
         /\ handshake'[s].stage = "WaitHello" /\ handshake'[s].length = "None"
         /\ pc'[s] # "Fail" =>
              /\ handshake'[s].out \in Seq(Units) /\ Len(handshake'[s].out) = 2
              /\ \A c \in Sizes, g \in Nat : RunOf(c, g, 0, handshake'[s].out)
         /\ \A t \in Sockets \ {s} :
              mp_State'[t] = mp_State[t] /\ handshake'[t] = handshake[t] /\ pc'[t] = pc[t]
<1> DEFINE hello == Unit("Hello", Hello(s)', NoTranscript)
           next == [NoHandshake EXCEPT !.out = Frame(hello)]
<1>1. /\ mp_State' = [mp_State EXCEPT ![s] = "Handshake"]
      /\ \/ handshake' = [handshake EXCEPT ![s] = next] /\ pc' = [pc EXCEPT ![s] = "Flush"]
         \/ handshake' = [handshake EXCEPT ![s] = NoHandshake] /\ pc' = [pc EXCEPT ![s] = "Fail"]
  BY DEF StartHandshake
<1>2. /\ mp_State \in [Sockets -> States] /\ handshake \in [Sockets -> Handshakes]
      /\ pc \in [Sockets -> Places] /\ handshake'[s] \in Handshakes
  BY DEF TypeOK, States, Places
<1>3. Len(Frame(hello)) = 2 /\ \A c \in Sizes, g \in Nat : RunOf(c, g, 0, Frame(hello))
  <2>1. \A c \in Sizes, g \in Nat : RunOf(c, g, 0, Frame(hello)) /\ Len(Frame(hello)) = 2
    BY FrameRuns
  <2>2. 1 \in Sizes /\ 0 \in Nat
    BY DEF Sizes
  <2> QED  BY <2>1, <2>2
<1>4. next.stage = "WaitHello" /\ next.length = "None" /\ next.out = Frame(hello)
  BY DEF NoHandshake
<1>5. NoHandshake.stage = "WaitHello" /\ NoHandshake.length = "None"
  BY DEF NoHandshake
<1> HIDE DEF next, hello
<1>6. CASE handshake' = [handshake EXCEPT ![s] = next] /\ pc' = [pc EXCEPT ![s] = "Flush"]
  <2>1. handshake'[s] = next
    BY <1>2, <1>6
  <2>2. handshake'[s].out \in Seq(Units)
    BY <1>2 DEF Handshakes
  <2> QED  BY <1>1, <1>2, <1>3, <1>4, <1>6, <2>1, <2>2
<1>7. CASE handshake' = [handshake EXCEPT ![s] = NoHandshake] /\ pc' = [pc EXCEPT ![s] = "Fail"]
  BY <1>1, <1>2, <1>5, <1>7
<1> QED  BY <1>1, <1>6, <1>7

LEMMA StartStream ==
  ASSUME TypeOK, TypeOK', SameAttempt, NEW s \in Sockets, handshake[s] = NoHandshake,
         mp_State[s] \in {"None", "Connect"}, NEW connected, StartHandshake(s, connected)
  PROVE  /\ Frames(s)'
         /\ Alive(s)' => ReadUnits(s)' = ReadUnits(s) /\ Forwards(s, <<>>)
<1>1. /\ mp_State'[s] = "Handshake"
      /\ handshake'[s].stage = "WaitHello" /\ handshake'[s].length = "None"
      /\ pc'[s] # "Fail" =>
           /\ handshake'[s].out \in Seq(Units) /\ Len(handshake'[s].out) = 2
           /\ \A c \in Sizes, g \in Nat : RunOf(c, g, 0, handshake'[s].out)
  BY Started
<1>2. Frames(s)'
  BY <1>1 DEF Frames
<1>3. ASSUME Alive(s)'
      PROVE  ReadUnits(s)' = ReadUnits(s) /\ Forwards(s, <<>>)
  <2>1. /\ handshake'[s].out \in Seq(Units) /\ Len(handshake'[s].out) = 2
        /\ RunOf(SignatureSize(s), Attempt(s), 0, handshake'[s].out)
    <3>1. SignatureSize(s) \in Sizes /\ Attempt(s) \in Nat
      BY SizesAre, PeerHelloType, SocketsAre
    <3> QED  BY <1>1, <1>3, <3>1 DEF Alive
  <2>2. NoHandshake.stage = "WaitHello" /\ NoHandshake.length = "None" /\ NoHandshake.out = <<>>
    BY DEF NoHandshake
  <2>3. ReadUnits(s) = 0 /\ ReadUnits(s)' = 0
    BY <1>1, <2>2 DEF ReadUnits, StageUnits
  <2>4. Pending(s) = <<>> /\ Pending(s)' = handshake'[s].out
    BY <1>1, <2>2 DEF Pending
  <2>5. Pending(s)' = Pending(s) \o handshake'[s].out
    <3>1. <<>> \o handshake'[s].out = handshake'[s].out
      BY <2>1
    <3> QED  BY <2>4, <3>1
  <2>6. QueuedUnits(s) = 0 /\ QueuedUnits(s)' = 2
    BY <1>1, <2>2 DEF QueuedUnits
  <2>7. QueuedUnits(s)' = QueuedUnits(s) + Len(handshake'[s].out)
    BY <2>1, <2>6
  <2>8. RunOf(SignatureSize(s), Attempt(s), QueuedUnits(s), handshake'[s].out)
    BY <2>1, <2>6
  <2> QED  BY <2>1, <2>3, <2>5, <2>7, <2>8, ForwardsMore
<1> QED  BY <1>2, <1>3

LEMMA CallKeepsStreams ==
  ASSUME IndInv, NEW s \in Sockets, NEW flag, CallFor(s, flag), UNCHANGED mp_ConnectionGeneration
  PROVE  /\ SameAttempt /\ pc[s] = "Idle" /\ owner[s] = "Actor" /\ UNCHANGED <<net, owner>>
         /\ s = Client => mp_ConnectionGeneration[Client] # 0
         /\ UNCHANGED <<incoming, received, sent, streaming, submitted>>
<1>1. /\ SameAttempt /\ pc[s] = "Idle" /\ owner[s] = "Actor" /\ UNCHANGED <<net, owner>>
      /\ UNCHANGED <<incoming, received, sent, streaming, submitted>>
  BY DEF CallFor, Running, dataVars, SameAttempt
<1> QED  BY <1>1, OwnedIsUsed

LEMMA CallIdleStream ==
  ASSUME IndInv, StreamInv, NEW s \in Sockets, NEW flag, CallIdle(s, flag)
  PROVE  StreamInv'
<1>1. /\ CallFor(s, flag) /\ UNCHANGED <<mp_State, pc, mp_ConnectionGeneration>>
      /\ \/ UNCHANGED handshake
         \/ /\ mp_State[s] \in {"ShutdownSocket", "Disconnected"}
            /\ handshake' = [handshake EXCEPT ![s] = NoHandshake]
      /\ TypeOK /\ TypeOK'
  BY CallIdleStep DEF CallIdle, loopVars, IndInv
<1>2. /\ SameAttempt /\ pc[s] = "Idle" /\ owner[s] = "Actor" /\ UNCHANGED <<net, owner>>
      /\ s = Client => mp_ConnectionGeneration[Client] # 0
      /\ UNCHANGED <<incoming, received, sent, streaming, submitted>>
  BY <1>1, CallKeepsStreams
<1>3. CASE UNCHANGED handshake
  BY <1>1, <1>2, <1>3, GoStep
<1>4. CASE /\ mp_State[s] \in {"ShutdownSocket", "Disconnected"}
           /\ handshake' = [handshake EXCEPT ![s] = NoHandshake]
  <2>1. handshake'[s] = NoHandshake /\ \A t \in Sockets \ {s} : handshake'[t] = handshake[t]
    BY <1>1, <1>4 DEF TypeOK
  <2>2. Frames(s)' /\ ~Alive(s)'
    BY <1>1, <1>4, <2>1, NoHandshakeType DEF Frames, Alive
  <2> QED  BY <1>1, <1>2, <1>4, <2>1, <2>2, QuietStep
<1> QED  BY <1>1, <1>3, <1>4

LEMMA CallStartsHandshakeStream ==
  ASSUME IndInv, StreamInv, NEW s \in Sockets, NEW flag, CallStartsHandshake(s, flag)
  PROVE  StreamInv'
<1>1. /\ CallFor(s, flag) /\ UNCHANGED mp_ConnectionGeneration /\ mp_State[s] = "Connect"
      /\ StartHandshake(s, net[s] \in {"Open", "Shut"})
      /\ TypeOK /\ TypeOK' /\ Streams(s)
  BY CallStartsHandshakeStep DEF CallStartsHandshake, Calls, loopVars, IndInv, StreamInv
<1>2. /\ SameAttempt /\ pc[s] = "Idle" /\ UNCHANGED <<net, owner>>
      /\ s = Client => mp_ConnectionGeneration[Client] # 0
      /\ UNCHANGED <<incoming, received, sent, streaming, submitted>>
  BY <1>1, CallKeepsStreams
<1>3. handshake[s] = NoHandshake
  BY <1>1 DEF Streams, Frames
<1>4. /\ Frames(s)' /\ (Alive(s)' => ReadUnits(s)' = ReadUnits(s) /\ Forwards(s, <<>>))
  BY <1>1, <1>2, <1>3, StartStream
<1>5. /\ pc'[s] \in {"Flush", "Fail"}
      /\ \A t \in Sockets \ {s} :
           mp_State'[t] = mp_State[t] /\ handshake'[t] = handshake[t] /\ pc'[t] = pc[t]
  BY <1>1, Started
<1>6. Alive(s)
  BY <1>1, <1>2 DEF Alive
<1> QED  BY <1>1, <1>2, <1>4, <1>5, <1>6, QuietStep

LEMMA CallGoesStream ==
  ASSUME IndInv, StreamInv, NEW s \in Sockets, NEW flag,
         CallPumps(s, flag) \/ CallTransfers(s, flag)
  PROVE  StreamInv'
<1>1. /\ CallFor(s, flag) /\ UNCHANGED <<mp_ConnectionGeneration, mp_State, handshake>>
      /\ \/ Goto(s, "Flush") /\ mp_State[s] = "Handshake"
         \/ Goto(s, "Transfer") /\ mp_State[s] = "Done" /\ ~scenario.completion
      /\ TypeOK /\ TypeOK' /\ Streams(s)
  BY CallPumpsStep, CallTransfersStep DEF CallPumps, CallTransfers, Calls, loopVars, IndInv, StreamInv
<1>2. /\ SameAttempt /\ pc[s] = "Idle" /\ UNCHANGED <<net, owner>>
      /\ s = Client => mp_ConnectionGeneration[Client] # 0
      /\ UNCHANGED <<incoming, received, sent, streaming, submitted>>
  BY <1>1, CallKeepsStreams
<1>3. pc'[s] \in {"Flush", "Transfer"} /\ \A t \in Sockets \ {s} : pc'[t] = pc[t]
  BY <1>1, GotoKeeps DEF Places
<1>4. pc'[s] = "Transfer" => ~streaming[s]
  <2>1. Goto(s, "Flush") => pc'[s] = "Flush"
    BY <1>1, GotoKeeps DEF Places
  <2> QED  BY <1>1, <2>1 DEF Streams, Payloads
<1> QED  BY <1>1, <1>2, <1>3, <1>4, GoStep

LEMMA ShutdownStream ==
  ASSUME IndInv, StreamInv, NEW s \in Sockets, Shutdown(s)
  PROVE  StreamInv'
<1>1. /\ owner[s] = "Actor" /\ pc[s] = "Idle" /\ Leaves(s, "Shut")
      /\ UNCHANGED <<scenario, mp_ConnectionGeneration, handshake, pc, owner>>
      /\ UNCHANGED <<incoming, received, sent, streaming, submitted>>
      /\ \/ UNCHANGED mp_State
         \/ mp_State[s] # "Done" /\ mp_State' = [mp_State EXCEPT ![s] = "ShutdownSocket"]
      /\ TypeOK /\ TypeOK' /\ Streams(s)
  BY ShutdownStep DEF Shutdown, loopVars, dataVars, Running, IndInv, StreamInv
<1>2. net'[s] \in {net[s], "Shut", "Closed"} /\ \A t \in Sockets \ {s} : net'[t] = net[t]
  BY <1>1, LeavesOnly
<1>3. s = Client => mp_ConnectionGeneration[Client] # 0
  BY <1>1, OwnedIsUsed
<1>4. CASE UNCHANGED mp_State
  BY <1>1, <1>2, <1>3, <1>4, GoStep DEF SameAttempt
<1>5. CASE mp_State[s] # "Done" /\ mp_State' = [mp_State EXCEPT ![s] = "ShutdownSocket"]
  <2>1. mp_State'[s] = "ShutdownSocket" /\ \A t \in Sockets \ {s} : mp_State'[t] = mp_State[t]
    BY <1>1, <1>5 DEF TypeOK
  <2>2. Frames(s)' /\ ~Alive(s)'
    BY <1>1, <2>1 DEF Streams, Frames, Alive
  <2> QED  BY <1>1, <1>2, <1>3, <1>5, <2>1, <2>2, QuietStep DEF SameAttempt
<1> QED  BY <1>1, <1>4, <1>5

\* The owner closes or takes the socket.
LEMMA OwnerStream ==
  ASSUME IndInv, StreamInv, NEW s \in Sockets, Close(s) \/ HandOver(s)
  PROVE  StreamInv'
<1>1. /\ owner[s] # "None" /\ pc[s] = "Idle"
      /\ Leaves(s, "Closed") \/ UNCHANGED net
      /\ UNCHANGED <<scenario, mp_ConnectionGeneration, mp_State, handshake, pc>>
      /\ UNCHANGED <<incoming, received, sent, streaming, submitted>>
      /\ \A t \in Sockets \ {s} : owner'[t] = owner[t]
      /\ TypeOK /\ TypeOK'
  <2>1. owner \in [Sockets -> Owners] /\ TypeOK
    BY DEF IndInv, TypeOK, Owners
  <2>2. CASE Close(s)
    BY <2>1, <2>2, CloseStep DEF Close, ownVars, loopVars, dataVars, Running, IndInv
  <2>3. CASE HandOver(s)
    BY <2>1, <2>3, HandOverStep DEF HandOver, ownVars, dataVars, Running, IndInv
  <2> QED  BY <2>2, <2>3
<1>2. net'[s] \in {net[s], "Shut", "Closed"} /\ \A t \in Sockets \ {s} : net'[t] = net[t]
  BY <1>1, LeavesOnly
<1>3. s = Client => mp_ConnectionGeneration[Client] # 0
  BY <1>1, OwnedIsUsed
<1> QED  BY <1>1, <1>2, <1>3, GoStep DEF SameAttempt

\* The actor streams once the handshake is done.
LEMMA ActivateStream ==
  ASSUME IndInv, StreamInv, NEW s \in Sockets, Activate(s)
  PROVE  StreamInv'
<1>1. /\ owner[s] = "Actor" /\ pc[s] = "Idle" /\ mp_State[s] = "Done" /\ scenario.completion
      /\ streaming' = [streaming EXCEPT ![s] = TRUE]
      /\ UNCHANGED <<scenario, mp_ConnectionGeneration, mp_State, handshake, pc, net, owner>>
      /\ UNCHANGED <<incoming, received, sent, submitted>>
      /\ TypeOK /\ TypeOK' /\ Streams(s) /\ streaming \in [Sockets -> BOOLEAN]
  BY ActivateStep DEF Activate, SupportsCompletion, MayCall, ownVars, loopVars, IndInv, StreamInv
<1>2. SameAttempt /\ (s = Client => mp_ConnectionGeneration[Client] # 0)
  BY <1>1, OwnedIsUsed DEF SameAttempt
<1>3. streaming' \in [Sockets -> BOOLEAN] /\ \A t \in Sockets \ {s} : streaming'[t] = streaming[t]
  BY <1>1
<1>4. \A t \in Sockets \ {s} : Stays(t)
  BY <1>1, <1>3 DEF Stays
<1>5. ReadUnits(s)' = ReadUnits(s) /\ QueuedUnits(s)' = QueuedUnits(s) /\ Pending(s)' = Pending(s)
  BY <1>1, <1>2, SameEnds DEF ReadUnits, QueuedUnits, Pending
<1>6. Alive(s) /\ Got(s)' = Got(s) /\ Forwards(s, <<>>)
  BY <1>1, <1>5, ForwardsNothing DEF Alive, Got
<1>7. ReadInOrder(s)' /\ Payloads(s)'
  <2>1. ReadInOrder(s)'
    BY <1>1, <1>2, SameEnds DEF Streams, ReadInOrder
  <2>2. Payloads(s)'
    BY <1>1 DEF Payloads
  <2> QED  BY <2>1, <2>2
<1>8. Frames(s)' /\ Arrivals(s)'
  <2>1. Frames(s)'
    BY <1>1, <1>2, <1>5, SameEnds DEF Streams, Frames
  <2>2. Arrivals(s)'
    BY <1>1, <1>2, <1>5, <1>6, SameEnds DEF Streams, Arrivals
  <2> QED  BY <2>1, <2>2
<1> QED  BY <1>1, <1>2, <1>3, <1>4, <1>6, <1>7, <1>8, OwnStep DEF Streams

-----------------------------------------------------------------------------
(* The streams under the payload.                                          *)

\* What had arrived at s is the payload of its peer that follows what it read.
LEMMA ReadPayloadStream ==
  ASSUME IndInv, TypeOK', StreamInv, NEW s \in Sockets, mp_State[s] = "Done",
         s = Client => mp_ConnectionGeneration[Client] # 0,
         Transferring, Take(s, Len(incoming[s])),
         received' = [received EXCEPT ![s] = received[s] \o incoming[s]],
         UNCHANGED <<sent, streaming, submitted>>, Goto(s, "Idle") \/ UNCHANGED pc
  PROVE  StreamInv'
<1>1. /\ TypeOK /\ Streams(s) /\ SameAttempt /\ UNCHANGED <<mp_State, handshake, net, owner>>
      /\ streaming \in [Sockets -> BOOLEAN] /\ Calling(s)
  BY DEF IndInv, StreamInv, SameAttempt, Transferring, SocketInv
<1>2. /\ pc'[s] \in {pc[s], "Idle"} /\ \A t \in Sockets \ {s} : pc'[t] = pc[t]
  BY <1>1, GotoKeeps DEF Places
<1>3. Alive(s)
  BY <1>1 DEF Calling, Alive
<1>4. /\ received[s] \in Seq(Units) /\ Len(received[s]) \in Nat
      /\ incoming[s] \in Seq(Units) /\ Len(incoming[s]) \in Nat
      /\ received \in [Sockets -> Seq(Units)]
  <2>1. received \in [Sockets -> Seq(Units)]
    BY <1>1 DEF TypeOK
  <2>2. received[s] \in Seq(Units)
    BY <2>1
  <2>3. Len(received[s]) \in Nat
    BY <2>2
  <2> QED  BY <1>1, <2>1, <2>2, <2>3, SizesAre
<1>5. /\ \A t \in Sockets \ {s} : incoming'[t] = incoming[t]
      /\ incoming'[s] = RestOf(incoming[s], Len(incoming[s]))
  BY <1>1, <1>4, TakeKeeps DEF RestOf
<1>6. received'[s] = received[s] \o incoming[s] /\ \A t \in Sockets \ {s} : received'[t] = received[t]
  BY <1>4
<1>7. /\ Len(received'[s]) = Len(received[s]) + Len(incoming[s])
      /\ \A i \in 1 .. Len(received[s]) : received'[s][i] = received[s][i]
      /\ \A i \in Len(received[s]) + 1 .. Len(received[s]) + Len(incoming[s]) :
           received'[s][i] = incoming[s][i - Len(received[s])]
      /\ DOMAIN received'[s] = 1 .. Len(received[s]) + Len(incoming[s])
  BY <1>4, <1>6, ConcatProperties
<1>8. PeerSize(s) \in Sizes /\ HandshakeUnits(PeerSize(s)) \in Nat
  BY <1>1, SizesAre, UnitsOf
<1>9. /\ ReadUnits(s) = HandshakeUnits(PeerSize(s)) + Len(received[s])
      /\ ReadUnits(s)' = ReadUnits(s) + Len(incoming[s])
  <2>1. ReadUnits(s) = HandshakeUnits(PeerSize(s)) + Len(received[s])
    BY DEF ReadUnits
  <2>2. ReadUnits(s)' = HandshakeUnits(PeerSize(s)) + Len(received'[s])
    BY <1>1, SameEnds DEF ReadUnits
  <2> QED  BY <1>4, <1>7, <1>8, <2>1, <2>2
<1>10. Arrivals(s)' /\ Got(s)' = Got(s)
  BY <1>1, <1>3, <1>4, <1>5, <1>9, ReadsRun
<1>11. ReadInOrder(s)'
  <2>1. Attempt(s)' = Attempt(s)
    BY <1>1, SameEnds
  <2> SUFFICES ASSUME NEW i \in 1 .. Len(received[s]) + Len(incoming[s])
               PROVE  /\ received'[s][i].kind = "Data"
                      /\ received'[s][i].hello.attempt = Attempt(s)
                      /\ received'[s][i].transcript = <<i>>
    BY <1>7, <2>1 DEF ReadInOrder
  <2>2. CASE i <= Len(received[s])
    <3>1. i \in DOMAIN received[s] /\ received'[s][i] = received[s][i]
      BY <1>4, <1>7, <2>2
    <3> QED  BY <1>1, <3>1 DEF Streams, ReadInOrder
  <2>3. CASE i > Len(received[s])
    <3>1. PICK j \in 1 .. Len(incoming[s]) : j = i - Len(received[s])
      BY <1>4, <2>3
    <3>2. received'[s][i] = incoming[s][j]
      BY <1>4, <1>7, <2>3, <3>1
    <3>3. At(PeerSize(s), Attempt(s), ReadUnits(s) + j, incoming[s][j])
      BY <1>1, <1>3, <3>1 DEF Streams, Arrivals, RunOf
    <3>4. /\ ReadUnits(s) + j \in Nat
          /\ ReadUnits(s) + j > HandshakeUnits(PeerSize(s))
          /\ (ReadUnits(s) + j) - HandshakeUnits(PeerSize(s)) = i
      BY <1>4, <1>8, <1>9, <3>1
    <3>5. KindAt(PeerSize(s), ReadUnits(s) + j) = "Data"
      BY <1>8, <3>4, KindsAre
    <3> QED  BY <3>2, <3>3, <3>4, <3>5 DEF At
  <2> QED  BY <1>4, <2>2, <2>3
<1>12. Payloads(s)'
  BY <1>1, <1>2 DEF Streams, Payloads, Transferring
<1>13. Frames(s)'
  BY <1>1 DEF Streams, Frames
<1>14. Forwards(s, <<>>)
  <2>1. Pending(s)' = Pending(s) /\ QueuedUnits(s)' = QueuedUnits(s)
    BY <1>1, SameEnds DEF Pending, QueuedUnits
  <2> QED  BY <1>1, <2>1, ForwardsNothing
<1>15. \A t \in Sockets \ {s} : Stays(t)
  BY <1>1, <1>2, <1>6 DEF Stays
<1> QED  BY <1>1, <1>3, <1>5, <1>10, <1>11, <1>12, <1>13, <1>14, <1>15, OwnStep DEF Streams

LEMMA ReceiveStream ==
  ASSUME IndInv, StreamInv, NEW s \in Sockets, ReceivePayload(s) \/ ReceiveSegment(s)
  PROVE  StreamInv'
<1>1. TypeOK' /\ Streams(s) /\ Calling(s)
  BY ReceivePayloadStep, ReceiveSegmentStep DEF IndInv, StreamInv, SocketInv
<1>2. CASE ReceivePayload(s)
  <2>1. /\ Transferring /\ Take(s, Len(incoming[s])) /\ Goto(s, "Idle")
        /\ received' = [received EXCEPT ![s] = received[s] \o incoming[s]]
        /\ UNCHANGED <<sent, streaming, submitted>> /\ pc[s] = "Transfer"
    BY <1>2 DEF ReceivePayload, TransferKeeps, Transferring, ownVars, Running
  <2>2. mp_State[s] = "Done" /\ (s = Client => mp_ConnectionGeneration[Client] # 0)
    BY <1>1, <2>1 DEF Calling, IndInv, Unused
  <2> QED  BY <1>1, <2>1, <2>2, ReadPayloadStream
<1>3. CASE ReceiveSegment(s)
  <2>1. /\ Transferring /\ Take(s, Len(incoming[s])) /\ UNCHANGED pc
        /\ received' = [received EXCEPT ![s] = received[s] \o incoming[s]]
        /\ UNCHANGED <<sent, streaming, submitted>> /\ owner[s] = "Actor" /\ streaming[s]
    BY <1>3 DEF ReceiveSegment, StreamKeeps, Transferring, ownVars
  <2>2. mp_State[s] = "Done"
    BY <1>1, <2>1 DEF Streams, Payloads
  <2> QED  BY <1>1, <2>1, <2>2, OwnedIsUsed, ReadPayloadStream
<1> QED  BY <1>2, <1>3

\* Payload s writes to its peer, or has the kernel write.
LEMMA WritePayloadStream ==
  ASSUME IndInv, TypeOK', StreamInv, NEW s \in Sockets, mp_State[s] = "Done",
         s = Client => mp_ConnectionGeneration[Client] # 0,
         Transferring, UNCHANGED <<received, streaming>>, Goto(s, "Idle") \/ UNCHANGED pc,
         NEW written \in Seq(Units), written # <<>> => HasPeer(s),
         \A t \in Sockets \ {Peer(s)} : incoming'[t] = incoming[t],
         incoming'[Peer(s)] = incoming[Peer(s)] \o written,
         \A t \in Sockets \ {s} : sent'[t] = sent[t] /\ submitted'[t] = submitted[t],
         ~streaming[s] => submitted'[s] = <<>>,
         Forwards(s, written)
  PROVE  StreamInv'
<1>1. /\ TypeOK /\ Streams(s) /\ SameAttempt /\ UNCHANGED <<mp_State, handshake, net, owner>>
      /\ streaming \in [Sockets -> BOOLEAN] /\ Calling(s)
  BY DEF IndInv, StreamInv, SameAttempt, Transferring, SocketInv
<1>2. /\ pc'[s] \in {pc[s], "Idle"} /\ \A t \in Sockets \ {s} : pc'[t] = pc[t]
  BY <1>1, GotoKeeps DEF Places
<1>3. Alive(s) /\ Alive(s)'
  BY <1>1, <1>2 DEF Calling, Alive
<1>4. Peer(s) \in Sockets /\ Peer(s) # s
  BY <1>1, PairIs
<1>5. incoming'[s] = incoming[s]
  BY <1>4
<1>6. ReadUnits(s)' = ReadUnits(s)
  BY <1>1, SameEnds DEF ReadUnits
<1>7. Got(s)' = Got(s)
  BY <1>5, <1>6 DEF Got
<1>8. Streams(s)'
  <2>1. ReadInOrder(s)'
    BY <1>1, SameEnds DEF Streams, ReadInOrder
  <2>2. Payloads(s)'
    BY <1>1, <1>2 DEF Streams, Payloads, Transferring
  <2>3. Frames(s)'
    BY <1>1 DEF Streams, Frames
  <2>4. Arrivals(s)'
    BY <1>1, <1>3, <1>5, <1>6, SameEnds DEF Streams, Arrivals
  <2> QED  BY <2>1, <2>2, <2>3, <2>4 DEF Streams
<1>9. \A t \in Sockets \ {s} : Stays(t)
  BY <1>1, <1>2 DEF Stays
<1>10. Unaccepted'
  <2>1. \A t \in Sockets \ {s} : incoming'[t] # incoming[t] => t = Peer(s) /\ HasPeer(s)
    <3>1. CASE written = <<>>
      <4>1. incoming[Peer(s)] \in Seq(Units)
        BY <1>1, <1>4, SizesAre
      <4>2. incoming[Peer(s)] \o written = incoming[Peer(s)]
        BY <3>1, <4>1
      <4> QED  BY <4>2
    <3>2. CASE written # <<>>
      BY <3>2
    <3> QED  BY <3>1, <3>2
  <2> QED  BY <1>1, <2>1, UnacceptedKept
<1>11. written # <<>> => Linked(s)
  BY DEF HasPeer
<1>12. \A t \in Sockets : t # s /\ t # Peer(s) => incoming'[t] = incoming[t]
  OBVIOUS
<1> QED  BY <1>1, <1>3, <1>7, <1>8, <1>9, <1>10, <1>11, <1>12, StreamStep

LEMMA SendPayloadStream ==
  ASSUME IndInv, StreamInv, NEW s \in Sockets, SendPayload(s)
  PROVE  StreamInv'
<1> DEFINE queued == Payload - sent[s]
           n == IF ~HasPeer(s) THEN 0 ELSE IF queued < Space(s) THEN queued ELSE Space(s)
<1>1. /\ Transferring /\ Goto(s, "Idle") /\ pc[s] = "Transfer"
      /\ UNCHANGED <<received, submitted, streaming>>
      /\ IF HasPeer(s) THEN Write(s, Data(s, n)) ELSE UNCHANGED incoming
      /\ sent' = [sent EXCEPT ![s] = sent[s] + n]
  BY DEF SendPayload, TransferKeeps, Transferring, ownVars, Running
<1>2. /\ TypeOK /\ TypeOK' /\ sent \in [Sockets -> 0 .. Payload] /\ Payload \in Nat
      /\ Space(s) \in Nat /\ Streams(s) /\ Calling(s)
  BY SendPayloadStep, BoundsAre, SpaceIsNat DEF IndInv, TypeOK, StreamInv, SocketInv
<1>3. mp_State[s] = "Done" /\ (s = Client => mp_ConnectionGeneration[Client] # 0)
  BY <1>1, <1>2 DEF Calling, IndInv, Unused
<1>4. ~streaming[s] /\ submitted[s] = <<>> /\ Peer(s) \in Sockets /\ Peer(s) # s
  BY <1>1, <1>2, <1>3, PairIs DEF Streams, Payloads
<1>5. n \in Nat /\ n <= queued /\ (HasPeer(s) => n <= Space(s)) /\ (~HasPeer(s) => n = 0)
  BY <1>2
<1> HIDE DEF n
<1> DEFINE written == Data(s, n)
<1>6. written \in Seq(Units) /\ Len(written) = n
  <2>1. written \in Seq(DataUnits) /\ Len(written) = n
    BY <1>2, <1>5, DataType
  <2> QED  BY <2>1, DataOffered, SeqMono
<1>7. SignatureSize(s) \in Sizes /\ HandshakeUnits(SignatureSize(s)) \in Nat
  BY <1>2, SizesAre, UnitsOf
<1>8. RunOf(SignatureSize(s), Attempt(s), HandshakeUnits(SignatureSize(s)) + sent[s], written)
  BY <1>2, <1>5, <1>7, DataRun
<1> HIDE DEF written
<1>9. ~HasPeer(s) => written = <<>>
  BY <1>5, <1>6
<1>10. /\ \A t \in Sockets \ {Peer(s)} : incoming'[t] = incoming[t]
       /\ incoming'[Peer(s)] = incoming[Peer(s)] \o written
  <2>1. CASE HasPeer(s)
    <3>1. Write(s, written)
      BY <1>1, <2>1 DEF written
    <3> QED  BY <1>2, <1>5, <1>6, <2>1, <3>1, WriteKeeps
  <2>2. CASE ~HasPeer(s)
    <3>1. incoming[Peer(s)] \in Seq(Units)
      BY <1>2, <1>4, SizesAre
    <3>2. incoming[Peer(s)] \o written = incoming[Peer(s)]
      BY <1>9, <2>2, <3>1
    <3> QED  BY <1>1, <2>2, <3>2
  <2> QED  BY <2>1, <2>2
<1>11. sent'[s] = sent[s] + n /\ \A t \in Sockets \ {s} : sent'[t] = sent[t]
  BY <1>1, <1>2
<1>12. Forwards(s, written)
  <2>1. SignatureSize(s)' = SignatureSize(s) /\ UNCHANGED mp_State
    BY <1>1, SameEnds DEF SameAttempt, Transferring
  <2>2. Pending(s) = <<>> /\ Pending(s)' = <<>>
    BY <1>1, <1>3, <1>4, <2>1 DEF Pending
  <2>3. QueuedUnits(s) = HandshakeUnits(SignatureSize(s)) + sent[s]
    BY <1>3 DEF QueuedUnits
  <2>4. QueuedUnits(s)' = HandshakeUnits(SignatureSize(s)) + sent'[s]
    BY <1>3, <2>1 DEF QueuedUnits
  <2>5. QueuedUnits(s)' = QueuedUnits(s) + Len(written)
    BY <1>2, <1>5, <1>6, <1>7, <1>11, <2>3, <2>4
  <2> QED  BY <1>2, <1>6, <1>8, <2>2, <2>3, <2>5, ForwardsDirectly
<1> QED  BY <1>1, <1>2, <1>3, <1>4, <1>6, <1>9, <1>10, <1>11, <1>12, WritePayloadStream

LEMMA SubmitSendStream ==
  ASSUME IndInv, StreamInv, NEW s \in Sockets, SubmitSend(s)
  PROVE  StreamInv'
<1> DEFINE data == Data(s, Payload - sent[s])
<1>1. /\ Transferring /\ UNCHANGED <<incoming, received, streaming, pc>> /\ owner[s] = "Actor"
      /\ sent[s] < Payload /\ mp_State[s] = "Done" /\ streaming[s]
      /\ submitted' = [submitted EXCEPT ![s] = submitted[s] \o data]
      /\ sent' = [sent EXCEPT ![s] = Payload]
  BY DEF SubmitSend, Transferring, ownVars, loopVars
<1>2. /\ TypeOK /\ TypeOK' /\ sent \in [Sockets -> 0 .. Payload] /\ Payload \in Nat
      /\ submitted \in [Sockets -> Seq(Units)]
  BY SubmitSendStep, BoundsAre DEF IndInv, TypeOK
<1>3. s = Client => mp_ConnectionGeneration[Client] # 0
  BY <1>1, OwnedIsUsed
<1>4. Peer(s) \in Sockets /\ Peer(s) # s
  BY <1>2, <1>3, PairIs
<1>5. Payload - sent[s] \in Nat /\ sent[s] \in Nat
  BY <1>1, <1>2
<1>6. data \in Seq(Units) /\ Len(data) = Payload - sent[s]
  <2>1. data \in Seq(DataUnits) /\ Len(data) = Payload - sent[s]
    BY <1>2, <1>5, DataType
  <2> QED  BY <2>1, DataOffered, SeqMono
<1>7. SignatureSize(s) \in Sizes /\ HandshakeUnits(SignatureSize(s)) \in Nat
  BY <1>2, SizesAre, UnitsOf
<1>8. RunOf(SignatureSize(s), Attempt(s), HandshakeUnits(SignatureSize(s)) + sent[s], data)
  BY <1>2, <1>5, <1>7, DataRun
<1> HIDE DEF data
<1>9. /\ submitted'[s] = submitted[s] \o data /\ sent'[s] = Payload
      /\ \A t \in Sockets \ {s} : sent'[t] = sent[t] /\ submitted'[t] = submitted[t]
  BY <1>1, <1>2
<1>10. Forwards(s, <<>>)
  <2>1. SignatureSize(s)' = SignatureSize(s) /\ UNCHANGED mp_State
    BY <1>1, SameEnds DEF SameAttempt, Transferring
  <2>2. Pending(s)' = Pending(s) \o data
    BY <1>1, <1>9, <2>1 DEF Pending
  <2>3. QueuedUnits(s) = HandshakeUnits(SignatureSize(s)) + sent[s]
    BY <1>1 DEF QueuedUnits
  <2>4. QueuedUnits(s)' = HandshakeUnits(SignatureSize(s)) + Payload
    BY <1>1, <1>9, <2>1 DEF QueuedUnits
  <2>5. QueuedUnits(s)' = QueuedUnits(s) + Len(data)
    BY <1>2, <1>5, <1>6, <1>7, <2>3, <2>4
  <2> QED  BY <1>2, <1>6, <1>8, <2>2, <2>3, <2>5, ForwardsMore
<1>11. incoming'[Peer(s)] = incoming[Peer(s)] \o <<>>
  <2>1. incoming[Peer(s)] \in Seq(Units)
    BY <1>2, <1>4, SizesAre
  <2>2. incoming[Peer(s)] \o <<>> = incoming[Peer(s)]
    BY <2>1
  <2> QED  BY <1>1, <2>2
<1>12. <<>> \in Seq(Units)
  OBVIOUS
<1> QED  BY <1>1, <1>2, <1>3, <1>9, <1>10, <1>11, <1>12, WritePayloadStream

LEMMA KernelWritesStream ==
  ASSUME IndInv, StreamInv, NEW s \in Sockets, KernelWrites(s)
  PROVE  StreamInv'
<1> DEFINE q == submitted[s]
           n == IF Len(q) < Space(s) THEN Len(q) ELSE Space(s)
<1>1. /\ Transferring /\ UNCHANGED <<received, streaming, pc, sent>> /\ HasPeer(s) /\ q # <<>>
      /\ Write(s, FirstOf(q, n))
      /\ submitted' = [submitted EXCEPT ![s] = RestOf(q, n)]
  BY DEF KernelWrites, StreamKeeps, Transferring, ownVars, FirstOf, RestOf
<1>2. /\ TypeOK /\ TypeOK' /\ Space(s) \in Nat /\ Streams(s)
      /\ submitted \in [Sockets -> Seq(Units)]
  BY KernelWritesStep, SpaceIsNat DEF IndInv, TypeOK, StreamInv
<1>3. q \in Seq(Units) /\ Len(q) \in Nat
  BY <1>2
<1>4. n \in Nat /\ n <= Len(q) /\ n <= Space(s)
  BY <1>2, <1>3
<1> HIDE DEF n
<1>5. mp_State[s] = "Done" /\ streaming[s]
  BY <1>1, <1>2 DEF Streams, Payloads
<1>6. s = Client => mp_ConnectionGeneration[Client] # 0
  BY <1>1 DEF IndInv, Unused
<1> DEFINE first == FirstOf(q, n)
<1>7. first \in Seq(Units) /\ Len(first) = n
  <2>1. first \in Seq(Units)
    BY <1>3, <1>4, SeqPart DEF FirstOf
  <2> QED  BY <1>3, <1>4, <2>1, FirstIs
<1> HIDE DEF first
<1>8. /\ \A t \in Sockets \ {Peer(s)} : incoming'[t] = incoming[t]
      /\ incoming'[Peer(s)] = incoming[Peer(s)] \o first
  <2>1. Write(s, first)
    BY <1>1 DEF first
  <2> QED  BY <1>2, <1>4, <1>7, <2>1, WriteKeeps
<1>9. /\ submitted'[s] = RestOf(q, n)
      /\ \A t \in Sockets \ {s} : sent'[t] = sent[t] /\ submitted'[t] = submitted[t]
  BY <1>1, <1>2
<1>10. Forwards(s, first)
  <2>1. SignatureSize(s)' = SignatureSize(s) /\ UNCHANGED mp_State
    BY <1>1, SameEnds DEF SameAttempt, Transferring
  <2>2. Pending(s) = q /\ Pending(s)' = RestOf(Pending(s), n)
    BY <1>5, <1>9, <2>1 DEF Pending
  <2>3. QueuedUnits(s)' = QueuedUnits(s)
    BY <1>1, <1>5, <2>1 DEF QueuedUnits
  <2> QED  BY <1>2, <1>4, <2>2, <2>3, ForwardsFirst DEF first
<1> QED  BY <1>1, <1>2, <1>5, <1>6, <1>7, <1>8, <1>9, <1>10, WritePayloadStream

-----------------------------------------------------------------------------
(* The streams under the loop and the platform.                            *)

LEMMA AllStay ==
  ASSUME IndInv, StreamInv, SameAttempt, \A t \in Sockets : Stays(t),
         UNCHANGED <<incoming, streaming>>, Unaccepted'
  PROVE  StreamInv'
<1>1. \A t \in Sockets : Streams(t)'
  <2> TAKE t \in Sockets
  <2>1. Stays(t) /\ Streams(t)
    BY DEF StreamInv
  <2>2. Alive(t) => RunOf(PeerSize(t), Attempt(t), ReadUnits(t), incoming'[t])
    BY <2>1 DEF Streams, Arrivals
  <2> QED  BY <2>1, <2>2, StreamsStay
<1>2. Flows'
  <2> SUFFICES ASSUME mp_ConnectionGeneration'[Client] # 0
               PROVE  Flow(Client, Peer(Client))' /\ Flow(Peer(Client), Client)'
    BY DEF Flows
  <2>1. PICK p \in Sockets : p = Peer(Client)
    BY SocketsAre, PeerHelloType DEF IndInv
  <2>2. Client \in Sockets /\ Peer(Client)' = p
    BY <2>1, SocketsAre, SameEnds
  <2>3. Stays(Client) /\ Stays(p)
    BY <2>1, <2>2
  <2>4. /\ Got(Client)' = Got(Client) /\ Got(p)' = Got(p)
        /\ Pending(Client)' = Pending(Client) /\ Pending(p)' = Pending(p)
        /\ QueuedUnits(Client)' = QueuedUnits(Client) /\ QueuedUnits(p)' = QueuedUnits(p)
        /\ Alive(Client)' => Alive(Client)
        /\ Alive(p)' => Alive(p)
    BY <2>2, <2>3, StaysSame DEF Got
  <2>5. /\ SignatureSize(Client)' = SignatureSize(Client) /\ SignatureSize(p)' = SignatureSize(p)
        /\ Attempt(Client)' = Attempt(Client) /\ Attempt(p)' = Attempt(p)
    BY <2>2, SameEnds
  <2>6. Flow(Client, p) /\ Flow(p, Client)
    BY <2>1 DEF StreamInv, Flows, SameAttempt
  <2>7. Flow(Client, p)' /\ Flow(p, Client)'
    BY <2>4, <2>5, <2>6 DEF Flow
  <2> QED  BY <2>2, <2>7 DEF Flow
<1> QED  BY <1>1, <1>2 DEF StreamInv

LEMMA UnacceptedStays ==
  ASSUME TypeOK, Unaccepted, SameAttempt, UNCHANGED <<mp_State, incoming>>,
         \A t \in Sockets : owner[t] = "None" => owner'[t] = "None",
         \A t \in Attempts : net'[t] = net[t],
         net'[Client] \in {net[Client], "Closed"}
  PROVE  Unaccepted'
<1>1. Client \in Sockets /\ Attempts \subseteq Sockets
  BY SocketsAre
<1>2. \A t \in Attempts : Fresh(t) => Fresh(t)'
  BY <1>1 DEF Fresh
<1>3. /\ net'[Client] # "Backlog"
      /\ \A t \in Attempts :
           /\ t > mp_ConnectionGeneration'[Client] => Fresh(t)'
           /\ net'[t] = "Backlog" => mp_State'[t] = "None" /\ owner'[t] = "None"
  BY <1>1, <1>2 DEF Unaccepted, SameAttempt
<1>4. ASSUME net'[Client] = "Connecting"
      PROVE  mp_ConnectionGeneration'[Client] # 0 /\ Fresh(Peer(Client))'
  <2>1. mp_ConnectionGeneration[Client] # 0 /\ Fresh(Peer(Client))
    BY <1>4 DEF Unaccepted
  <2>2. PICK p \in Attempts : p = Peer(Client)
    <3>1. Peer(Client) \in Sockets /\ Peer(Client) # Client
      BY <1>1, <2>1, PairIs
    <3> QED  BY <3>1 DEF Sockets
  <2>3. Fresh(p)' /\ Peer(Client)' = p
    BY <1>1, <1>2, <2>1, <2>2, SameEnds
  <2> QED  BY <2>1, <2>3 DEF SameAttempt, Fresh
<1> QED  BY <1>3, <1>4 DEF Unaccepted

LEMMA UnchangedStream ==
  ASSUME IndInv, StreamInv, UNCHANGED vars
  PROVE  StreamInv'
<1>1. /\ SameAttempt /\ UNCHANGED <<mp_State, incoming, streaming, owner, net>>
      /\ \A t \in Sockets : Stays(t)
  BY DEF vars, ownVars, loopVars, dataVars, SameAttempt, Stays
<1>2. Unaccepted'
  BY <1>1, UnacceptedStays DEF IndInv, StreamInv
<1> QED  BY <1>1, <1>2, AllStay

LEMMA DeliverStream ==
  ASSUME IndInv, StreamInv, NEW s \in Sockets, Deliver(s)
  PROVE  StreamInv'
<1>1. /\ SameAttempt /\ UNCHANGED <<mp_State, incoming, streaming, net>>
      /\ \A t \in Sockets : Stays(t)
  BY DEF Deliver, ownVars, dataVars, SameAttempt, Stays
<1>2. \A t \in Sockets : owner[t] = "None" => owner'[t] = "None"
  <2>1. PICK e \in edges[s] :
          \/ UNCHANGED owner
          \/ owner' = [owner EXCEPT ![s] =
               IF owner[s] = "Connecting" /\ e[2] = "Connected" THEN "Connected" ELSE owner[s]]
    BY DEF Deliver
  <2>2. owner \in [Sockets -> Owners]
    BY DEF IndInv, TypeOK, Owners
  <2> QED  BY <2>1, <2>2
<1>3. Unaccepted'
  BY <1>1, <1>2, UnacceptedStays DEF IndInv, StreamInv
<1> QED  BY <1>1, <1>3, AllStay

LEMMA ConnectingStream ==
  ASSUME IndInv, StreamInv, TransportConnects \/ TransportRefused
  PROVE  StreamInv'
<1>1. /\ SameAttempt /\ UNCHANGED <<mp_State, incoming, streaming, owner>>
      /\ \A t \in Sockets : Stays(t)
      /\ net[Client] = "Connecting"
  BY DEF TransportConnects, TransportRefused, Connecting, ownVars, loopVars, dataVars, SameAttempt,
         Stays
<1>2. /\ TypeOK /\ Unaccepted /\ Client \in Sockets /\ Attempts \subseteq Sockets
      /\ Client \notin Attempts
  BY SocketsAre DEF IndInv, StreamInv
<1>3. net \in [Sockets -> Nets]
  BY <1>2 DEF TypeOK, Nets
<1>4. CASE TransportRefused
  <2>1. net'[Client] = "Closed" /\ \A t \in Attempts : net'[t] = net[t]
    BY <1>2, <1>3, <1>4 DEF TransportRefused
  <2>2. Unaccepted'
    BY <1>1, <1>2, <2>1, UnacceptedStays
  <2> QED  BY <1>1, <2>2, AllStay
<1>5. CASE TransportConnects
  <2>1. PICK p \in Attempts : p = mp_ConnectionGeneration[Client]
    <3>1. mp_ConnectionGeneration[Client] # 0 /\ mp_ConnectionGeneration[Client] \in Sockets
      BY <1>1, <1>2 DEF Unaccepted, TypeOK
    <3> QED  BY <3>1 DEF Sockets, Client
  <2>2. Fresh(p)
    BY <1>1, <1>2, <2>1 DEF Unaccepted, Peer
  <2>3. net' = [net EXCEPT ![Client] = "Open", ![p] = "Backlog"]
    BY <1>5, <2>1 DEF TransportConnects
  <2>4. /\ net'[Client] = "Open" /\ net'[p] = "Backlog"
        /\ \A t \in Attempts \ {p} : net'[t] = net[t]
    BY <1>2, <1>3, <2>3
  <2>5. p \in Nat /\ ~(p > mp_ConnectionGeneration'[Client])
    BY <1>1, <2>1 DEF Attempts, SameAttempt
  <2>6. ASSUME NEW t \in Attempts
        PROVE  /\ t > mp_ConnectionGeneration'[Client] => Fresh(t)'
               /\ net'[t] = "Backlog" => mp_State'[t] = "None" /\ owner'[t] = "None"
    <3>1. CASE t = p
      BY <1>1, <2>2, <2>5, <3>1 DEF Fresh
    <3>2. CASE t # p
      <4>1. t > mp_ConnectionGeneration[Client] => Fresh(t)
        BY <1>2 DEF Unaccepted
      <4>2. net[t] = "Backlog" => mp_State[t] = "None" /\ owner[t] = "None"
        BY <1>2 DEF Unaccepted
      <4> QED  BY <1>1, <2>4, <3>2, <4>1, <4>2 DEF Fresh, SameAttempt
    <3> QED  BY <3>1, <3>2
  <2>7. Unaccepted'
    BY <2>4, <2>6 DEF Unaccepted
  <2> QED  BY <1>1, <2>7, AllStay
<1> QED  BY <1>4, <1>5

LEMMA AcceptStream ==
  ASSUME IndInv, StreamInv, NEW s \in Attempts, Accept(s) \/ AdoptSocket(s)
  PROVE  StreamInv'
<1>1. /\ net[s] = "Backlog" /\ pc[s] = "Idle"
      /\ net' = [net EXCEPT ![s] = "Open"] /\ owner' = [owner EXCEPT ![s] = "Accepted"]
      /\ StartHandshake(s, TRUE)
      /\ UNCHANGED <<scenario, incoming, sent, received, streaming, submitted>>
  BY DEF Accept, AdoptSocket, TakeConnection, MayCall, dataVars
<1>2. /\ s \in Sockets /\ s # Client /\ Client \in Sockets /\ Attempts \subseteq Sockets
      /\ Peer(s) = Client
  BY SocketsAre DEF Peer
<1>3. TypeOK /\ TypeOK' /\ Streams(s) /\ Unaccepted /\ streaming \in [Sockets -> BOOLEAN]
  BY <1>2, AcceptStep DEF IndInv, StreamInv
<1>4. SameAttempt
  <2>1. mp_ConnectionGeneration \in [Sockets -> Nat]
    BY <1>3 DEF TypeOK
  <2>2. CASE Accept(s)
    BY <1>1, <2>2 DEF Accept, SameAttempt
  <2>3. CASE AdoptSocket(s)
    BY <1>1, <1>2, <2>1, <2>3 DEF AdoptSocket, NextGeneration, SameAttempt
  <2> QED  BY <2>2, <2>3
<1>5. mp_State[s] = "None" /\ owner[s] = "None" /\ handshake[s] = NoHandshake
  <2>1. mp_State[s] = "None" /\ owner[s] = "None"
    BY <1>1, <1>3 DEF Unaccepted
  <2> QED  BY <1>3, <2>1 DEF Streams, Frames
<1>6. /\ Frames(s)'
      /\ Alive(s)' => ReadUnits(s)' = ReadUnits(s) /\ Forwards(s, <<>>)
  BY <1>1, <1>2, <1>3, <1>4, <1>5, StartStream
<1>7. /\ mp_State'[s] = "Handshake" /\ pc'[s] \in {"Flush", "Fail"}
      /\ \A t \in Sockets \ {s} :
           mp_State'[t] = mp_State[t] /\ handshake'[t] = handshake[t] /\ pc'[t] = pc[t]
  BY <1>1, <1>2, <1>3, Started
<1>8. \A t \in Sockets \ {s} : Stays(t)
  BY <1>1, <1>7 DEF Stays
<1>9. Alive(s) /\ (Alive(s)' => Got(s)' = Got(s))
  BY <1>1, <1>5, <1>6 DEF Alive, Got
<1>10. ReadInOrder(s)' /\ Payloads(s)'
  BY <1>1, <1>2, <1>4, <1>5, <1>7, PayloadRests
<1>11. Arrivals(s)'
  BY <1>1, <1>2, <1>3, <1>4, <1>6, <1>9, SameEnds DEF Streams, Arrivals
<1>12. incoming'[Peer(s)] = incoming[Peer(s)] \o <<>>
  <2>1. incoming[Client] \in Seq(Units)
    BY <1>2, <1>3, SizesAre
  <2>2. incoming[Client] \o <<>> = incoming[Client]
    BY <2>1
  <2> QED  BY <1>1, <1>2, <2>2
<1>13. Unaccepted'
  <2>1. net \in [Sockets -> Nets] /\ owner \in [Sockets -> Owners]
    BY <1>3 DEF TypeOK, Nets, Owners
  <2>2. /\ \A t \in Sockets \ {s} : net'[t] = net[t] /\ owner'[t] = owner[t]
        /\ net'[s] = "Open"
    BY <1>1, <1>2, <2>1
  <2>3. \A t \in Sockets : Fresh(t) => t # s /\ Fresh(t)'
    BY <1>1, <1>7, <2>2 DEF Fresh
  <2>4. ASSUME NEW t \in Attempts
        PROVE  /\ t > mp_ConnectionGeneration'[Client] => Fresh(t)'
               /\ net'[t] = "Backlog" => mp_State'[t] = "None" /\ owner'[t] = "None"
    <3>1. t > mp_ConnectionGeneration[Client] => Fresh(t)
      BY <1>3 DEF Unaccepted
    <3>2. net[t] = "Backlog" => mp_State[t] = "None" /\ owner[t] = "None"
      BY <1>3 DEF Unaccepted
    <3> QED  BY <1>2, <1>4, <1>7, <2>2, <2>3, <3>1, <3>2 DEF SameAttempt
  <2>5. net'[Client] = net[Client]
    BY <1>2, <2>2
  <2>6. ASSUME net'[Client] = "Connecting"
        PROVE  mp_ConnectionGeneration'[Client] # 0 /\ Fresh(Peer(Client))'
    <3>1. mp_ConnectionGeneration[Client] # 0 /\ Fresh(Peer(Client))
      BY <1>3, <2>5, <2>6 DEF Unaccepted
    <3>2. PICK p \in Sockets : p = Peer(Client)
      BY <1>2, <1>3, PeerHelloType
    <3>3. Fresh(p)' /\ Peer(Client)' = p
      BY <1>2, <1>4, <2>3, <3>1, <3>2, SameEnds
    <3> QED  BY <1>4, <3>1, <3>3 DEF SameAttempt, Fresh
  <2>7. net'[Client] # "Backlog"
    BY <1>3, <2>5 DEF Unaccepted
  <2> QED  BY <2>4, <2>6, <2>7 DEF Unaccepted
<1>14. <<>> \in Seq(Units)
  OBVIOUS
<1>15. Streams(s)'
  BY <1>6, <1>10, <1>11 DEF Streams
<1>16. streaming' \in [Sockets -> BOOLEAN] /\ \A t \in Sockets : incoming'[t] = incoming[t]
  BY <1>1, <1>3
<1> QED  BY <1>2, <1>3, <1>4, <1>6, <1>8, <1>9, <1>12, <1>13, <1>14, <1>15, <1>16, StreamStep

-----------------------------------------------------------------------------
(* A client that connects again.                                           *)

LEMMA ReuseStream ==
  ASSUME IndInv, TypeOK', StreamInv, Reuse, Unaccepted',
         \A t \in Attempts :
           mp_State'[t] = mp_State[t] /\ handshake'[t] = handshake[t] /\ pc'[t] = pc[t],
         mp_State'[Client] \in {"None", "Connect", "Handshake"}, pc'[Client] # "Transfer",
         handshake'[Client].stage = "WaitHello", handshake'[Client].length = "None",
         mp_State'[Client] \in {"None", "Connect"} => handshake'[Client] = NoHandshake,
         Alive(Client)' =>
           /\ Len(Pending(Client)') = QueuedUnits(Client)'
           /\ RunOf(SignatureSize(Client)', Attempt(Client)', 0, Pending(Client)')
  PROVE  StreamInv'
<1>1. /\ TypeOK /\ Unaccepted /\ streaming \in [Sockets -> BOOLEAN]
      /\ Client \in Sockets /\ Attempts \subseteq Sockets /\ Client \notin Attempts
  BY SocketsAre DEF IndInv, StreamInv
<1>2. PICK p \in Attempts : p = mp_ConnectionGeneration[Client] + 1
  BY <1>1, ReusedAttempt
<1>3. /\ incoming' = [incoming EXCEPT ![Client] = <<>>]
      /\ sent' = [sent EXCEPT ![Client] = 0] /\ received' = [received EXCEPT ![Client] = <<>>]
      /\ streaming' = [streaming EXCEPT ![Client] = FALSE]
      /\ submitted' = [submitted EXCEPT ![Client] = <<>>]
      /\ UNCHANGED scenario
  BY DEF Reuse
<1>4. /\ mp_ConnectionGeneration'[Client] = p /\ Peer(Client)' = p
      /\ p # 0 /\ p > mp_ConnectionGeneration[Client]
  <2>1. Attempt(Client)' = p
    BY <1>1, <1>2, ReusedAttempt
  <2>2. mp_ConnectionGeneration[Client] \in Nat
    BY <1>1 DEF TypeOK
  <2> QED  BY <1>2, <2>1, <2>2 DEF Attempt, Peer
<1>5. /\ incoming'[Client] = <<>> /\ sent'[Client] = 0 /\ received'[Client] = <<>>
      /\ streaming'[Client] = FALSE /\ submitted'[Client] = <<>>
      /\ streaming' \in [Sockets -> BOOLEAN]
      /\ \A t \in Attempts :
           /\ incoming'[t] = incoming[t] /\ sent'[t] = sent[t] /\ received'[t] = received[t]
           /\ streaming'[t] = streaming[t] /\ submitted'[t] = submitted[t]
  <2>1. /\ incoming \in [Sockets -> Held] /\ sent \in [Sockets -> 0 .. Payload]
        /\ received \in [Sockets -> Seq(Units)] /\ submitted \in [Sockets -> Seq(Units)]
    BY <1>1 DEF TypeOK
  <2> QED  BY <1>1, <1>3, <2>1
<1>6. ASSUME NEW t \in Attempts
      PROVE  /\ Attempt(t)' = Attempt(t) /\ PeerSize(t)' = PeerSize(t)
             /\ ReadUnits(t)' = ReadUnits(t) /\ Streams(t)
  <2>1. /\ t # Client /\ t \in Sockets
        /\ mp_State'[t] = mp_State[t] /\ handshake'[t] = handshake[t]
    BY <1>1
  <2>2. Attempt(t)' = Attempt(t) /\ PeerSize(t)' = PeerSize(t)
    BY <1>3, <2>1 DEF Attempt, PeerSize, SignatureSize, Policy, Peer
  <2>3. ReadUnits(t)' = ReadUnits(t)
    BY <1>5, <2>1, <2>2 DEF ReadUnits
  <2> QED  BY <2>1, <2>2, <2>3 DEF StreamInv
<1>7. ASSUME NEW t \in Attempts PROVE Streams(t)'
  <2>1. ReadInOrder(t)'
    BY <1>5, <1>6 DEF Streams, ReadInOrder
  <2>2. Payloads(t)'
    BY <1>3, <1>5, <1>6 DEF Streams, Payloads
  <2>3. Frames(t)'
    BY <1>6 DEF Streams, Frames
  <2>4. Arrivals(t)'
    <3>1. Alive(t)' => Alive(t)
      BY DEF Alive
    <3> QED  BY <1>5, <1>6, <3>1 DEF Streams, Arrivals
  <2> QED  BY <2>1, <2>2, <2>3, <2>4 DEF Streams
<1>8. ReadUnits(Client)' = 0
  BY DEF ReadUnits, StageUnits
<1>9. Streams(Client)'
  <2>1. ReadInOrder(Client)'
    BY <1>5 DEF ReadInOrder
  <2>2. Payloads(Client)'
    BY <1>5 DEF Payloads
  <2>3. Frames(Client)'
    BY DEF Frames
  <2>4. Arrivals(Client)'
    BY <1>5, RunNone DEF Arrivals
  <2> QED  BY <2>1, <2>2, <2>3, <2>4 DEF Streams
<1>10. /\ mp_State'[p] = "None" /\ incoming'[p] = <<>> /\ handshake'[p] = NoHandshake
  <2>1. Fresh(p)
    BY <1>1, <1>4 DEF Unaccepted
  <2>2. handshake[p] = NoHandshake
    BY <1>6, <2>1 DEF Fresh, Streams, Frames
  <2> QED  BY <1>5, <2>1, <2>2 DEF Fresh
<1>11. /\ ReadUnits(p)' = 0 /\ QueuedUnits(p)' = 0 /\ Pending(p)' = <<>>
  <2>1. NoHandshake.stage = "WaitHello" /\ NoHandshake.length = "None" /\ NoHandshake.out = <<>>
    BY DEF NoHandshake
  <2> QED  BY <1>10, <2>1 DEF ReadUnits, StageUnits, QueuedUnits, Pending
<1>12. Got(p)' = 0 /\ Got(Client)' = 0
  <2>1. Len(<<>>) = 0
    OBVIOUS
  <2> QED  BY <1>5, <1>8, <1>10, <1>11, <2>1 DEF Got
<1>13. Flow(Client, p)' /\ Flow(p, Client)'
  <2>1. Flow(Client, p)'
    <3>1. Alive(Client)' => Len(Pending(Client)') \in Nat
      BY <1>1, SizesAre
    <3>2. Alive(Client)' => 0 + Len(Pending(Client)') = QueuedUnits(Client)'
      <4>1. QueuedUnits(Client)' \in Nat
        <5>1. SignatureSize(Client)' \in Nat
          BY DEF SignatureSize
        <5> QED  BY <5>1 DEF QueuedUnits
      <4> QED  BY <4>1
    <3> QED  BY <1>12, <3>2 DEF Flow
  <2>2. Flow(p, Client)'
    <3>1. RunOf(SignatureSize(p)', Attempt(p)', 0, <<>>)
      BY RunNone
    <3>2. 0 + Len(<<>>) = 0
      OBVIOUS
    <3> QED  BY <1>11, <1>12, <3>1, <3>2 DEF Flow
  <2> QED  BY <2>1, <2>2
<1>14. Flows'
  BY <1>4, <1>13 DEF Flows, Flow
<1>15. \A t \in Sockets : Streams(t)'
  BY <1>7, <1>9 DEF Sockets
<1> QED  BY <1>5, <1>14, <1>15 DEF StreamInv

\* The server's sockets of later attempts stay untouched.
LEMMA ReuseKeepsFresh ==
  ASSUME IndInv, StreamInv, Reuse,
         \A t \in Attempts : mp_State'[t] = mp_State[t] /\ owner'[t] = owner[t],
         NEW p, p = mp_ConnectionGeneration[Client] + 1,
         \A t \in Attempts \ {p} : net'[t] = net[t],
         net'[p] \in {net[p], "Backlog"},
         net'[Client] \in {"Connecting", "Open", "Closed"},
         net'[Client] = "Connecting" => net'[p] = net[p]
  PROVE  Unaccepted'
<1>1. /\ TypeOK /\ Unaccepted /\ Client \in Sockets /\ Attempts \subseteq Sockets
      /\ Client \notin Attempts
  BY SocketsAre DEF IndInv, StreamInv
<1>2. /\ p \in Attempts /\ Peer(Client)' = p /\ mp_ConnectionGeneration'[Client] = p
      /\ p # 0 /\ mp_ConnectionGeneration[Client] \in Nat
  <2>1. p \in Attempts /\ Attempt(Client)' = p
    BY <1>1, ReusedAttempt
  <2>2. mp_ConnectionGeneration[Client] \in Nat
    BY <1>1 DEF TypeOK
  <2> QED  BY <2>1, <2>2 DEF Attempt, Peer
<1>3. \A t \in Attempts : incoming'[t] = incoming[t]
  BY <1>1 DEF TypeOK, Reuse
<1>4. \A t \in Attempts : net'[t] = net[t] /\ Fresh(t) => Fresh(t)'
  BY <1>3 DEF Fresh
<1>5. Fresh(p)
  BY <1>1, <1>2 DEF Unaccepted
<1>6. ASSUME NEW t \in Attempts
      PROVE  /\ t > mp_ConnectionGeneration'[Client] => Fresh(t)'
             /\ net'[t] = "Backlog" => mp_State'[t] = "None" /\ owner'[t] = "None"
  <2>1. t \in Nat
    BY DEF Attempts
  <2>2. CASE t = p
    BY <1>2, <1>5, <2>1, <2>2 DEF Fresh
  <2>3. CASE t # p
    <3>1. t > mp_ConnectionGeneration'[Client] => Fresh(t)
      BY <1>1, <1>2, <2>1 DEF Unaccepted
    <3>2. net[t] = "Backlog" => mp_State[t] = "None" /\ owner[t] = "None"
      BY <1>1 DEF Unaccepted
    <3> QED  BY <1>4, <2>3, <3>1, <3>2
  <2> QED  BY <2>2, <2>3
<1>7. net'[Client] = "Connecting" => Fresh(Peer(Client))'
  <2>1. net'[Client] = "Connecting" => Fresh(p)'
    BY <1>2, <1>4, <1>5
  <2> QED  BY <1>2, <2>1 DEF Fresh
<1> QED  BY <1>2, <1>6, <1>7 DEF Unaccepted

LEMMA BeginStream ==
  ASSUME IndInv, StreamInv, AsyncConnect \/ ConnectThrows
  PROVE  StreamInv'
<1>1. /\ TypeOK /\ TypeOK' /\ Client \in Sockets /\ Attempts \subseteq Sockets
      /\ Client \notin Attempts
  BY AsyncConnectStep, SocketsAre DEF IndInv
<1>2. /\ Reuse /\ handshake' = [handshake EXCEPT ![Client] = NoHandshake] /\ UNCHANGED pc
      /\ \/ mp_State' = [mp_State EXCEPT ![Client] = "Connect"]
         \/ mp_State' = [mp_State EXCEPT ![Client] = "None"]
      /\ \/ net' = [net EXCEPT ![Client] = "Connecting"]
         \/ net' = [net EXCEPT ![Client] = "Closed"]
      /\ \/ owner' = [owner EXCEPT ![Client] = "Connecting"]
         \/ owner' = [owner EXCEPT ![Client] = "Gone"]
  BY DEF AsyncConnect, ConnectThrows
<1>3. /\ mp_State'[Client] \in {"None", "Connect"} /\ handshake'[Client] = NoHandshake
      /\ \A t \in Attempts : mp_State'[t] = mp_State[t] /\ handshake'[t] = handshake[t]
  <2>1. mp_State \in [Sockets -> States] /\ handshake \in [Sockets -> Handshakes]
    BY <1>1 DEF TypeOK, States
  <2> QED  BY <1>1, <1>2, <2>1
<1>4. /\ net'[Client] \in {"Connecting", "Open", "Closed"}
      /\ \A t \in Attempts : net'[t] = net[t] /\ owner'[t] = owner[t]
  <2>1. net \in [Sockets -> Nets] /\ owner \in [Sockets -> Owners]
    BY <1>1 DEF TypeOK, Nets, Owners
  <2> QED  BY <1>1, <1>2, <2>1
<1>5. pc[Client] = "Idle" /\ UNCHANGED pc
  BY <1>1, <1>2, ReusedAttempt
<1>6. Unaccepted'
  <2>1. mp_ConnectionGeneration[Client] + 1 \in Attempts
    BY <1>1, <1>2, ReusedAttempt
  <2> QED  BY <1>2, <1>3, <1>4, <2>1, ReuseKeepsFresh
<1>7. NoHandshake.stage = "WaitHello" /\ NoHandshake.length = "None" /\ NoHandshake.out = <<>>
  BY DEF NoHandshake
<1>8. Pending(Client)' = <<>> /\ QueuedUnits(Client)' = 0
  BY <1>3, <1>7 DEF Pending, QueuedUnits
<1>9. /\ Len(Pending(Client)') = QueuedUnits(Client)'
      /\ RunOf(SignatureSize(Client)', Attempt(Client)', 0, Pending(Client)')
  <2>1. Len(<<>>) = 0
    OBVIOUS
  <2> QED  BY <1>8, <2>1, RunNone
<1> QED  BY <1>1, <1>2, <1>3, <1>5, <1>6, <1>7, <1>9, ReuseStream

LEMMA ConnectStream ==
  ASSUME IndInv, StreamInv, Connect
  PROVE  StreamInv'
<1>1. /\ TypeOK /\ TypeOK' /\ Client \in Sockets /\ Attempts \subseteq Sockets
      /\ Client \notin Attempts
  BY ConnectStep, SocketsAre DEF IndInv
<1>2. /\ Reuse /\ StartHandshake(Client, TRUE)
      /\ net' = [net EXCEPT ![Client] = "Open", ![mp_ConnectionGeneration[Client] + 1] = "Backlog"]
      /\ owner' = [owner EXCEPT ![Client] = "Actor"]
  BY DEF Connect
<1>3. PICK p \in Attempts : p = mp_ConnectionGeneration[Client] + 1
  BY <1>1, <1>2, ReusedAttempt
<1>4. /\ net'[Client] = "Open" /\ net'[p] = "Backlog"
      /\ \A t \in Attempts \ {p} : net'[t] = net[t]
      /\ \A t \in Attempts : owner'[t] = owner[t]
  <2>1. net \in [Sockets -> Nets] /\ owner \in [Sockets -> Owners]
    BY <1>1 DEF TypeOK, Nets, Owners
  <2> QED  BY <1>1, <1>2, <1>3, <2>1
<1>5. /\ mp_State'[Client] = "Handshake" /\ pc'[Client] \in {"Flush", "Fail"}
      /\ handshake'[Client].stage = "WaitHello" /\ handshake'[Client].length = "None"
      /\ pc'[Client] # "Fail" =>
           /\ handshake'[Client].out \in Seq(Units) /\ Len(handshake'[Client].out) = 2
           /\ \A c \in Sizes, g \in Nat : RunOf(c, g, 0, handshake'[Client].out)
      /\ \A t \in Attempts :
           mp_State'[t] = mp_State[t] /\ handshake'[t] = handshake[t] /\ pc'[t] = pc[t]
  <2>1. \A t \in Sockets \ {Client} :
          mp_State'[t] = mp_State[t] /\ handshake'[t] = handshake[t] /\ pc'[t] = pc[t]
    BY <1>1, <1>2, Started
  <2>2. \A t \in Attempts : t \in Sockets \ {Client}
    BY <1>1
  <2>3. /\ mp_State'[Client] = "Handshake" /\ pc'[Client] \in {"Flush", "Fail"}
        /\ handshake'[Client].stage = "WaitHello" /\ handshake'[Client].length = "None"
        /\ pc'[Client] # "Fail" =>
             /\ handshake'[Client].out \in Seq(Units) /\ Len(handshake'[Client].out) = 2
             /\ \A c \in Sizes, g \in Nat : RunOf(c, g, 0, handshake'[Client].out)
    BY <1>1, <1>2, Started
  <2> QED  BY <2>1, <2>2, <2>3
<1>6. Unaccepted'
  <2>1. /\ net'[p] \in {net[p], "Backlog"} /\ net'[Client] \in {"Connecting", "Open", "Closed"}
        /\ net'[Client] # "Connecting"
    BY <1>4
  <2>2. \A t \in Attempts : mp_State'[t] = mp_State[t] /\ owner'[t] = owner[t]
    BY <1>4, <1>5
  <2> QED  BY <1>2, <1>3, <1>4, <2>1, <2>2, ReuseKeepsFresh
<1>7. ASSUME Alive(Client)'
      PROVE  /\ Len(Pending(Client)') = QueuedUnits(Client)'
             /\ RunOf(SignatureSize(Client)', Attempt(Client)', 0, Pending(Client)')
  <2>1. Pending(Client)' = handshake'[Client].out /\ QueuedUnits(Client)' = 2
    BY <1>5 DEF Pending, QueuedUnits
  <2>2. SignatureSize(Client)' \in Sizes /\ Attempt(Client)' \in Nat
    <3>1. SignatureSize(Client)' \in Sizes
      BY DEF SignatureSize, Sizes
    <3>2. Attempt(Client)' \in Attempts
      BY <1>1, <1>2, ReusedAttempt
    <3> QED  BY <3>1, <3>2 DEF Attempts
  <2> QED  BY <1>5, <1>7, <2>1, <2>2 DEF Alive
<1> QED  BY <1>1, <1>2, <1>5, <1>6, <1>7, ReuseStream

-----------------------------------------------------------------------------
(* The theorems of the streams.                                            *)

LEMMA InitStreams == Init => StreamInv
<1> SUFFICES ASSUME Init PROVE StreamInv
  OBVIOUS
<1>1. /\ mp_State = [s \in Sockets |-> "None"] /\ handshake = [s \in Sockets |-> NoHandshake]
      /\ pc = [s \in Sockets |-> "Idle"] /\ mp_ConnectionGeneration = [s \in Sockets |-> 0]
      /\ net = [s \in Sockets |-> "None"] /\ incoming = [s \in Sockets |-> <<>>]
      /\ owner = [s \in Sockets |-> "None"] /\ sent = [s \in Sockets |-> 0]
      /\ received = [s \in Sockets |-> <<>>] /\ streaming = [s \in Sockets |-> FALSE]
      /\ submitted = [s \in Sockets |-> <<>>]
  BY DEF Init
<1>2. Client \in Sockets /\ Attempts \subseteq Sockets
  BY SocketsAre
<1>3. Unaccepted /\ Flows
  BY <1>1, <1>2 DEF Unaccepted, Flows, Fresh
<1>4. ASSUME NEW s \in Sockets PROVE Streams(s)
  <2>1. ReadInOrder(s) /\ Payloads(s) /\ Arrivals(s)
    BY <1>1, RunNone DEF ReadInOrder, Payloads, Arrivals
  <2>2. Frames(s)
    BY <1>1 DEF Frames, NoHandshake
  <2> QED  BY <2>1, <2>2 DEF Streams
<1> QED  BY <1>1, <1>3, <1>4 DEF StreamInv

LEMMA PumpStreams ==
  ASSUME IndInv, StreamInv, NEW s \in Sockets, PumpStep(s)
  PROVE  StreamInv'
BY FlushOutgoingStream, ReadLengthStream, HandleHelloFrameStream, HandleSignatureFrameStream,
   HandleAcceptFrameStream, StopReadingStream, HandshakeDoneStream, PumpEndsStream,
   FailHandshakeStream DEF PumpStep

LEMMA OwnerStreams ==
  ASSUME IndInv, StreamInv, NEW s \in Sockets, OwnerStep(s)
  PROVE  StreamInv'
BY CallIdleStream, CallStartsHandshakeStream, CallGoesStream, ReceiveStream, SendPayloadStream,
   ActivateStream, SubmitSendStream, OwnerStream DEF OwnerStep

LEMMA NextStreams ==
  ASSUME IndInv, StreamInv, Next
  PROVE  StreamInv'
<1>1. CASE UserStep
  BY <1>1, BeginStream, ConnectStream, ConnectingStream, ShutdownStream, PumpThrowsStream
     DEF UserStep
<1>2. CASE SystemStep
  BY <1>2, ConnectingStream, AcceptStream, PumpStreams, OwnerStreams, DeliverStream,
     KernelWritesStream DEF SystemStep
<1> QED  BY <1>1, <1>2 DEF Next

\* Every socket has read of its peer what its peer wrote, unit for unit, and what
\* is on its way or pending goes on from there, in every reachable state.
THEOREM StreamsInvariant == Spec => []StreamInv
<1>1. IndInv /\ StreamInv /\ [Next]_vars => StreamInv'
  BY NextStreams, UnchangedStream
<1> QED  BY HandshakeInvariant, InitStreams, <1>1, PTL DEF Spec

\* The application sees exactly what the application of the peer sent, in order,
\* however the frames of the handshake were split and however far the peer was
\* ahead, for every number of attempts, capacity, payload and set of scenarios.
THEOREM PayloadIntactSafe == Spec => []PayloadIntact
<1>1. StreamInv => PayloadIntact
  BY DEF StreamInv, Streams, ReadInOrder, PayloadIntact
<1> QED  BY StreamsInvariant, <1>1, PTL
==============================================================================

-------------------------- MODULE AuthenticatedUnix --------------------------
(***************************************************************************)
(* CSocket_AuthenticatedUnix: the handshake of hellos, signatures and      *)
(* acceptances that runs inside the calls of the socket's owner before the *)
(* first application byte, at a client that may connect again and at the   *)
(* socket a server accepts for each attempt.                               *)
(*                                                                         *)
(* A frame is a length and a payload, one unit each; the kernel holds      *)
(* Capacity units in each direction, so a frame can be written and read in *)
(* part.  The owner's calls run on its thread, a step for each flush and   *)
(* each unit read; the loop reports what the kernel tells it from another  *)
(* thread, and may report a connect or a close late, to a socket that is   *)
(* used again.  The owner is CAsyncSocketActor with a client or a          *)
(* listener, as the socket meets it.                                       *)
(*                                                                         *)
(* Both ends run this code.  A hello is known by its socket and attempt,   *)
(* which stand for its nonce; a signature by its signer and transcript.    *)
(* What a peer's certificates and the kernel identity say is the scenario. *)
(***************************************************************************)
EXTENDS Naturals, Sequences, FiniteSets

CONSTANTS
  MaxAttempts, \* bound: connections of the client
  Capacity,   \* units the kernel holds in each direction
  Payload,    \* units of application data each owner sends
  Scenarios   \* what the two ends are and what may happen to them; whether the
              \* calls of the two ends overlap step by step, or one runs at a time

\* The socket of the client, and the one the server accepts for each attempt.
Attempts == 1 .. MaxAttempts
Client == 0
Sockets == {Client} \cup Attempts

Events == {"Throw", "Shutdown", "Refuse"}
Ways == {"Connect", "AsyncConnect", "Accept", "Adopt"}

\* What one end is: it has a certificate, it lets a peer have none, the chain
\* of the peer verifies, it ignores a failure of that, the kernel identifies
\* its peer, and the identity it claims is the one its peer's kernel reports.
Policies ==
  [certified : BOOLEAN, allowsMissing : BOOLEAN, verifies : BOOLEAN, ignores : BOOLEAN,
   identifies : BOOLEAN, claimsRight : BOOLEAN]

ASSUME HandshakeAssumption ==
  /\ MaxAttempts \in Nat \ {0}
  /\ Capacity \in Nat \ {0}
  /\ Payload \in Nat
  /\ Scenarios \subseteq
       [client : Policies, server : Policies, attempts : Attempts, events : SUBSET Events,
        ways : SUBSET Ways, overlap : BOOLEAN, completion : BOOLEAN]
  /\ \A c \in Scenarios : c.server.certified

VARIABLES
  scenario,            \* history: what was chosen
  left,                \* events that may still happen
  mp_State,
  handshake,           \* mp_pHandshake, or that of no handshake
  chain,               \* mp_PeerCertificateChain: whose certificates it holds
  mp_bSendShutdown,
  mp_bBrokenStateReported,
  pc,                  \* where the running call of the owner is
  op,                  \* what it does once the handshake is done
  mp_ConnectionGeneration,
  mp_bHandshakePumpOnWrite,
  mp_bTransportConnected,
  mp_ExtraState,
  net,                 \* the platform socket
  incoming,            \* units it holds for the socket to read
  edges,               \* states the loop has still to deliver, with their generation
  owner,               \* whether the socket is in the hands of the actor
  reports,             \* states in the mailbox of the actor
  sent,                \* units of application data the socket took
  received,            \* units it gave to the application
  streaming,           \* m_bCompletionIo of the actor: it submits and streams
  submitted,           \* units of its submissions the kernel has still to write
  accepted             \* history: the transcripts each end accepted

ownVars == <<mp_State, handshake, chain, mp_bSendShutdown, mp_bBrokenStateReported>>
loopVars == <<mp_ConnectionGeneration, mp_bHandshakePumpOnWrite, mp_bTransportConnected,
              mp_ExtraState>>
dataVars == <<sent, received, streaming, submitted>>
vars == <<scenario, left, ownVars, pc, op, loopVars, net, incoming, edges, owner, reports,
          dataVars, accepted>>

-----------------------------------------------------------------------------
(* Peers, frames and transcripts.                                          *)

Policy(s) == IF s = Client THEN scenario.client ELSE scenario.server
Attempt(s) == IF s = Client THEN mp_ConnectionGeneration[Client] ELSE s

\* Only the client's present attempt has a peer at both ends.
Linked(s) == s = Client \/ s = mp_ConnectionGeneration[Client]
Peer(s) == IF s = Client THEN mp_ConnectionGeneration[Client] ELSE Client
HasPeer(s) == Linked(s) /\ net[Peer(s)] \in {"Backlog", "Open", "Shut"}

Hello(s) == [by |-> s, attempt |-> Attempt(s)]
NoHello == [by |-> Client, attempt |-> 0]

Unit(kind, hello, transcript) == [kind |-> kind, hello |-> hello, transcript |-> transcript]
NoTranscript == <<>>
Plain(kind) == Unit(kind, NoHello, NoTranscript)

\* fp_QueueFrame: the length, and the payload unless it is empty
Frame(payload) == <<Plain("Length"), payload>>
EmptyFrame == <<Plain("Empty")>>

\* the client's hello and the server's, of which s has peerHello from its peer
BothHellos(s, peerHello) == IF s = Client THEN <<Hello(s), peerHello>> ELSE <<peerHello, Hello(s)>>

\* fp_BuildTranscript: the role that signs, and both hellos
BuildTranscript(s, peerHello, serverRole) == <<serverRole>> \o BothHellos(s, peerHello)

NoHandshake ==
  [stage |-> "WaitHello", out |-> <<>>, length |-> "None", peerHello |-> NoHello]

-----------------------------------------------------------------------------
(* The platform.                                                           *)

\* mp_fOnStateChange: a report to the actor.  Before it has the socket the
\* listener's actor keeps it (m_StateBeforeSocket), the client's callback drops
\* all but a close.
OnStateChange(s, flags) ==
  reports' = [reports EXCEPT ![s] =
                @ \cup (IF owner[s] = "Actor" \/ s # Client THEN flags \ {"Connected"}
                        ELSE flags \cap {"Closed"})]

\* the states for which the callback makes the owner pump the handshake
Pumps(s, flag) == flag = "Connected" \/ (flag = "Write" /\ mp_bHandshakePumpOnWrite[s])

\* the callback of fp_SharedOnStateChange and f_AsyncConnect, for its own attempt
StateAdded(s, flag) ==
  LET extra == IF Pumps(s, flag) THEN {"Read"} ELSE {} IN
    /\ mp_ExtraState' = [mp_ExtraState EXCEPT ![s] = @ \cup extra]
    /\ OnStateChange(s, {flag} \cup extra)

Registered(s) == net[s] \in {"Connecting", "Open", "Shut"} /\ Linked(s)

\* external: the loop reports readiness when it arises; that the owner handles it
\* late is the lag of its mailbox
Ready(s, flag, arises) ==
  IF arises /\ Registered(s) /\ ~streaming[s] THEN StateAdded(s, flag) ELSE UNCHANGED <<mp_ExtraState, reports>>

\* external: the loop has still to report a state, under the present registration
Raise(es, s, flag) ==
  IF Registered(s) THEN [es EXCEPT ![s] = @ \cup {<<mp_ConnectionGeneration[s], flag>>}] ELSE es

\* external: the units s may write now
Space(s) == Capacity - Len(incoming[Peer(s)])

\* external: fg_Send of some units
Write(s, units) ==
  /\ incoming' = [incoming EXCEPT ![Peer(s)] = @ \o units]
  /\ Ready(Peer(s), "Read", units # <<>>)

\* external: fg_Receive of n units; a peer that found no space may write again
Take(s, n) ==
  /\ incoming' = [incoming EXCEPT ![s] = SubSeq(@, n + 1, Len(@))]
  /\ Ready(Peer(s), "Write", n > 0 /\ Len(incoming[s]) >= Capacity /\ HasPeer(s))

\* external: the platform shuts or closes a socket, and its peer is told
Leaves(s, how) ==
  /\ net' = [net EXCEPT ![s] = how]
  /\ edges' = IF HasPeer(s) /\ net[s] = "Open" THEN Raise(edges, Peer(s), "Closed") ELSE edges

-----------------------------------------------------------------------------
(* Where a handshake starts and fails.                                     *)

Init ==
  /\ scenario \in Scenarios
  /\ left = scenario.events
  /\ mp_State = [s \in Sockets |-> "None"]
  /\ handshake = [s \in Sockets |-> NoHandshake]
  /\ chain = [s \in Sockets |-> <<>>]
  /\ mp_bSendShutdown = [s \in Sockets |-> FALSE]
  /\ mp_bBrokenStateReported = [s \in Sockets |-> FALSE]
  /\ pc = [s \in Sockets |-> "Idle"]
  /\ op = [s \in Sockets |-> "None"]
  /\ mp_ConnectionGeneration = [s \in Sockets |-> 0]
  /\ mp_bHandshakePumpOnWrite = [s \in Sockets |-> FALSE]
  /\ mp_bTransportConnected = [s \in Sockets |-> FALSE]
  /\ mp_ExtraState = [s \in Sockets |-> {}]
  /\ net = [s \in Sockets |-> "None"]
  /\ incoming = [s \in Sockets |-> <<>>]
  /\ edges = [s \in Sockets |-> {}]
  /\ owner = [s \in Sockets |-> "None"]
  /\ reports = [s \in Sockets |-> {}]
  /\ sent = [s \in Sockets |-> 0]
  /\ received = [s \in Sockets |-> <<>>]
  /\ streaming = [s \in Sockets |-> FALSE]
  /\ submitted = [s \in Sockets |-> <<>>]
  /\ accepted = {}

\* A call of the owner starts when the last has returned and, unless calls of the
\* two ends overlap, none of the other runs.
MayCall(s) == pc[s] = "Idle" /\ (scenario.overlap \/ \A t \in Sockets : pc[t] = "Idle")

\* fp_StartHandshake: it queries the identity of the peer of a connected
\* socket, and queues the hello
StartHandshake(s, connected) ==
  /\ mp_State' = [mp_State EXCEPT ![s] = "Handshake"]
  /\ IF Policy(s).identifies /\ connected
       THEN /\ handshake' = [handshake EXCEPT ![s] =
                 [NoHandshake EXCEPT !.out = Frame(Unit("Hello", Hello(s)', NoTranscript))]]
            /\ pc' = [pc EXCEPT ![s] = "Flush"]
       ELSE /\ handshake' = [handshake EXCEPT ![s] = NoHandshake]
            /\ pc' = [pc EXCEPT ![s] = "Fail"]

\* fp_FailHandshake, and the handshake cleared by fp_HandleHandshake
FailHandshake(s) ==
  /\ pc[s] = "Fail"
  /\ mp_State' = [mp_State EXCEPT ![s] = "Disconnected"]
  /\ handshake' = [handshake EXCEPT ![s] = NoHandshake]
  /\ Leaves(s, "Shut")
  /\ mp_bBrokenStateReported' = [mp_bBrokenStateReported EXCEPT ![s] = TRUE]
  /\ mp_bHandshakePumpOnWrite' = [mp_bHandshakePumpOnWrite EXCEPT ![s] = FALSE]
  /\ IF mp_bBrokenStateReported[s] THEN UNCHANGED <<mp_ExtraState, reports>>
     ELSE /\ mp_ExtraState' = [mp_ExtraState EXCEPT ![s] = @ \cup {"Closed"}]
          /\ OnStateChange(s, {"Closed"})
  /\ pc' = [pc EXCEPT ![s] = "Idle"]
  /\ op' = [op EXCEPT ![s] = "None"]
  /\ UNCHANGED <<scenario, left, chain, mp_bSendShutdown, mp_ConnectionGeneration,
                 mp_bTransportConnected, incoming, owner, dataVars, accepted>>

\* fp_ResetConnectionState, but for what the caller assigns next
ResetConnectionState(s) ==
  /\ chain' = [chain EXCEPT ![s] = <<>>]
  /\ mp_ExtraState' = [mp_ExtraState EXCEPT ![s] = {}]
  /\ mp_bBrokenStateReported' = [mp_bBrokenStateReported EXCEPT ![s] = FALSE]
  /\ mp_bSendShutdown' = [mp_bSendShutdown EXCEPT ![s] = FALSE]

\* the generation of a new attempt, with its callback and its pump
NextGeneration(s) ==
  /\ mp_ConnectionGeneration' = [mp_ConnectionGeneration EXCEPT ![s] = @ + 1]
  /\ mp_bHandshakePumpOnWrite' = [mp_bHandshakePumpOnWrite EXCEPT ![s] = TRUE]

\* The client socket is closed and used again; its new owner starts afresh.
Reuse ==
  /\ MayCall(Client)
  /\ mp_ConnectionGeneration[Client] < scenario.attempts
  /\ edges' = IF net[Client] = "Open" /\ HasPeer(Client) THEN Raise(edges, Peer(Client), "Closed")
              ELSE edges
  /\ NextGeneration(Client)
  /\ ResetConnectionState(Client)
  /\ incoming' = [incoming EXCEPT ![Client] = <<>>]
  /\ reports' = [reports EXCEPT ![Client] = {}]
  /\ sent' = [sent EXCEPT ![Client] = 0]
  /\ received' = [received EXCEPT ![Client] = <<>>]
  /\ streaming' = [streaming EXCEPT ![Client] = FALSE]
  /\ submitted' = [submitted EXCEPT ![Client] = <<>>]
  /\ op' = [op EXCEPT ![Client] = "None"]
  /\ UNCHANGED <<scenario, left, accepted>>

AsyncConnect ==
  /\ "AsyncConnect" \in scenario.ways
  /\ Reuse
  /\ mp_State' = [mp_State EXCEPT ![Client] = "Connect"]
  /\ handshake' = [handshake EXCEPT ![Client] = NoHandshake]
  /\ mp_bTransportConnected' = [mp_bTransportConnected EXCEPT ![Client] = FALSE]
  /\ net' = [net EXCEPT ![Client] = "Connecting"]
  /\ owner' = [owner EXCEPT ![Client] = "Connecting"]
  /\ UNCHANGED pc

\* f_Connect: the transport connects, and the handshake starts at once
Connect ==
  /\ "Connect" \in scenario.ways
  /\ Reuse
  /\ mp_bTransportConnected' = [mp_bTransportConnected EXCEPT ![Client] = TRUE]
  /\ net' = [net EXCEPT ![Client] = "Open", ![mp_ConnectionGeneration[Client] + 1] = "Backlog"]
  /\ owner' = [owner EXCEPT ![Client] = "Actor"]
  /\ StartHandshake(Client, TRUE)

\* f_Connect whose transport throws
ConnectThrows ==
  /\ "Refuse" \in left /\ "Connect" \in scenario.ways
  /\ Reuse
  /\ mp_State' = [mp_State EXCEPT ![Client] = "None"]
  /\ handshake' = [handshake EXCEPT ![Client] = NoHandshake]
  /\ mp_bTransportConnected' = [mp_bTransportConnected EXCEPT ![Client] = FALSE]
  /\ net' = [net EXCEPT ![Client] = "Closed"]
  /\ owner' = [owner EXCEPT ![Client] = "Gone"]
  /\ UNCHANGED pc

\* A connection that is there already: the handshake starts at once, and the kernel
\* tells the new registration of a peer that left.
TakeConnection(s) ==
  /\ net[s] = "Backlog" /\ MayCall(s)
  /\ net' = [net EXCEPT ![s] = "Open"]
  /\ ResetConnectionState(s)
  /\ mp_bTransportConnected' = [mp_bTransportConnected EXCEPT ![s] = TRUE]
  /\ owner' = [owner EXCEPT ![s] = "Accepted"]
  /\ StartHandshake(s, TRUE)
  /\ edges' = IF HasPeer(s) /\ net[Client] = "Open" THEN edges
              ELSE [edges EXCEPT ![s] = {<<mp_ConnectionGeneration'[s], "Closed">>}]
  /\ UNCHANGED <<scenario, left, op, incoming, reports, dataVars, accepted>>

\* f_Accept, on a fresh socket
Accept(s) ==
  /\ "Accept" \in scenario.ways
  /\ mp_bHandshakePumpOnWrite' = [mp_bHandshakePumpOnWrite EXCEPT ![s] = TRUE]
  /\ UNCHANGED mp_ConnectionGeneration
  /\ TakeConnection(s)

\* f_AdoptSocket and f_InheritHandle, on one used before
AdoptSocket(s) ==
  /\ "Adopt" \in scenario.ways
  /\ NextGeneration(s)
  /\ TakeConnection(s)

-----------------------------------------------------------------------------
(* The pump: it runs inside the owner's calls.                             *)

Running(s, at) == pc[s] = at
Goto(s, at) == pc' = [pc EXCEPT ![s] = at]

\* what the pump of s leaves alone
PumpKeeps ==
  /\ UNCHANGED <<scenario, left, mp_State, mp_bSendShutdown, mp_bBrokenStateReported, op,
                 mp_ConnectionGeneration, mp_bHandshakePumpOnWrite, mp_bTransportConnected, net,
                 edges, owner, dataVars>>

\* fp_FlushOutgoing, until the kernel takes no more; a send without a peer throws
FlushOutgoing(s) ==
  /\ pc[s] \in {"Flush", "LastFlush"}
  /\ LET out == handshake[s].out
         n == IF ~HasPeer(s) THEN 0 ELSE IF Len(out) < Space(s) THEN Len(out) ELSE Space(s) IN
       /\ IF out # <<>> /\ ~HasPeer(s)
            THEN Goto(s, "Fail") /\ UNCHANGED <<incoming, mp_ExtraState, reports, handshake>>
          ELSE
            /\ Write(s, SubSeq(out, 1, n))
            /\ handshake' = [handshake EXCEPT ![s].out = SubSeq(out, n + 1, Len(out))]
            /\ Goto(s, IF pc[s] = "Flush" THEN "Read" ELSE "End")
  /\ UNCHANGED <<chain, accepted>>
  /\ PumpKeeps

\* fp_ReadFrame: the length of the next frame
ReadLength(s) ==
  /\ Running(s, "Read")
  /\ handshake[s].stage # "Done" /\ handshake[s].length = "None"
  /\ incoming[s] # <<>>
  /\ handshake' = [handshake EXCEPT ![s].length = Head(incoming[s]).kind]
  /\ Take(s, 1)
  /\ UNCHANGED <<chain, accepted, pc>>
  /\ PumpKeeps

\* fp_ReadFrame has the whole frame of the stage, and leaves the next one alone
FrameRead(s, stage) ==
  /\ Running(s, "Read")
  /\ handshake[s].stage = stage
  /\ \/ handshake[s].length = "Empty" /\ UNCHANGED <<incoming, mp_ExtraState, reports>>
     \/ handshake[s].length = "Length" /\ incoming[s] # <<>> /\ Take(s, 1)
  /\ PumpKeeps

FirstUnit(s) == Head(incoming[s])

\* fp_HandleHelloFrame: the claims are checked, the certificates kept, and the
\* signature queued, which is empty without a key
HandleHelloFrame(s) ==
  /\ FrameRead(s, "WaitHello")
  /\ IF handshake[s].length = "Length" /\ FirstUnit(s).kind = "Hello" /\ Policy(FirstUnit(s).hello.by).claimsRight
       THEN LET peer == FirstUnit(s).hello IN
              /\ chain' = IF Policy(peer.by).certified THEN [chain EXCEPT ![s] = Append(@, peer.by)]
                          ELSE chain
              /\ handshake' = [handshake EXCEPT ![s] =
                   [stage |-> "WaitSignature", length |-> "None", peerHello |-> peer,
                    out |-> @.out \o
                      IF Policy(s).certified
                        THEN Frame(Unit("Signature", Hello(s), BuildTranscript(s, peer, s # Client)))
                      ELSE EmptyFrame]]
              /\ UNCHANGED pc
       ELSE Goto(s, "Fail") /\ UNCHANGED <<chain, handshake>>
  /\ UNCHANGED accepted

\* what fp_HandleSignatureFrame asks of the peer
PeerVerified(s) ==
  IF chain[s] = <<>> THEN
    s # Client /\ Policy(s).allowsMissing /\ handshake[s].length = "Empty"
  ELSE
    /\ handshake[s].length = "Length" /\ FirstUnit(s).kind = "Signature"
    /\ Policy(s).verifies \/ Policy(s).ignores
    /\ FirstUnit(s).hello.by = Head(chain[s])
    /\ FirstUnit(s).transcript = BuildTranscript(s, handshake[s].peerHello, s = Client)

\* fp_AcceptPeer
AcceptPeer(s) ==
  /\ handshake' = [handshake EXCEPT ![s] =
       [handshake[s] EXCEPT !.stage = "WaitAccept", !.length = "None",
                            !.out = @ \o Frame(Plain("Accept"))]]
  /\ accepted' = accepted \cup {<<s = Client, BothHellos(s, handshake[s].peerHello)>>}

HandleSignatureFrame(s) ==
  /\ FrameRead(s, "WaitSignature")
  /\ IF PeerVerified(s) THEN AcceptPeer(s) /\ UNCHANGED pc
     ELSE Goto(s, "Fail") /\ UNCHANGED <<handshake, accepted>>
  /\ UNCHANGED chain

HandleAcceptFrame(s) ==
  /\ FrameRead(s, "WaitAccept")
  /\ IF handshake[s].length = "Length" /\ FirstUnit(s).kind = "Accept"
       THEN /\ handshake' = [handshake EXCEPT ![s] = [@ EXCEPT !.stage = "Done", !.length = "None"]]
            /\ UNCHANGED pc
       ELSE Goto(s, "Fail") /\ UNCHANGED handshake
  /\ UNCHANGED <<chain, accepted>>

\* the loop of fp_PumpHandshake ends: no whole frame, or no further stage
StopReading(s) ==
  /\ Running(s, "Read")
  /\ \/ handshake[s].stage = "Done"
     \/ handshake[s].length # "Empty" /\ incoming[s] = <<>>
  /\ Goto(s, "LastFlush")
  /\ UNCHANGED <<chain, handshake, incoming, mp_ExtraState, reports, accepted>>
  /\ PumpKeeps

\* Mutant: complete once the acceptance is sent, whatever the peer answers.
CompleteUnheard(s) == handshake[s].stage \in {"WaitAccept", "Done"} /\ handshake[s].out = <<>>

Complete(s) == handshake[s].stage = "Done" /\ handshake[s].out = <<>>

\* Mutant: the owner is told to read only.
TellsRead == {"Read"}

\* the states the owner is told of
DoneStates == {"Read", "Write"}

\* fp_HandleHandshakeDone: the owner is told to read and write, for what arrived
\* with the last frame and for what it has waiting; then its call goes on
HandshakeDone(s) ==
  /\ Running(s, "End") /\ Complete(s)
  /\ mp_State' = [mp_State EXCEPT ![s] = "Done"]
  /\ handshake' = [handshake EXCEPT ![s] = NoHandshake]
  /\ mp_ExtraState' = [mp_ExtraState EXCEPT ![s] = @ \cup DoneStates]
  /\ mp_bHandshakePumpOnWrite' = [mp_bHandshakePumpOnWrite EXCEPT ![s] = FALSE]
  /\ OnStateChange(s, DoneStates)
  /\ Goto(s, IF op[s] = "None" THEN "Idle" ELSE "Transfer")
  /\ UNCHANGED <<scenario, left, chain, mp_bSendShutdown, mp_bBrokenStateReported, op,
                 mp_ConnectionGeneration, mp_bTransportConnected, net, incoming, edges, owner,
                 dataVars, accepted>>

PumpEnds(s) ==
  /\ Running(s, "End") /\ ~Complete(s)
  /\ Goto(s, "Idle")
  /\ op' = [op EXCEPT ![s] = "None"]
  /\ UNCHANGED <<scenario, left, ownVars, loopVars, net, incoming, edges, owner, reports, dataVars,
                 accepted>>

\* a send or receive of the platform throws, or the crypto does
PumpThrows(s) ==
  /\ "Throw" \in left
  /\ pc[s] \in {"Flush", "Read", "LastFlush"}
  /\ left' = left \ {"Throw"}
  /\ Goto(s, "Fail")
  /\ UNCHANGED <<scenario, ownVars, op, loopVars, net, incoming, edges, owner, reports, dataVars,
                 accepted>>

-----------------------------------------------------------------------------
(* The calls of the owner.                                                 *)

\* The actor handles a state with a call: f_Receive, or f_Send for a write.
CallFor(s, flag) ==
  /\ owner[s] = "Actor" /\ Running(s, "Idle")
  /\ flag \in reports[s] /\ flag # "Closed"
  /\ reports' = [reports EXCEPT ![s] = @ \ {flag}]
  /\ UNCHANGED <<scenario, left, net, incoming, edges, owner, dataVars, accepted>>

SendRefused(s) == mp_State[s] = "ShutdownSocket" \/ mp_bSendShutdown[s]

\* f_Send that answers nothing, and fp_HandleHandshake where nothing is to pump
CallIdle(s, flag) ==
  /\ CallFor(s, flag)
  /\ \/ /\ \/ flag = "Write" /\ SendRefused(s)
           \/ streaming[s]
           \/ mp_State[s] = "None"
           \/ mp_State[s] = "Connect" /\ ~mp_bTransportConnected[s]
        /\ UNCHANGED handshake
     \/ /\ ~(flag = "Write" /\ SendRefused(s)) /\ ~streaming[s]
        /\ mp_State[s] \in {"ShutdownSocket", "Disconnected"}
        /\ handshake' = [handshake EXCEPT ![s] = NoHandshake]
  /\ UNCHANGED <<mp_State, chain, mp_bSendShutdown, mp_bBrokenStateReported, pc, op, loopVars>>

Calls(s, flag) ==
  /\ CallFor(s, flag) /\ MayCall(s)
  /\ ~(flag = "Write" /\ SendRefused(s))
  /\ op' = [op EXCEPT ![s] = flag]
  /\ UNCHANGED <<chain, mp_bSendShutdown, mp_bBrokenStateReported, loopVars>>

\* fp_HandleHandshake, by the state it finds
CallStartsHandshake(s, flag) ==
  /\ Calls(s, flag)
  /\ mp_State[s] = "Connect" /\ mp_bTransportConnected[s]
  /\ StartHandshake(s, net[s] \in {"Open", "Shut"})

CallPumps(s, flag) ==
  /\ Calls(s, flag)
  /\ mp_State[s] = "Handshake"
  /\ Goto(s, "Flush")
  /\ UNCHANGED <<mp_State, handshake>>

\* Mutant: the payload does not wait for the handshake.
CallTransfersEarly(s, flag) ==
  /\ Calls(s, flag)
  /\ mp_State[s] \in {"Handshake", "Done"}
  /\ Goto(s, "Transfer")
  /\ UNCHANGED <<mp_State, handshake>>

CallTransfers(s, flag) ==
  /\ Calls(s, flag)
  /\ mp_State[s] = "Done" /\ ~scenario.completion
  /\ Goto(s, "Transfer")
  /\ UNCHANGED <<mp_State, handshake>>

\* what the rest of f_Receive and f_Send leave alone
TransferKeeps(s) ==
  /\ Goto(s, "Idle")
  /\ op' = [op EXCEPT ![s] = "None"]
  /\ UNCHANGED <<scenario, left, ownVars, mp_ConnectionGeneration, mp_bHandshakePumpOnWrite,
                 mp_bTransportConnected, net, edges, owner, accepted>>

\* f_Receive, until the socket has no more
ReceivePayload(s) ==
  /\ Running(s, "Transfer") /\ op[s] = "Read"
  /\ Take(s, Len(incoming[s]))
  /\ received' = [received EXCEPT ![s] = @ \o incoming[s]]
  /\ UNCHANGED <<sent, streaming, submitted>>
  /\ TransferKeeps(s)

Data(s, n) == [i \in 1 .. n |-> Unit("Data", Hello(s), <<sent[s] + i>>)]

\* f_Send and f_SendVectored, of what the actor has queued
SendPayload(s) ==
  /\ Running(s, "Transfer") /\ op[s] = "Write"
  /\ LET queued == Payload - sent[s]
         n == IF ~HasPeer(s) THEN 0 ELSE IF queued < Space(s) THEN queued ELSE Space(s) IN
       /\ IF HasPeer(s) THEN Write(s, Data(s, n)) ELSE UNCHANGED <<incoming, mp_ExtraState, reports>>
       /\ sent' = [sent EXCEPT ![s] = @ + n]
  /\ UNCHANGED <<received, streaming, submitted>>
  /\ TransferKeeps(s)

\* f_GetCompletionIo and f_StartReceiveStream: there is none before the handshake is done
SupportsCompletion(s) == scenario.completion /\ mp_State[s] = "Done"

\* The actor that handles a state turns to submissions and the receive stream.
Activate(s) ==
  /\ owner[s] = "Actor" /\ MayCall(s)
  /\ reports[s] \cap {"Read", "Write"} # {}
  /\ SupportsCompletion(s) /\ ~streaming[s]
  /\ streaming' = [streaming EXCEPT ![s] = TRUE]
  /\ UNCHANGED <<scenario, left, ownVars, pc, op, loopVars, net, incoming, edges, owner, reports,
                 sent, received, submitted, accepted>>

\* f_SubmitSendVectored, of all that the actor has queued
SubmitSend(s) ==
  /\ streaming[s] /\ owner[s] = "Actor" /\ MayCall(s)
  /\ mp_State[s] = "Done" /\ ~mp_bSendShutdown[s]
  /\ sent[s] < Payload
  /\ submitted' = [submitted EXCEPT ![s] = @ \o Data(s, Payload - sent[s])]
  /\ sent' = [sent EXCEPT ![s] = Payload]
  /\ UNCHANGED <<scenario, left, ownVars, pc, op, loopVars, net, incoming, edges, owner, reports,
                 received, streaming, accepted>>

\* what the platform leaves alone at a streaming socket
StreamKeeps ==
  UNCHANGED <<scenario, left, ownVars, pc, op, mp_ConnectionGeneration, mp_bHandshakePumpOnWrite,
              mp_bTransportConnected, net, edges, owner, sent, streaming, accepted>>

\* external: the kernel writes what it has room for
KernelWrites(s) ==
  /\ submitted[s] # <<>> /\ net[s] = "Open" /\ HasPeer(s) /\ Space(s) > 0
  /\ LET n == IF Len(submitted[s]) < Space(s) THEN Len(submitted[s]) ELSE Space(s) IN
       /\ Write(s, SubSeq(submitted[s], 1, n))
       /\ submitted' = [submitted EXCEPT ![s] = SubSeq(@, n + 1, Len(@))]
  /\ UNCHANGED received
  /\ StreamKeeps

\* f_ResolveReceiveSegmentShared: a segment of the stream, as it is
ReceiveSegment(s) ==
  /\ streaming[s] /\ owner[s] = "Actor"
  /\ incoming[s] # <<>>
  /\ Take(s, Len(incoming[s]))
  /\ received' = [received EXCEPT ![s] = @ \o incoming[s]]
  /\ UNCHANGED submitted
  /\ StreamKeeps

\* f_Shutdown: an established connection stops its sends, any other is over
Shutdown(s) ==
  /\ "Shutdown" \in left
  /\ owner[s] = "Actor" /\ Running(s, "Idle")
  /\ left' = left \ {"Shutdown"}
  /\ IF mp_State[s] = "Done"
       THEN /\ mp_bSendShutdown' = [mp_bSendShutdown EXCEPT ![s] = TRUE]
            /\ UNCHANGED mp_State
       ELSE /\ mp_State' = [mp_State EXCEPT ![s] = "ShutdownSocket"]
            /\ UNCHANGED mp_bSendShutdown
  /\ Leaves(s, "Shut")
  /\ UNCHANGED <<scenario, handshake, chain, mp_bBrokenStateReported, pc, op, loopVars, incoming,
                 owner, reports, dataVars, accepted>>

\* f_Close, by the actor or the client that is told of a close
Close(s) ==
  /\ owner[s] \in {"Connecting", "Actor"} /\ Running(s, "Idle")
  /\ "Closed" \in reports[s]
  /\ owner' = [owner EXCEPT ![s] = "Gone"]
  /\ reports' = [reports EXCEPT ![s] = {}]
  /\ Leaves(s, "Closed")
  /\ UNCHANGED <<scenario, left, ownVars, pc, op, loopVars, incoming, dataVars, accepted>>

\* The client or the listener hands the socket to the actor: f_SetOnStateChange
\* and f_GetState, which takes the extra states.
HandOver(s) ==
  /\ owner[s] \in {"Connected", "Accepted"} /\ Running(s, "Idle")
  /\ owner' = [owner EXCEPT ![s] = "Actor"]
  /\ reports' = [reports EXCEPT ![s] = @ \cup mp_ExtraState[s]]
  /\ mp_ExtraState' = [mp_ExtraState EXCEPT ![s] = {}]
  /\ UNCHANGED <<scenario, left, ownVars, pc, op, mp_ConnectionGeneration,
                 mp_bHandshakePumpOnWrite, mp_bTransportConnected, net, incoming, edges, dataVars,
                 accepted>>

-----------------------------------------------------------------------------
(* The loop and the platform.                                              *)

\* Mutant: a callback does not know its attempt.
AlwaysCurrent(s, generation) == TRUE

\* A callback refuses the states of an earlier attempt.
Current(s, generation) == mp_ConnectionGeneration[s] = generation

\* the loop reports that the transport connected or closed
Deliver(s) ==
  /\ \E e \in edges[s] :
       /\ edges' = [edges EXCEPT ![s] = @ \ {e}]
       /\ IF Current(s, e[1])
            THEN
              /\ StateAdded(s, e[2])
              /\ mp_bTransportConnected' =
                   [mp_bTransportConnected EXCEPT ![s] = @ \/ e[2] = "Connected"]
              /\ owner' = [owner EXCEPT ![s] =
                   IF @ = "Connecting" /\ e[2] = "Connected" THEN "Connected" ELSE @]
          ELSE UNCHANGED <<mp_bTransportConnected, mp_ExtraState, reports, owner>>
  /\ UNCHANGED <<scenario, left, ownVars, pc, op, mp_ConnectionGeneration,
                 mp_bHandshakePumpOnWrite, net, incoming, dataVars, accepted>>

Connecting(flag) ==
  /\ net[Client] = "Connecting"
  /\ edges' = Raise(edges, Client, flag)
  /\ UNCHANGED <<scenario, ownVars, pc, op, loopVars, incoming, owner, reports, dataVars, accepted>>

\* external: the transport connects, and the server has it to accept
TransportConnects ==
  /\ Connecting("Connected")
  /\ net' = [net EXCEPT ![Client] = "Open", ![mp_ConnectionGeneration[Client]] = "Backlog"]
  /\ UNCHANGED left

\* external: the transport does not connect
TransportRefused ==
  /\ "Refuse" \in left
  /\ left' = left \ {"Refuse"}
  /\ Connecting("Closed")
  /\ net' = [net EXCEPT ![Client] = "Closed"]

-----------------------------------------------------------------------------

PumpStep(s) ==
  \/ FlushOutgoing(s)
  \/ ReadLength(s)
  \/ HandleHelloFrame(s)
  \/ HandleSignatureFrame(s)
  \/ HandleAcceptFrame(s)
  \/ StopReading(s)
  \/ HandshakeDone(s)
  \/ PumpEnds(s)
  \/ FailHandshake(s)

OwnerStep(s) ==
  \/ \E flag \in {"Read", "Write"} :
       \/ CallIdle(s, flag)
       \/ CallStartsHandshake(s, flag)
       \/ CallPumps(s, flag)
       \/ CallTransfers(s, flag)
  \/ ReceivePayload(s)
  \/ SendPayload(s)
  \/ Activate(s)
  \/ SubmitSend(s)
  \/ ReceiveSegment(s)
  \/ Close(s)
  \/ HandOver(s)

UserStep ==
  \/ AsyncConnect
  \/ Connect
  \/ ConnectThrows
  \/ TransportRefused
  \/ \E s \in Sockets : Shutdown(s) \/ PumpThrows(s)

SystemStep ==
  \/ TransportConnects
  \/ \E s \in Attempts : Accept(s) \/ AdoptSocket(s)
  \/ \E s \in Sockets : PumpStep(s) \/ OwnerStep(s) \/ Deliver(s) \/ KernelWrites(s)

Next == UserStep \/ SystemStep

\* The threads run, the loop delivers, the listener accepts and the kernel
\* connects; nobody has to connect, shut down or fail.
Spec == Init /\ [][Next]_vars /\ WF_vars(SystemStep)

-----------------------------------------------------------------------------
(* Properties.                                                             *)

\* The hellos of attempt g.
HellosOf(g) == <<[by |-> Client, attempt |-> g], [by |-> g, attempt |-> g]>>

\* No end reports success that its peer has not accepted it: both verified the
\* other, over the hellos of this very attempt, and the certificates the socket
\* shows are those of this peer, whatever connection it carried before.
MutualAcceptance ==
  \A s \in Sockets : mp_State[s] = "Done" =>
    LET g == Attempt(s) IN
      /\ {<<TRUE, HellosOf(g)>>, <<FALSE, HellosOf(g)>>} \subseteq accepted
      /\ chain[s] = IF s = Client THEN <<g>>
                    ELSE IF scenario.client.certified THEN <<Client>> ELSE <<>>

\* The application sees exactly what the application of the peer sent, in order:
\* no byte of the handshake reaches it, and the handshake reads no byte of it,
\* however the frames were split and however far the peer is ahead.
PayloadIntact ==
  \A s \in Sockets :
    \A i \in DOMAIN received[s] :
      /\ received[s][i].kind = "Data"
      /\ received[s][i].hello.attempt = Attempt(s)
      /\ received[s][i].transcript = <<i>>

\* Each accepts the other, and nothing happens to them.
Accepts(own, peer) ==
  /\ own.identifies /\ peer.claimsRight
  /\ IF peer.certified THEN own.verifies \/ own.ignores ELSE own.allowsMissing
Undisturbed ==
  /\ scenario.events = {}
  /\ Accepts(scenario.server, scenario.client)
  /\ Accepts([scenario.client EXCEPT !.allowsMissing = FALSE], scenario.server)

Last(s) == Attempt(s) = scenario.attempts

\* The handshake of s is over: done when nothing disturbs the last attempt, else
\* done or broken.
Ended(s) ==
  IF Undisturbed /\ Last(s) THEN mp_State[s] \in {"None", "Done"}
  ELSE mp_State[s] \notin {"Connect", "Handshake"} \/ owner[s] = "Gone"

\* An attempt that begins ends, however the frames are split, whoever fails at
\* whatever stage, and whatever reports of an earlier attempt are still on their
\* way.
HandshakeEnds == <>[](\A s \in Sockets : Ended(s))

\* What the peer sends behind its acceptance arrives, also when the handshake
\* consumed the readiness that announced it.
Arrived(s) ==
  Undisturbed /\ Last(s) /\ mp_State[s] = "Done" => Len(received[s]) = Payload
PayloadArrives == <>[](\A s \in Sockets : Arrived(s))
=============================================================================

------------------------- MODULE ConnectionSetupProofs -------------------------
(***************************************************************************)
(* Theorems about ConnectionSetup, for every number of attempts, peers,    *)
(* addresses and failures: an answer stands, no callback of a listen is    *)
(* called after its end, and every variable keeps its type, so no job      *)
(* takes the socket of an entry that is gone.                              *)
(***************************************************************************)
EXTENDS ConnectionSetup, SequenceTheorems, TLAPS

\* A connection has one reply, in its mailbox or handled.
RepliesOnce ==
  \A c \in Conns :
    /\ inbox[c] # <<>> => replied[c] /\ Len(inbox[c]) = 1
    /\ conn[c] \in {"Accepted", "Rejected"} => replied[c] /\ inbox[c] = <<>>

\* The promise of an attempt is left to one of them: its callback until it has
\* replied, the job that dispatched, or the wait for the handshake.
PromiseLeft ==
  \A a \in Attempts :
    /\ call[a] \in {"Idle", "Resolving"} =>
         promise[a] = "None" /\ callback[a] = "None" /\ ~pReplied[a]
    /\ callback[a] = "Armed" /\ ~pReplied[a] => promise[a] = "Open"
    /\ job[a] # "None" =>
         promise[a] = "Open" /\ pReplied[a] /\ pending[a] # "None"
         /\ "Finish" \notin holders[ClientConn(a)]
    /\ "Finish" \in holders[ClientConn(a)] => promise[a] = "Open" /\ pReplied[a]
    /\ callback[a] = "Armed" => pending[a] # "None"

\* A listen in the map has a subscription whose cleanup has not begun.
ListenHeld ==
  /\ start = "Idle" => listen = "None"
  /\ listen = "Here" => subscription \in {"Held", "Dropped"}

IInv == TypeOK /\ RepliesOnce /\ PromiseLeft /\ ListenHeld

-----------------------------------------------------------------------------
\* The state of a connection once it has its reply.
ReplyStands ==
  \A c \in Conns : conn[c] \in {"Accepted", "Rejected"} => conn'[c] \in {conn[c], "Destroyed"}

\* No step but Construct makes a job wait for a handshake.
NoNewWait == \A c \in Conns : "Finish" \in holders'[c] => "Finish" \in holders[c]

ConnKept == ConnTypeOK' /\ RepliesOnce' /\ ReplyStands

\* The references change, and the connection goes with the last of them.
LEMMA ReferType ==
  ASSUME ConnTypeOK, NEW c \in Conns, NEW s \in ConnStates, NEW refs \in SUBSET Holders,
         Refer(c, s, refs)
  PROVE  /\ conn' \in [Conns -> ConnStates] /\ holders' \in [Conns -> SUBSET Holders]
         /\ conn'[c] \in {s, "Destroyed"} /\ holders'[c] = refs
         /\ \A d \in Conns \ {c} : conn'[d] = conn[d] /\ holders'[d] = holders[d]
BY DEF ConnTypeOK, Refer, ConnStates

\* Such a step keeps what is said of replies, if it keeps what is said of its own.
LEMMA ReferKeeps ==
  ASSUME ConnTypeOK, RepliesOnce, NEW c \in Conns, NEW s \in ConnStates,
         NEW refs \in SUBSET Holders, Refer(c, s, refs),
         handle' \in [Conns -> {"None", "Held", "Gone"}], replied' \in [Conns -> BOOLEAN],
         inbox' \in [Conns -> Seq({"Accept", "Reject"})],
         \A d \in Conns \ {c} : replied'[d] = replied[d] /\ inbox'[d] = inbox[d],
         inbox'[c] # <<>> => replied'[c] /\ Len(inbox'[c]) = 1,
         s \in {"Accepted", "Rejected"} => replied'[c] /\ inbox'[c] = <<>>,
         conn[c] \in {"Accepted", "Rejected"} => s = conn[c]
  PROVE  ConnKept /\ \A d \in Conns \ {c} : holders'[d] = holders[d]
<1>1. /\ conn' \in [Conns -> ConnStates] /\ holders' \in [Conns -> SUBSET Holders]
      /\ conn'[c] \in {s, "Destroyed"}
      /\ \A d \in Conns \ {c} : conn'[d] = conn[d] /\ holders'[d] = holders[d]
  BY ReferType
<1>2. ConnTypeOK'
  BY <1>1 DEF ConnTypeOK, ConnStates
<1>3. RepliesOnce'
  <2> SUFFICES ASSUME NEW d \in Conns
               PROVE  /\ inbox'[d] # <<>> => replied'[d] /\ Len(inbox'[d]) = 1
                      /\ conn'[d] \in {"Accepted", "Rejected"} => replied'[d] /\ inbox'[d] = <<>>
    BY DEF RepliesOnce
  <2>1. CASE d = c
    BY <1>1, <2>1
  <2>2. CASE d # c
    BY <1>1, <2>2 DEF RepliesOnce
  <2> QED  BY <2>1, <2>2
<1>4. ReplyStands
  BY <1>1 DEF ReplyStands
<1> QED  BY <1>1, <1>2, <1>3, <1>4 DEF ConnKept

LEMMA ConstructKeeps ==
  ASSUME ConnTypeOK, RepliesOnce, NEW c \in Conns, NEW refs \in SUBSET Holders, Construct(c, refs)
  PROVE  ConnKept /\ \A d \in Conns \ {c} : holders'[d] = holders[d]
<1>1. conn[c] = "None" /\ Refer(c, "Handshake", refs) /\ UNCHANGED <<handle, replied, inbox>>
  BY DEF Construct
<1>2. "Handshake" \in ConnStates
  BY DEF ConnStates
<1>3. ConnTypeOK /\ (inbox[c] # <<>> => replied[c] /\ Len(inbox[c]) = 1)
  BY DEF RepliesOnce
<1> QED  BY <1>1, <1>2, <1>3, ReferKeeps DEF ConnTypeOK

\* A step that leaves a connection in its state, and makes no job wait for it.
LEMMA StayKeeps ==
  ASSUME ConnTypeOK, RepliesOnce, NEW c \in Conns, NEW refs \in SUBSET Holders,
         Refer(c, conn[c], refs), "Finish" \in refs => "Finish" \in holders[c],
         handle' \in [Conns -> {"None", "Held", "Gone"}],
         UNCHANGED <<replied, inbox>> \/ \E reply \in {"Accept", "Reject"} : Reply(c, reply)
  PROVE  ConnKept /\ NoNewWait /\ holders'[c] = refs
<1>1. conn[c] \in ConnStates
  BY DEF ConnTypeOK
<1>2. /\ holders'[c] = refs
      /\ \A d \in Conns \ {c} : holders'[d] = holders[d]
  BY <1>1, ReferType
<1>3. /\ inbox[c] # <<>> => replied[c] /\ Len(inbox[c]) = 1
      /\ conn[c] \in {"Accepted", "Rejected"} => replied[c] /\ inbox[c] = <<>>
  BY DEF RepliesOnce
<1>4. ConnKept
  <2>1. CASE UNCHANGED <<replied, inbox>>
    BY <1>1, <1>3, <2>1, ReferKeeps DEF ConnTypeOK
  <2>2. ASSUME NEW reply \in {"Accept", "Reject"}, Reply(c, reply)
        PROVE  ConnKept
    <3>1. /\ replied' \in [Conns -> BOOLEAN] /\ replied'[c]
          /\ \A d \in Conns \ {c} : replied'[d] = replied[d]
      BY <2>2 DEF Reply, ConnTypeOK
    <3>2. /\ inbox' \in [Conns -> Seq({"Accept", "Reject"})]
          /\ inbox'[c] = IF replied[c] THEN inbox[c] ELSE Append(inbox[c], reply)
          /\ \A d \in Conns \ {c} : inbox'[d] = inbox[d]
      BY <2>2 DEF Reply, ConnTypeOK
    <3>3. inbox[c] \in Seq({"Accept", "Reject"})
      BY DEF ConnTypeOK
    <3>4. inbox'[c] # <<>> => Len(inbox'[c]) = 1
      BY <1>3, <3>2, <3>3
    <3>5. conn[c] \in {"Accepted", "Rejected"} => replied'[c] /\ inbox'[c] = <<>>
      BY <1>3, <3>1, <3>2
    <3> QED  BY <1>1, <3>1, <3>2, <3>4, <3>5, ReferKeeps
  <2> QED  BY <2>1, <2>2
<1> QED  BY <1>2, <1>4 DEF NoNewWait

\* The job that waited lets go, or passes the connection on.
LEMMA PassKeeps ==
  ASSUME ConnTypeOK, RepliesOnce, NEW c \in Conns, LetGo(c) \/ HandOver(c)
  PROVE  ConnKept /\ NoNewWait /\ "Finish" \notin holders'[c]
<1>1. holders[c] \in SUBSET Holders
  BY DEF ConnTypeOK
<1>2. CASE LetGo(c)
  <2>1. Refer(c, conn[c], holders[c] \ {"Finish"}) /\ UNCHANGED <<handle, replied, inbox>>
    BY <1>2 DEF LetGo
  <2> QED  BY <1>1, <2>1, StayKeeps DEF ConnTypeOK
<1>3. CASE HandOver(c)
  <2>1. /\ Refer(c, conn[c], (holders[c] \ {"Finish"}) \cup {"Handle"})
        /\ UNCHANGED <<replied, inbox>>
        /\ handle' \in [Conns -> {"None", "Held", "Gone"}]
    BY <1>3 DEF HandOver, ConnTypeOK
  <2>2. (holders[c] \ {"Finish"}) \cup {"Handle"} \in SUBSET (Holders \ {"Finish"})
    BY <1>1 DEF Holders
  <2> QED  BY <2>1, <2>2, StayKeeps
<1> QED  BY <1>2, <1>3

\* The handle is used or dropped, and the first reply is posted; the application
\* closes; or the handshake settles.
LEMMA UsesKeep ==
  ASSUME ConnTypeOK, RepliesOnce, NEW c \in Conns,
         Accept(c) \/ Reject(c) \/ Abandon(c) \/ CloseInterface(c) \/ FinishConnection(c)
  PROVE  ConnKept /\ NoNewWait
<1>1. holders[c] \in SUBSET Holders /\ {"Message"} \in SUBSET Holders
  BY DEF ConnTypeOK, Holders
<1>2. CASE Accept(c) \/ Reject(c) \/ Abandon(c)
  <2>1. PICK held \in {holders[c], holders[c] \ {"Handle"}} : Refer(c, conn[c], WithReply(c, held))
    BY <1>2 DEF Accept, Reject, Abandon
  <2>2. /\ WithReply(c, held) \in SUBSET Holders
        /\ "Finish" \in WithReply(c, held) => "Finish" \in holders[c]
    BY <1>1 DEF WithReply
  <2>3. /\ handle' \in [Conns -> {"None", "Held", "Gone"}]
        /\ \E reply \in {"Accept", "Reject"} : Reply(c, reply)
    BY <1>2 DEF Accept, Reject, Abandon, ConnTypeOK
  <2> QED  BY <2>1, <2>2, <2>3, StayKeeps
<1>3. CASE CloseInterface(c)
  <2>1. Refer(c, conn[c], holders[c] \ {"Interface"}) /\ UNCHANGED <<handle, replied, inbox>>
    BY <1>3 DEF CloseInterface
  <2> QED  BY <1>1, <2>1, StayKeeps DEF ConnTypeOK
<1>4. CASE FinishConnection(c)
  <2>1. /\ conn[c] = "Handshake" /\ UNCHANGED <<holders, handle, replied, inbox>>
        /\ \E result \in {"Ready", "Failed"} : conn' = [conn EXCEPT ![c] = result]
    BY <1>4 DEF FinishConnection
  <2>2. /\ conn' \in [Conns -> ConnStates] /\ conn'[c] \in {"Ready", "Failed"}
        /\ \A d \in Conns \ {c} : conn'[d] = conn[d]
    BY <2>1 DEF ConnTypeOK, ConnStates
  <2> QED  BY <2>1, <2>2 DEF ConnTypeOK, ConnKept, RepliesOnce, ReplyStands, NoNewWait
<1> QED  BY <1>2, <1>3, <1>4

\* The connection handles its reply.
LEMMA HandleKeeps ==
  ASSUME ConnTypeOK, RepliesOnce, NEW c \in Conns, ConnectionStep(c)
  PROVE  ConnKept /\ NoNewWait
<1>1. /\ inbox[c] # <<>> /\ inbox' = [inbox EXCEPT ![c] = Tail(inbox[c])]
      /\ UNCHANGED <<handle, replied>>
  BY DEF ConnectionStep, HandleAccept, HandleReject
<1>2. /\ replied[c] /\ inbox[c] \in Seq({"Accept", "Reject"}) /\ Len(inbox[c]) = 1
      /\ conn[c] \notin {"Accepted", "Rejected"} /\ holders[c] \in SUBSET Holders
  BY <1>1 DEF RepliesOnce, ConnTypeOK
<1>3. \E s \in {"Accepted", "Rejected"}, refs \in SUBSET Holders :
        Refer(c, s, refs) /\ ("Finish" \in refs => "Finish" \in holders[c])
  <2>1. Unposted(c) \in SUBSET Holders /\ ("Finish" \in Unposted(c) => "Finish" \in holders[c])
    BY <1>2 DEF Unposted
  <2>2. CASE HandleAccept(c)
    <3>1. Unposted(c) \cup {"Interface"} \in SUBSET Holders
      BY <2>1 DEF Holders
    <3> QED  BY <2>1, <2>2, <3>1 DEF HandleAccept
  <2>3. CASE HandleReject(c)
    BY <2>1, <2>3 DEF HandleReject
  <2> QED  BY <2>2, <2>3 DEF ConnectionStep
<1>4. PICK s \in {"Accepted", "Rejected"}, refs \in SUBSET Holders :
        Refer(c, s, refs) /\ ("Finish" \in refs => "Finish" \in holders[c])
  BY <1>3
<1>5. Tail(inbox[c]) = <<>>
  <2>1. Tail(inbox[c]) \in Seq({"Accept", "Reject"}) /\ Len(Tail(inbox[c])) = 0
    BY <1>1, <1>2, HeadTailProperties
  <2> QED  BY <2>1, EmptySeq
<1>6. <<>> \in Seq({"Accept", "Reject"}) /\ s \in ConnStates
  BY DEF ConnStates
<1>7. /\ inbox' \in [Conns -> Seq({"Accept", "Reject"})]
      /\ inbox'[c] = <<>> /\ \A d \in Conns \ {c} : inbox'[d] = inbox[d]
  BY <1>1, <1>5, <1>6 DEF ConnTypeOK
<1>8. ConnKept /\ \A d \in Conns \ {c} : holders'[d] = holders[d]
  BY <1>1, <1>2, <1>4, <1>6, <1>7, ReferKeeps DEF ConnTypeOK
<1>9. holders'[c] = refs
  BY <1>4, <1>6, ReferType
<1> QED  BY <1>4, <1>8, <1>9 DEF NoNewWait

-----------------------------------------------------------------------------
(***************************************************************************)
(* The steps of the server.                                                *)
(***************************************************************************)
\* No step of the server makes a job of the client wait.
NoClientWait ==
  \A a \in Attempts : "Finish" \in holders'[ClientConn(a)] => "Finish" \in holders[ClientConn(a)]

ServerKept == ServerTypeOK' /\ ListenHeld' /\ ConnKept /\ NoClientWait

LEMMA TwoEnds ==
  /\ \A c \in Incoming : c \in Conns
  /\ \A a \in Attempts : ClientConn(a) \in Conns /\ ClientConn(a) \notin Incoming
  /\ \A a, b \in Attempts : ClientConn(a) = ClientConn(b) => a = b
BY DEF Conns, Incoming, ClientConn, ServerConn

LEMMA SameConns ==
  ASSUME ConnTypeOK, RepliesOnce, UNCHANGED connVars
  PROVE  ConnKept /\ NoNewWait /\ NoClientWait
BY TwoEnds DEF ConnTypeOK, RepliesOnce, connVars, ConnKept, ReplyStands, NoNewWait, NoClientWait

LEMMA DestroyListenersType ==
  ASSUME mailbox \in [Addresses -> Seq(Messages)], DestroyListeners
  PROVE  mailbox' \in [Addresses -> Seq(Messages)]
<1>1. ASSUME NEW x \in Addresses
      PROVE  Append(mailbox[x], "Destroy") \in Seq(Messages)
  <2>1. mailbox[x] \in Seq(Messages) /\ "Destroy" \in Messages
    BY DEF Messages
  <2> QED  BY <2>1, AppendProperties
<1> QED  BY <1>1 DEF DestroyListeners

\* One more failure is still within the bound.
LEMMA FailuresType ==
  ASSUME nFailures \in 0 .. MaxFailures, nFailures < MaxFailures, nFailures' = nFailures + 1
  PROVE  nFailures' \in 0 .. MaxFailures
BY ServerAssumption

\* The start and the end of the listen and of the server.
LEMMA ListenSteps ==
  ASSUME ConnTypeOK, RepliesOnce, ServerTypeOK, ListenHeld,
         \/ StartListen \/ StopListen \/ DestroyServer \/ ListenFails \/ StartStep \/ EndStep
  PROVE  ServerKept
<1> USE ServerAssumption DEF ServerTypeOK, ListenHeld, startVars, listenVars, Messages, ListenerStates
<1>1. UNCHANGED connVars
  BY DEF StartListen, StopListen, DestroyServer, ListenFails, StartStep, EndStep, Listen, GiveSocket,
         ListenedAll, StartReturns, Cleanup, CleanupEnds, ServerGone
<1>2. ASSUME StartListen \/ StopListen
      PROVE  ServerTypeOK' /\ ListenHeld'
  BY <1>2 DEF StartListen, StopListen
<1>3. ASSUME DestroyServer
      PROVE  ServerTypeOK' /\ ListenHeld'
  <2>1. mailbox' \in [Addresses -> Seq({"SetSocket", "StateAdded", "Destroy"})]
    BY <1>3, DestroyListenersType DEF DestroyServer
  <2> QED  BY <1>3, <2>1 DEF DestroyServer
<1>4. ASSUME ListenFails
      PROVE  ServerTypeOK' /\ ListenHeld'
  BY <1>4 DEF ListenFails
<1>5. ASSUME Listen
      PROVE  ServerTypeOK' /\ ListenHeld'
  BY <1>5 DEF Listen
<1>6. ASSUME GiveSocket
      PROVE  ServerTypeOK' /\ ListenHeld'
  BY <1>6 DEF GiveSocket, Addresses
<1>7. ASSUME ListenedAll \/ StartReturns
      PROVE  ServerTypeOK' /\ ListenHeld'
  BY <1>7 DEF ListenedAll, StartReturns
<1>8. ASSUME Cleanup
      PROVE  ServerTypeOK' /\ ListenHeld'
  <2>1. mailbox' \in [Addresses -> Seq({"SetSocket", "StateAdded", "Destroy"})]
    BY <1>8, DestroyListenersType DEF Cleanup
  <2> QED  BY <1>8, <2>1 DEF Cleanup
<1>9. ASSUME CleanupEnds \/ ServerGone
      PROVE  ServerTypeOK' /\ ListenHeld'
  BY <1>9 DEF CleanupEnds, ServerGone
<1> QED
  BY <1>1, <1>2, <1>3, <1>4, <1>5, <1>6, <1>7, <1>8, <1>9, SameConns
  DEF StartStep, EndStep, ServerKept

\* A connection that arrives, and the listen actor until it accepts.
LEMMA ListenerSteps ==
  ASSUME ConnTypeOK, RepliesOnce, ServerTypeOK, ListenHeld, NEW x \in Addresses,
         \/ \E c \in Incoming : adding[c] = "None" /\ Arrive(c, x)
         \/ SetListenSocket(x) \/ ListenStateAdded(x) \/ DestroyListener(x) \/ ListenerClosed(x)
         \/ AcceptNone(x) \/ AcceptFails(x)
  PROVE  ServerKept
<1> USE ServerAssumption DEF ServerTypeOK, startVars, Messages, ListenerStates, AddingStates
<1>1. UNCHANGED <<connVars, start, listen, subscription>>
  BY DEF Arrive, SetListenSocket, ListenStateAdded, DestroyListener, ListenerClosed,
         AcceptNone, AcceptFails
<1>2. ListenHeld'
  BY <1>1 DEF ListenHeld
<1>3. ASSUME NEW c \in Incoming, Arrive(c, x)
      PROVE  ServerTypeOK'
  BY <1>3 DEF Arrive
<1>4. ASSUME SetListenSocket(x) \/ ListenStateAdded(x) \/ DestroyListener(x)
      PROVE  ServerTypeOK'
  <2>1. mailbox' \in [Addresses -> Seq({"SetSocket", "StateAdded", "Destroy"})]
    <3>1. mailbox[x] # <<>> /\ mailbox' = [mailbox EXCEPT ![x] = Tail(@)]
      BY <1>4 DEF SetListenSocket, ListenStateAdded, DestroyListener, Receive
    <3>2. Tail(mailbox[x]) \in Seq({"SetSocket", "StateAdded", "Destroy"})
      BY <3>1, HeadTailProperties
    <3> QED  BY <3>1, <3>2
  <2> QED
    BY <1>4, <2>1 DEF SetListenSocket, ListenStateAdded, DestroyListener, ProcessListenState
<1>5. ASSUME ListenerClosed(x)
      PROVE  ServerTypeOK'
  BY <1>5 DEF ListenerClosed
<1>6. ASSUME AcceptNone(x) \/ AcceptFails(x)
      PROVE  ServerTypeOK'
  <2>1. nFailures' \in 0 .. MaxFailures
    BY <1>6, FailuresType DEF AcceptNone, AcceptFails
  <2> QED  BY <1>6, <2>1 DEF AcceptNone, AcceptFails
<1> QED  BY <1>1, <1>2, <1>3, <1>4, <1>5, <1>6, SameConns DEF ServerKept

\* The listen actor accepts a connection, for its server or for no one.
LEMMA AcceptSteps ==
  ASSUME ConnTypeOK, RepliesOnce, ServerTypeOK, ListenHeld, NEW x \in Addresses,
         AcceptOne(x) \/ AcceptThenThrows(x) \/ AcceptForNoServer(x)
  PROVE  ServerKept
<1> USE ServerAssumption DEF ServerTypeOK, startVars, ListenerStates, AddingStates
<1>1. backlog[x] # <<>> /\ backlog' = [backlog EXCEPT ![x] = Tail(@)]
  BY DEF AcceptOne, AcceptThenThrows, AcceptForNoServer, TakeFirst
<1>2. Head(backlog[x]) \in Incoming /\ Tail(backlog[x]) \in Seq(Incoming)
  BY <1>1, HeadTailProperties
<1>3. PICK refs \in SUBSET Holders : Construct(Head(backlog[x]), refs)
  BY DEF AcceptOne, AcceptThenThrows, AcceptForNoServer, Holders
<1>4. ConnKept /\ NoClientWait
  BY <1>2, <1>3, ConstructKeeps, TwoEnds DEF NoClientWait
<1>5. ListenHeld'
  BY DEF AcceptOne, AcceptThenThrows, AcceptForNoServer, ListenHeld
<1>6. ServerTypeOK'
  <2>1. backlog' \in [Addresses -> Seq(Incoming)] /\ adding' \in [Incoming -> AddingStates]
    BY <1>1, <1>2 DEF AcceptOne, AcceptThenThrows, AcceptForNoServer
  <2>2. nFailures' \in 0 .. MaxFailures
    BY FailuresType DEF AcceptOne, AcceptThenThrows, AcceptForNoServer
  <2> QED  BY <2>1, <2>2 DEF AcceptOne, AcceptThenThrows, AcceptForNoServer
<1> QED  BY <1>4, <1>5, <1>6 DEF ServerKept

\* fp_AddConnection.
LEMMA AddSteps ==
  ASSUME ConnTypeOK, RepliesOnce, ServerTypeOK, ListenHeld, NEW c \in Incoming, AddStep(c)
  PROVE  ServerKept
<1> USE ServerAssumption DEF ServerTypeOK, startVars, AddingStates
<1>1. ListenHeld'
  BY DEF AddStep, AddConnection, AddListenGone, AddFailed, AddSucceeded, AddDropped, AddSettles,
         ListenHeld
<1>2. ServerTypeOK'
  BY DEF AddStep, AddConnection, AddListenGone, AddFailed, AddSucceeded, AddDropped, AddSettles
<1>3. UNCHANGED connVars \/ LetGo(c) \/ HandOver(c)
  BY DEF AddStep, AddConnection, AddListenGone, AddFailed, AddSucceeded, AddDropped
<1>4. ConnKept /\ NoClientWait
  BY <1>3, SameConns, PassKeeps, TwoEnds DEF NoNewWait, NoClientWait
<1> QED  BY <1>1, <1>2, <1>4 DEF ServerKept

-----------------------------------------------------------------------------
(***************************************************************************)
(* The steps of the client.                                                *)
(***************************************************************************)
\* The promise of f_ConnectAddress once it is set.
PromiseStands == \A a \in Attempts : promise[a] \in {"Value", "Error"} => promise'[a] = promise[a]

ClientKept == ClientTypeOK' /\ PromiseLeft' /\ PromiseStands /\ ConnKept

\* A step of the server, of a connection or of the network leaves the client as it is.
LEMMA ClientStays ==
  ASSUME ClientTypeOK, PromiseLeft, NoClientWait,
         reports' \in [Attempts -> SUBSET {"Connected", "Closed"}],
         UNCHANGED <<client, call, pending, socket, callback, pReplied, cleanup, promise, job>>
  PROVE  ClientTypeOK' /\ PromiseLeft' /\ PromiseStands
BY DEF ClientTypeOK, PromiseLeft, NoClientWait, PromiseStands

\* A connect until its socket connects, and its answer.
LEMMA CallSteps ==
  ASSUME ConnTypeOK, RepliesOnce, ClientTypeOK, PromiseLeft, NEW a \in Attempts,
         \/ Connect(a) \/ ResolveFails(a) \/ ConnectAddress(a) \/ ConnectThrows(a)
         \/ ConnectReturns(a) \/ CleanupPending(a)
  PROVE  ClientKept
<1> USE DEF ClientTypeOK, PromiseLeft, PromiseStands, connVars
<1>1. UNCHANGED connVars
  BY DEF Connect, ResolveFails, ConnectAddress, ConnectThrows, ConnectReturns, CleanupPending
<1>2. ASSUME Connect(a) \/ ResolveFails(a) \/ ConnectReturns(a)
      PROVE  ClientTypeOK' /\ PromiseLeft' /\ PromiseStands
  BY <1>2 DEF Connect, ResolveFails, ConnectReturns
<1>3. ASSUME ConnectAddress(a)
      PROVE  ClientTypeOK' /\ PromiseLeft' /\ PromiseStands
  BY <1>3 DEF ConnectAddress
<1>4. ASSUME ConnectThrows(a)
      PROVE  ClientTypeOK' /\ PromiseLeft' /\ PromiseStands
  BY <1>4 DEF ConnectThrows
<1>5. ASSUME CleanupPending(a)
      PROVE  ClientTypeOK' /\ PromiseLeft' /\ PromiseStands
  BY <1>5 DEF CleanupPending
<1> QED  BY <1>1, <1>2, <1>3, <1>4, <1>5, SameConns DEF ClientKept

\* The callback of the socket.
LEMMA CallbackSteps ==
  ASSUME ConnTypeOK, RepliesOnce, ClientTypeOK, PromiseLeft, NEW a \in Attempts,
         CallbackClosed(a) \/ CallbackConnected(a) \/ CallbackGone(a)
  PROVE  ClientKept
<1> USE DEF ClientTypeOK, PromiseLeft, PromiseStands, connVars, ClearCleanup, SetError
<1>1. UNCHANGED connVars
  BY DEF CallbackClosed, CallbackConnected, CallbackGone
<1>2. ASSUME CallbackClosed(a)
      PROVE  ClientTypeOK' /\ PromiseLeft' /\ PromiseStands
  BY <1>2 DEF CallbackClosed
<1>3. ASSUME CallbackConnected(a)
      PROVE  ClientTypeOK' /\ PromiseLeft' /\ PromiseStands
  BY <1>3 DEF CallbackConnected
<1>4. ASSUME CallbackGone(a)
      PROVE  ClientTypeOK' /\ PromiseLeft' /\ PromiseStands
  BY <1>4 DEF CallbackGone
<1> QED  BY <1>1, <1>2, <1>3, <1>4, SameConns DEF ClientKept

\* The jobs the callback dispatched.
LEMMA JobSteps ==
  ASSUME ConnTypeOK, RepliesOnce, ClientTypeOK, PromiseLeft, NEW a \in Attempts,
         \/ JobClosed(a) \/ JobConnectedDeleted(a) \/ JobConnected(a) \/ JobConnectedThrows(a)
         \/ JobDropped(a)
  PROVE  ClientKept
<1> USE DEF ClientTypeOK, PromiseLeft, PromiseStands, SetError, StartJob
<1>1. ASSUME JobClosed(a) \/ JobConnectedDeleted(a) \/ JobConnectedThrows(a) \/ JobDropped(a)
      PROVE  ClientKept
  <2>1. UNCHANGED connVars
    BY <1>1 DEF JobClosed, JobConnectedDeleted, JobConnectedThrows, JobDropped
  <2>2. ClientTypeOK' /\ PromiseStands
    BY <1>1 DEF JobClosed, JobConnectedDeleted, JobConnectedThrows, JobDropped
  <2>3. PromiseLeft'
    BY <1>1, <2>1 DEF JobClosed, JobConnectedDeleted, JobConnectedThrows, JobDropped, connVars
  <2> QED  BY <2>1, <2>2, <2>3, SameConns DEF ClientKept
<1>2. ASSUME JobConnected(a)
      PROVE  ClientKept
  <2>1. {"Finish"} \in SUBSET Holders /\ Construct(ClientConn(a), {"Finish"})
    BY <1>2 DEF JobConnected, Holders
  <2>2. ConnKept /\ \A b \in Attempts \ {a} : holders'[ClientConn(b)] = holders[ClientConn(b)]
    BY <2>1, ConstructKeeps, TwoEnds
  <2>3. ClientTypeOK' /\ PromiseStands
    BY <1>2 DEF JobConnected
  <2>4. PromiseLeft'
    BY <1>2, <2>2 DEF JobConnected
  <2> QED  BY <2>2, <2>3, <2>4 DEF ClientKept
<1> QED  BY <1>1, <1>2

\* The job that waited for the handshake, and the end of the actor.
LEMMA EndSteps ==
  ASSUME ConnTypeOK, RepliesOnce, ClientTypeOK, PromiseLeft,
         \/ \E a \in Attempts : ConnectSucceeds(a) \/ ConnectFails(a)
         \/ DestroyClient \/ ClientGone
  PROVE  ClientKept
<1> USE DEF ClientTypeOK, PromiseLeft, PromiseStands, SetError, RemoveEntries
<1>1. ASSUME NEW a \in Attempts, ConnectSucceeds(a) \/ ConnectFails(a)
      PROVE  ClientKept
  <2>1. ConnKept /\ NoNewWait /\ "Finish" \notin holders'[ClientConn(a)]
    BY <1>1, PassKeeps, TwoEnds DEF ConnectSucceeds, ConnectFails
  <2>2. ClientTypeOK' /\ PromiseStands
    BY <1>1 DEF ConnectSucceeds, ConnectFails
  <2>3. job[a] = "None" /\ promise[a] = "Open"
    BY <1>1 DEF ConnectSucceeds, ConnectFails
  <2>4. PromiseLeft'
    BY <1>1, <2>1, <2>3, TwoEnds DEF ConnectSucceeds, ConnectFails, NoNewWait
  <2> QED  BY <2>1, <2>2, <2>4 DEF ClientKept
<1>2. ASSUME DestroyClient \/ ClientGone
      PROVE  ClientKept
  <2>1. UNCHANGED connVars
    BY <1>2 DEF DestroyClient, ClientGone
  <2>2. ClientTypeOK' /\ PromiseStands
    BY <1>2 DEF DestroyClient, ClientGone
  <2>3. PromiseLeft'
    BY <1>2, <2>1 DEF DestroyClient, ClientGone, connVars
  <2> QED  BY <2>1, <2>2, <2>3, SameConns DEF ClientKept
<1> QED  BY <1>1, <1>2

-----------------------------------------------------------------------------
(***************************************************************************)
(* The specification.                                                      *)
(***************************************************************************)
LEMMA InitIInv == Init => IInv
<1> SUFFICES ASSUME Init PROVE IInv
  OBVIOUS
<1>1. ConnTypeOK /\ RepliesOnce
  BY DEF Init, ConnInit, ConnTypeOK, RepliesOnce, ConnStates
<1>2. ServerTypeOK /\ ListenHeld
  BY ServerAssumption
  DEF Init, ServerInit, ServerTypeOK, ListenHeld, ListenerStates, AddingStates, Addresses
<1>3. ClientTypeOK
  BY DEF Init, ClientInit, ClientTypeOK
<1>4. PromiseLeft
  BY TwoEnds DEF Init, ClientInit, ConnInit, PromiseLeft
<1> QED  BY <1>1, <1>2, <1>3, <1>4 DEF Init, IInv, TypeOK

\* What the network, the peers and the application do to the client's socket.
LEMMA NetworkSteps ==
  ASSUME IInv,
         \/ \E a \in Attempts : NetworkAnswers(a)
         \/ \E p \in Peers, x \in Addresses : PeerConnects(p, x)
  PROVE  ServerTypeOK' /\ ListenHeld' /\ ConnKept /\ ClientTypeOK' /\ PromiseLeft' /\ PromiseStands
         /\ link' \in [Attempts -> {"None", "Connected", "Closed"}] /\ scenario' = scenario
<1> USE DEF IInv, TypeOK
<1>1. scenario' = scenario /\ link' \in [Attempts -> {"None", "Connected", "Closed"}]
  BY DEF NetworkAnswers, NetworkConnects, NetworkRefuses, NetworkCloses, PeerConnects, serverOnly
<1>2. ServerKept
  <2>1. CASE UNCHANGED <<serverVars, connVars>>
    <3>1. ServerTypeOK' /\ ListenHeld'
      BY <2>1 DEF serverVars, ServerTypeOK, ListenHeld
    <3> QED  BY <2>1, <3>1, SameConns DEF ServerKept
  <2>2. ASSUME NEW p \in Attempts \cup Peers, NEW x \in Addresses, Arrive(ServerConn(p), x)
        PROVE  ServerKept
    <3>1. ServerConn(p) \in Incoming
      BY DEF Incoming
    <3> QED  BY <2>2, <3>1, ListenerSteps DEF Arrive
  <2> QED
    BY <2>1, <2>2 DEF NetworkAnswers, NetworkConnects, NetworkRefuses, NetworkCloses, PeerConnects
<1>3. /\ reports' \in [Attempts -> SUBSET {"Connected", "Closed"}]
      /\ UNCHANGED <<client, call, pending, socket, callback, pReplied, cleanup, promise, job>>
  BY DEF NetworkAnswers, NetworkConnects, NetworkRefuses, NetworkCloses, PeerConnects, serverOnly,
         clientVars, Report, ClientTypeOK
<1> QED  BY <1>1, <1>2, <1>3, ClientStays DEF ServerKept

LEMMA NextKeeps ==
  ASSUME IInv, [Next]_vars
  PROVE  IInv' /\ PromiseStands /\ ReplyStands
<1> USE DEF IInv, TypeOK
<1>1. ASSUME ServerKept, UNCHANGED serverOnly
      PROVE  IInv' /\ PromiseStands /\ ReplyStands
  <2>1. UNCHANGED <<clientVars, link, scenario>>
    BY <1>1 DEF serverOnly
  <2>2. ClientTypeOK' /\ PromiseLeft' /\ PromiseStands
    BY <1>1, <2>1, ClientStays DEF clientVars, ClientTypeOK, ServerKept
  <2> QED  BY <1>1, <2>1, <2>2 DEF ServerKept, ConnKept
<1>2. ASSUME ClientKept, UNCHANGED clientOnly
      PROVE  IInv' /\ PromiseStands /\ ReplyStands
  <2>1. ServerTypeOK' /\ ListenHeld' /\ UNCHANGED <<link, scenario>>
    BY <1>2 DEF clientOnly, serverVars, ServerTypeOK, ListenHeld
  <2> QED  BY <1>2, <2>1 DEF ClientKept, ConnKept
<1>3. ASSUME ConnKept, NoNewWait, UNCHANGED connOnly
      PROVE  IInv' /\ PromiseStands /\ ReplyStands
  <2>1. ServerTypeOK' /\ ListenHeld' /\ UNCHANGED <<clientVars, link, scenario>>
    BY <1>3 DEF connOnly, serverVars, ServerTypeOK, ListenHeld
  <2>2. NoClientWait
    BY <1>3, TwoEnds DEF NoNewWait, NoClientWait
  <2>3. ClientTypeOK' /\ PromiseLeft' /\ PromiseStands
    BY <2>1, <2>2, ClientStays DEF clientVars, ClientTypeOK
  <2> QED  BY <1>3, <2>1, <2>3 DEF ConnKept
<1>4. ASSUME ServerStep \/ ServerEvent, UNCHANGED serverOnly
      PROVE  IInv' /\ PromiseStands /\ ReplyStands
  <2>1. ServerKept
    BY <1>4, ListenSteps, ListenerSteps, AcceptSteps, AddSteps
    DEF ServerStep, ServerEvent, StartStep, EndStep, ListenerStep
  <2> QED  BY <1>1, <1>4, <2>1
<1>5. ASSUME ClientSteps \/ ClientEvent, UNCHANGED clientOnly
      PROVE  IInv' /\ PromiseStands /\ ReplyStands
  <2>1. ClientKept
    BY <1>5, CallSteps, CallbackSteps, JobSteps, EndSteps DEF ClientSteps, ClientEvent, ClientStep
  <2> QED  BY <1>2, <1>5, <2>1
<1>6. ASSUME ConnSteps \/ ConnEvent, UNCHANGED connOnly
      PROVE  IInv' /\ PromiseStands /\ ReplyStands
  <2>1. ConnKept /\ NoNewWait
    BY <1>6, UsesKeep, HandleKeeps DEF ConnSteps, ConnEvent
  <2> QED  BY <1>3, <1>6, <2>1
<1>7. ASSUME \/ \E a \in Attempts : NetworkAnswers(a)
             \/ \E p \in Peers, x \in Addresses : PeerConnects(p, x)
      PROVE  IInv' /\ PromiseStands /\ ReplyStands
  BY <1>7, NetworkSteps DEF ConnKept
<1>8. CASE UNCHANGED vars
  <2>1. ConnKept /\ NoNewWait /\ UNCHANGED connOnly
    BY <1>8, SameConns DEF vars, connOnly
  <2> QED  BY <1>3, <2>1
<1> QED  BY <1>4, <1>5, <1>6, <1>7, <1>8 DEF Next, SystemStep

LEMMA SpecIInv == Spec => []IInv
<1>1. IInv /\ [Next]_vars => IInv'
  BY NextKeeps
<1> QED  BY <1>1, InitIInv, PTL DEF Spec

-----------------------------------------------------------------------------
(***************************************************************************)
(* The properties.                                                         *)
(***************************************************************************)

\* Every variable keeps its type: no job of the client takes the socket of an
\* entry that is gone, and the mailboxes and backlogs hold what they may.
THEOREM TypeCorrect == Spec => []TypeOK
<1>1. IInv => TypeOK
  BY DEF IInv
<1> QED  BY <1>1, SpecIInv, PTL

\* A connection is accepted or rejected by one reply, and the promise of
\* f_ConnectAddress is set once, whoever else tries to.
THEOREM OneAnswer == Spec => AnswersStand
<1>1. IInv /\ [Next]_vars =>
        [/\ \A c \in Conns :
              conn[c] \in {"Accepted", "Rejected"} => conn'[c] \in {conn[c], "Destroyed"}
         /\ \A a \in Attempts : promise[a] \in {"Value", "Error"} => promise'[a] = promise[a]]_vars
  BY NextKeeps DEF ReplyStands, PromiseStands
<1> QED  BY <1>1, SpecIInv, PTL DEF Spec, AnswersStand

\* No callback of a listen is called once its subscription removed it.
THEOREM NoCallAfterEnd == Spec => NoCallAfterStop
<1>1. IInv /\ [Next]_vars =>
        [\A c \in Incoming : adding'[c] \in {"Called", "CalledFailed"} /\ adding'[c] # adding[c]
           => listen = "Here" /\ subscription \in {"Held", "Dropped"}]_vars
  <2> SUFFICES ASSUME IInv, Next, NEW c \in Incoming,
                      adding'[c] \in {"Called", "CalledFailed"}, adding'[c] # adding[c]
               PROVE  listen = "Here"
    BY DEF IInv, ListenHeld
  <2>1. adding \in [Incoming -> AddingStates]
    BY DEF IInv, TypeOK, ServerTypeOK
  <2>2. ASSUME NEW x \in Addresses, AcceptOne(x) \/ AcceptThenThrows(x) \/ AcceptForNoServer(x)
        PROVE  FALSE
    BY <2>1, <2>2 DEF AcceptOne, AcceptThenThrows, AcceptForNoServer
  <2>3. ASSUME NEW x \in Addresses, ListenerStep(x) \/ AcceptFails(x)
        PROVE  FALSE
    BY <2>1, <2>2, <2>3 DEF ListenerStep, SetListenSocket, ListenStateAdded, DestroyListener,
                            ListenerClosed, AcceptNone, AcceptFails
  <2>4. ASSUME NEW d \in Incoming, AddStep(d)
        PROVE  listen = "Here"
    BY <2>1, <2>4 DEF AddStep, AddConnection, AddListenGone, AddFailed, AddSucceeded, AddDropped
  <2>5. ASSUME StartStep \/ EndStep \/ StartListen \/ StopListen \/ DestroyServer \/ ListenFails
        PROVE  FALSE
    BY <2>5 DEF StartStep, EndStep, StartListen, StopListen, DestroyServer, ListenFails, Listen,
                GiveSocket, ListenedAll, StartReturns, Cleanup, CleanupEnds, ServerGone, listenVars
  <2>6. ASSUME NEW d, NEW x, Arrive(d, x)
        PROVE  FALSE
    BY <2>1, <2>6 DEF Arrive
  <2>7. CASE ServerStep \/ ServerEvent
    BY <2>2, <2>3, <2>4, <2>5, <2>7 DEF ServerStep, ServerEvent
  <2>8. CASE UNCHANGED serverVars
    BY <2>8 DEF serverVars
  <2> QED
    BY <2>6, <2>7, <2>8
    DEF Next, SystemStep, clientOnly, connOnly, NetworkAnswers, NetworkConnects, NetworkRefuses,
        NetworkCloses, PeerConnects
<1> QED  BY <1>1, SpecIInv, PTL DEF Spec, NoCallAfterStop
=============================================================================

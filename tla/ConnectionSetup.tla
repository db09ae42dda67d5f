--------------------------- MODULE ConnectionSetup ---------------------------
(***************************************************************************)
(* A client and a server on one network: every attempt of the client ends  *)
(* at an address of the server or is refused, and other peers connect to   *)
(* the server too.  The network is external: an attempt the kernel of the  *)
(* server completes is connected at the client before the server accepts   *)
(* it, and a connection the server drops closes at the client.             *)
(***************************************************************************)
EXTENDS AsyncSocketServer, AsyncSocketClient

Events == {"StopListen", "DestroyServer", "DestroyClient", "ListenFails", "AcceptFails"}

CONSTANT Scenarios  \* bound: who connects, to how many addresses, and what else happens

ASSUME ScenariosAssumption ==
  Scenarios \subseteq [comers: SUBSET (Attempts \cup Peers), addresses: Addresses, events: SUBSET Events]

VARIABLES
  link,     \* what the network did with an attempt
  scenario  \* which of Scenarios this behaviour is

vars == <<connVars, serverVars, clientVars, link, scenario>>

serverOnly == <<clientVars, link, scenario>>
clientOnly == <<serverVars, link, scenario>>
connOnly == <<serverVars, clientVars, link, scenario>>

Happens(event) == event \in scenario.events

Init ==
  /\ ConnInit
  /\ ServerInit
  /\ ClientInit
  /\ link = [a \in Attempts |-> "None"]
  /\ scenario \in Scenarios
  /\ nAddresses = scenario.addresses

\* an attempt reaches a listening address
NetworkConnects(a, x) ==
  /\ link[a] = "None"
  /\ link' = [link EXCEPT ![a] = "Connected"]
  /\ Arrive(ServerConn(a), x)
  /\ Report(a, "Connected")
  /\ UNCHANGED scenario

\* an attempt is refused or not answered
NetworkRefuses(a) ==
  /\ link[a] = "None"
  /\ link' = [link EXCEPT ![a] = "Closed"]
  /\ Report(a, "Closed")
  /\ UNCHANGED <<serverVars, connVars, scenario>>

\* the server reset a connection or destroyed it
NetworkCloses(a) ==
  /\ link[a] = "Connected"
  /\ adding[ServerConn(a)] = "Reset" \/ conn[ServerConn(a)] = "Destroyed"
  /\ link' = [link EXCEPT ![a] = "Closed"]
  /\ Report(a, "Closed")
  /\ UNCHANGED <<serverVars, connVars, scenario>>

PeerConnects(p, x) ==
  /\ Arrive(ServerConn(p), x)
  /\ UNCHANGED serverOnly

NetworkAnswers(a) ==
  NetworkRefuses(a) \/ NetworkCloses(a) \/ \E x \in Addresses : NetworkConnects(a, x)

\* what the application and the platform may do in this scenario
ServerEvent ==
  \/ StartListen
  \/ Happens("StopListen") /\ StopListen
  \/ Happens("DestroyServer") /\ DestroyServer
  \/ Happens("ListenFails") /\ ListenFails
  \/ Happens("AcceptFails") /\ \E x \in Addresses : AcceptFails(x)
  \/ Happens("AcceptFails") /\ \E x \in Addresses : AcceptThenThrows(x)

ClientEvent ==
  \/ \E a \in Attempts \cap scenario.comers : Connect(a)
  \/ Happens("DestroyClient") /\ DestroyClient

\* what the client's actor, its jobs and its callbacks do on their own
ClientSteps == ClientGone \/ \E a \in Attempts : ClientStep(a) \/ CleanupPending(a)

\* handshakes settle, replies are handled and no application keeps a handle for ever
ConnSteps == \E c \in Conns : FinishConnection(c) \/ Abandon(c) \/ ConnectionStep(c)

SystemStep ==
  \/ ServerStep /\ UNCHANGED serverOnly
  \/ ClientSteps /\ UNCHANGED clientOnly
  \/ ConnSteps /\ UNCHANGED connOnly
  \/ \E a \in Attempts : NetworkAnswers(a)

\* what the application does with its handles and connections
ConnEvent == \E c \in Conns : Accept(c) \/ Reject(c) \/ CloseInterface(c)

Next ==
  \/ SystemStep
  \/ ServerEvent /\ UNCHANGED serverOnly
  \/ ClientEvent /\ UNCHANGED clientOnly
  \/ ConnEvent /\ UNCHANGED connOnly
  \/ \E p \in Peers \cap scenario.comers, x \in Addresses : PeerConnects(p, x)

\* Every actor and loop goes on as long as it can.  No behaviour has
\* infinitely many steps, so fairness of the disjunction is enough.
Spec == Init /\ [][Next]_vars /\ WF_vars(SystemStep)

-----------------------------------------------------------------------------
\* No job takes the socket out of an entry of mp_PendingConnects that
\* fp_Destroy or CleanupPending removed: such a socket would be "Invalid",
\* which is no value of the type.  The jobs share CleanupPending, and see
\* m_pDeleted.
TypeOK ==
  /\ ConnTypeOK
  /\ ServerTypeOK
  /\ ClientTypeOK
  /\ scenario \in Scenarios
  /\ link \in [Attempts -> {"None", "Connected", "Closed"}]

\* The callbacks of a listen are not called once its subscription removed
\* it or the server was destroyed, although the handshake of a connection
\* ends after the listen does: fp_AddConnection looks the listen up after
\* its await, not before.
NoCallAfterStop ==
  [][\A c \in Incoming : adding'[c] \in {"Called", "CalledFailed"} /\ adding'[c] # adding[c]
       => listen = "Here" /\ subscription \in {"Held", "Dropped"}]_vars

\* Answers are given once.  A connection is accepted or rejected by one
\* reply, whatever the application does with its handle from several
\* threads (m_bRepliedToConnection); the promise of f_ConnectAddress is set
\* once, although connected and closed states, the handshake, the
\* destruction of the actor and the last copy of the promise all set it
\* (pReplied, CleanupPromise).
AnswersStand ==
  [][/\ \A c \in Conns : conn[c] \in {"Accepted", "Rejected"} => conn'[c] \in {conn[c], "Destroyed"}
     /\ \A a \in Attempts : promise[a] \in {"Value", "Error"} => promise'[a] = promise[a]]_vars

\* Every connect is answered, also when the resolver, the network, the
\* handshake or the destruction of the actor gets in between, and its
\* entry and a socket left in it are removed.
ConnectCompletes ==
  \A a \in Attempts : call[a] = "Resolving" ~>
    call[a] \in {"Value", "Error"} /\ pending[a] # "Here" /\ socket[a] # "Pending"

\* A connection that arrives at a listen is accepted or, with the listen,
\* reset: also one that arrived before the listen actor had its socket, or
\* while an earlier accept failed.  Every accepted or connected socket then
\* belongs to the application or is destroyed; none is left half handed
\* over when its listen, the server or the client goes away during the
\* handshake.
HandOverCompletes ==
  <>[](/\ \A c \in Incoming : adding[c] # "Backlog"
       /\ \A c \in Conns :
            conn[c] \in {"None", "Destroyed"} \/ (conn[c] = "Accepted" /\ "Interface" \in holders[c]))

\* A listen that fails to start, that is stopped or whose server is
\* destroyed is removed and its listen sockets are closed.
ListenEnds ==
  start = "Failed" \/ subscription = "Dropped" \/ server = "Destroying"
    ~> listen # "Here" /\ ListenersGone
=============================================================================

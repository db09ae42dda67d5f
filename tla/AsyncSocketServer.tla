-------------------------- MODULE AsyncSocketServer --------------------------
(***************************************************************************)
(* CAsyncSocketServerActor and its CListenActors: one call of              *)
(* f_StartListenAddress for several addresses, the accept loop of each     *)
(* listen actor, the hand-over of accepted connections to the callbacks of *)
(* the listen, the end of the listen by its subscription and the           *)
(* destruction of the server.  Listens of other calls share nothing with   *)
(* this one but the map they are found in.                                 *)
(*                                                                         *)
(* A handler of an actor is one step, except two: f_StartListenAddress, as *)
(* the loop thread can report on one of its sockets before the socket is   *)
(* handed to its actor, and the accept loop, one iteration at a time.      *)
(* The platform reports a connection once, when it arrives; f_Accept then  *)
(* takes connections until there is none.                                  *)
(***************************************************************************)
EXTENDS AsyncSocketNewConnection, SequencesExt

CONSTANTS
  NAddresses,  \* bound: addresses of a listen
  MaxFailures  \* bound: accepts that fail

ASSUME ServerAssumption ==
  /\ NAddresses \in Nat \ {0}
  /\ MaxFailures \in Nat

Addresses == 1 .. NAddresses

VARIABLES
  server,        \* the server actor
  nAddresses,    \* length of _AddressesToListenTo
  start,         \* where f_StartListenAddress is
  iAddress,      \* its iAddress
  listen,        \* the entry of m_Listens
  subscription,  \* CListenResult::m_Subscription and its cleanup
  listener,      \* the listen actors
  mailbox,       \* their mailboxes
  accepting,     \* the listen actor is in its accept loop
  edge,          \* f_GetState of the listen socket would answer Connection
  backlog,       \* connections no one accepted yet
  nFailures,     \* accepts that failed
  adding         \* how far the server got with a connection

serverVars == <<server, nAddresses, start, iAddress, listen, subscription, listener, mailbox,
                accepting, edge, backlog, nFailures, adding>>

ListenerStates == {"None", "Unbound", "Bound", "Set", "Closing", "Gone"}
Messages == {"SetSocket", "StateAdded", "Destroy"}

AddingStates ==
  {"None", "Backlog", "Reset", "Queued", "Waiting", "Called", "CalledFailed", "Dropped"}

ServerTypeOK ==
  /\ server \in {"Up", "Destroying", "Gone"}
  /\ start \in {"Idle", "Listening", "Settling", "Returned", "Failed"}
  /\ nAddresses \in Addresses
  /\ iAddress \in 1 .. NAddresses + 1
  /\ listen \in {"None", "Here", "Removed"}
  /\ subscription \in {"None", "Held", "Dropped", "Waiting", "Done"}
  /\ listener \in [Addresses -> ListenerStates]
  /\ mailbox \in [Addresses -> Seq(Messages)]
  /\ accepting \in [Addresses -> BOOLEAN]
  /\ edge \in [Addresses -> BOOLEAN]
  /\ backlog \in [Addresses -> Seq(Incoming)]
  /\ nFailures \in 0 .. MaxFailures
  /\ adding \in [Incoming -> AddingStates]

ServerInit ==
  /\ server = "Up"
  /\ nAddresses \in Addresses
  /\ start = "Idle"
  /\ iAddress = 1
  /\ listen = "None"
  /\ subscription = "None"
  /\ listener = [a \in Addresses |-> "None"]
  /\ mailbox = [a \in Addresses |-> <<>>]
  /\ accepting = [a \in Addresses |-> FALSE]
  /\ edge = [a \in Addresses |-> FALSE]
  /\ backlog = [a \in Addresses |-> <<>>]
  /\ nFailures = 0
  /\ adding = [c \in Incoming |-> "None"]

listenVars == <<listener, mailbox, accepting, edge, backlog, nFailures, adding>>
startVars == <<start, iAddress, listen, subscription>>

\* the server actor runs no other handler inside f_StartListenAddress
ServerFree == start # "Listening"

(***************************************************************************)
(* f_StartListenAddress                                                    *)
(***************************************************************************)
StartListen ==
  /\ server = "Up" /\ start = "Idle"
  /\ start' = "Listening"
  /\ listen' = "Here"
  /\ subscription' = "Held"
  /\ UNCHANGED <<server, nAddresses, iAddress, listenVars, connVars>>

\* f_Listen of the next address: from here on the platform reports connections
Listen ==
  /\ start = "Listening" /\ iAddress <= nAddresses
  /\ listener[iAddress] = "None"
  /\ listener' = [listener EXCEPT ![iAddress] = "Bound"]
  /\ UNCHANGED <<server, nAddresses, startVars, mailbox, accepting, edge, backlog, nFailures, adding, connVars>>

\* f_SetSocket is posted to the listen actor
GiveSocket ==
  /\ start = "Listening" /\ iAddress <= nAddresses
  /\ listener[iAddress] = "Bound"
  /\ mailbox' = [mailbox EXCEPT ![iAddress] = Append(@, "SetSocket")]
  /\ iAddress' = iAddress + 1
  /\ UNCHANGED <<server, nAddresses, start, listen, subscription, listener, accepting, edge, backlog,
                 nFailures, adding, connVars>>

\* a changed ListenFails that leaves the listen to the server
ListenFailsAlone ==
  /\ start = "Listening" /\ iAddress <= nAddresses
  /\ listener[iAddress] = "None"
  /\ listener' = [listener EXCEPT ![iAddress] = "Unbound"]
  /\ start' = "Failed"
  /\ UNCHANGED <<server, nAddresses, iAddress, listen, subscription, mailbox, accepting, edge,
                 backlog, nFailures, adding, connVars>>

\* f_Listen throws: the result, and the subscription in it, is dropped
ListenFails ==
  /\ start = "Listening" /\ iAddress <= nAddresses
  /\ listener[iAddress] = "None"
  /\ listener' = [listener EXCEPT ![iAddress] = "Unbound"]
  /\ start' = "Failed"
  /\ subscription' = "Dropped"
  /\ UNCHANGED <<server, nAddresses, iAddress, listen, mailbox, accepting, edge, backlog, nFailures,
                 adding, connVars>>

ListenedAll ==
  /\ start = "Listening" /\ iAddress > nAddresses
  /\ start' = "Settling"
  /\ UNCHANGED <<server, nAddresses, iAddress, listen, subscription, listenVars, connVars>>

\* f_AllDone(SetSocketResults); CheckDestroy fails the call once the server is destroyed
StartReturns ==
  /\ start = "Settling"
  /\ \A a \in Addresses : \A i \in DOMAIN mailbox[a] : mailbox[a][i] # "SetSocket"
  /\ IF server = "Up"
     THEN /\ start' = "Returned"
          /\ UNCHANGED subscription
     ELSE /\ start' = "Failed"
          /\ subscription' = "Dropped"
  /\ UNCHANGED <<server, nAddresses, iAddress, listen, listenVars, connVars>>

\* the application drops the subscription
StopListen ==
  /\ start = "Returned" /\ subscription = "Held"
  /\ subscription' = "Dropped"
  /\ UNCHANGED <<server, nAddresses, start, iAddress, listen, listenVars, connVars>>

(***************************************************************************)
(* The end of the listen and of the server                                 *)
(***************************************************************************)
\* f_Destroy of every listen actor constructed so far
DestroyListeners ==
  mailbox' = [a \in Addresses |->
                IF listener[a] \in {"None", "Gone"} THEN mailbox[a]
                                                    ELSE Append(mailbox[a], "Destroy")]

ListenersGone == \A a \in Addresses : listener[a] \in {"None", "Gone"}

\* the cleanup of the subscription, up to its await
Cleanup ==
  /\ subscription = "Dropped" /\ ServerFree /\ server # "Gone"
  /\ IF listen = "Here"
     THEN /\ subscription' = "Waiting"
          /\ listen' = "Removed"
          /\ DestroyListeners
     ELSE /\ subscription' = "Done"
          /\ UNCHANGED <<listen, mailbox>>
  /\ UNCHANGED <<server, nAddresses, start, iAddress, listener, accepting, edge, backlog, nFailures,
                 adding, connVars>>

CleanupEnds ==
  /\ subscription = "Waiting" /\ ListenersGone
  /\ subscription' = "Done"
  /\ UNCHANGED <<server, nAddresses, start, iAddress, listen, listenVars, connVars>>

\* fp_Destroy, up to its await
DestroyServer ==
  /\ server = "Up" /\ ServerFree
  /\ server' = "Destroying"
  /\ IF listen = "Here"
     THEN /\ listen' = "Removed"
          /\ DestroyListeners
     ELSE UNCHANGED <<listen, mailbox>>
  /\ UNCHANGED <<nAddresses, start, iAddress, subscription, listener, accepting, edge, backlog, nFailures,
                 adding, connVars>>

\* what is queued on the server or awaits on it then is dropped
ServerGone ==
  /\ server = "Destroying" /\ ListenersGone
  /\ server' = "Gone"
  /\ UNCHANGED <<nAddresses, startVars, listenVars, connVars>>

(***************************************************************************)
(* A listen actor                                                          *)
(***************************************************************************)
\* external: the platform completes a connection and reports it to the actor
Arrive(c, a) ==
  /\ adding[c] = "None"
  /\ listener[a] \in {"Bound", "Set"}
  /\ adding' = [adding EXCEPT ![c] = "Backlog"]
  /\ backlog' = [backlog EXCEPT ![a] = Append(@, c)]
  /\ edge' = [edge EXCEPT ![a] = TRUE]
  /\ mailbox' = [mailbox EXCEPT ![a] = Append(@, "StateAdded")]
  /\ UNCHANGED <<server, nAddresses, startVars, listener, accepting, nFailures, connVars>>

\* fp_ProcessState, up to its loop
ProcessListenState(a) ==
  /\ accepting' = [accepting EXCEPT ![a] = edge[a]]
  /\ edge' = [edge EXCEPT ![a] = FALSE]

Receive(a, message) ==
  /\ ~accepting[a]
  /\ mailbox[a] # <<>> /\ Head(mailbox[a]) = message
  /\ mailbox' = [mailbox EXCEPT ![a] = Tail(@)]

\* a changed SetListenSocket that waits for the next report
SetSocketOnly(a) ==
  /\ Receive(a, "SetSocket")
  /\ listener' = [listener EXCEPT ![a] = "Set"]
  /\ UNCHANGED <<server, nAddresses, startVars, accepting, edge, backlog, nFailures, adding, connVars>>

\* f_SetSocket
SetListenSocket(a) ==
  /\ Receive(a, "SetSocket")
  /\ listener' = [listener EXCEPT ![a] = "Set"]
  /\ ProcessListenState(a)
  /\ UNCHANGED <<server, nAddresses, startVars, backlog, nFailures, adding, connVars>>

\* f_StateAdded
ListenStateAdded(a) ==
  /\ Receive(a, "StateAdded")
  /\ IF listener[a] = "Set" THEN ProcessListenState(a) ELSE UNCHANGED <<accepting, edge>>
  /\ UNCHANGED <<server, nAddresses, startVars, listener, backlog, nFailures, adding, connVars>>

\* fp_Destroy: the socket closes on the loop, and resets what it did not accept
DestroyListener(a) ==
  /\ Receive(a, "Destroy")
  /\ listener' = [listener EXCEPT ![a] = IF listener[a] = "Set" THEN "Closing" ELSE "Gone"]
  /\ UNCHANGED <<server, nAddresses, startVars, accepting, edge, backlog, nFailures, adding, connVars>>

ListenerClosed(a) ==
  /\ listener[a] = "Closing"
  /\ listener' = [listener EXCEPT ![a] = "Gone"]
  /\ backlog' = [backlog EXCEPT ![a] = <<>>]
  /\ adding' = [c \in Incoming |-> IF Contains(backlog[a], c) THEN "Reset" ELSE adding[c]]
  /\ UNCHANGED <<server, nAddresses, startVars, mailbox, accepting, edge, nFailures, connVars>>

\* f_Accept answers nothing
AcceptNone(a) ==
  /\ accepting[a] /\ backlog[a] = <<>>
  /\ accepting' = [accepting EXCEPT ![a] = FALSE]
  /\ UNCHANGED <<server, nAddresses, startVars, listener, mailbox, edge, backlog, nFailures, adding, connVars>>

\* f_Accept throws: the loop goes on
AcceptFails(a) ==
  /\ accepting[a] /\ nFailures < MaxFailures
  /\ nFailures' = nFailures + 1
  /\ UNCHANGED <<server, nAddresses, startVars, listener, mailbox, accepting, edge, backlog, adding, connVars>>

TakeFirst(a) ==
  /\ accepting[a] /\ backlog[a] # <<>>
  /\ backlog' = [backlog EXCEPT ![a] = Tail(@)]

\* the socket goes to a connection actor, and the actor to fp_AddConnection
AcceptOne(a) ==
  /\ TakeFirst(a)
  /\ LET c == Head(backlog[a]) IN
       /\ Construct(c, {"Finish"})
       /\ adding' = [adding EXCEPT ![c] = "Queued"]
  /\ UNCHANGED <<server, nAddresses, startVars, listener, mailbox, accepting, edge, nFailures>>

\* the upgrade check factory throws: the accepted socket is dropped
AcceptThenThrows(a) ==
  /\ TakeFirst(a)
  /\ nFailures < MaxFailures
  /\ nFailures' = nFailures + 1
  /\ LET c == Head(backlog[a]) IN
       /\ Construct(c, {})
       /\ adding' = [adding EXCEPT ![c] = "Dropped"]
  /\ UNCHANGED <<server, nAddresses, startVars, listener, mailbox, accepting, edge>>

\* the server can not be locked any more: the connection goes with its only reference
AcceptForNoServer(a) ==
  /\ TakeFirst(a)
  /\ server # "Up"
  /\ LET c == Head(backlog[a]) IN
       /\ Construct(c, {})
       /\ adding' = [adding EXCEPT ![c] = "Dropped"]
  /\ accepting' = [accepting EXCEPT ![a] = FALSE]
  /\ UNCHANGED <<server, nAddresses, startVars, listener, mailbox, edge, nFailures>>

(***************************************************************************)
(* fp_AddConnection                                                        *)
(***************************************************************************)
\* up to its await
AddConnection(c) ==
  /\ adding[c] = "Queued" /\ ServerFree /\ server # "Gone"
  /\ adding' = [adding EXCEPT ![c] = "Waiting"]
  /\ UNCHANGED <<server, nAddresses, startVars, listener, mailbox, accepting, edge, backlog, nFailures, connVars>>

AddSettles(c) ==
  /\ adding[c] = "Waiting" /\ ServerFree /\ server # "Gone"
  /\ conn[c] \in {"Ready", "Failed"}
  /\ UNCHANGED <<server, nAddresses, startVars, listener, mailbox, accepting, edge, backlog, nFailures>>

\* "Listen no longer exists"
AddListenGone(c) ==
  /\ AddSettles(c)
  /\ listen # "Here"
  /\ adding' = [adding EXCEPT ![c] = "Dropped"]
  /\ LetGo(c)

\* m_fOnFailedConnection is called
AddFailed(c) ==
  /\ AddSettles(c)
  /\ listen = "Here" /\ conn[c] = "Failed"
  /\ adding' = [adding EXCEPT ![c] = "CalledFailed"]
  /\ LetGo(c)

\* a changed AddSucceeded that uses what it found before the await
AddToEarlierListen(c) ==
  /\ AddSettles(c)
  /\ conn[c] = "Ready"
  /\ adding' = [adding EXCEPT ![c] = "Called"]
  /\ HandOver(c)

\* m_fOnNewConnection is called with a handle
AddSucceeded(c) ==
  /\ AddSettles(c)
  /\ listen = "Here" /\ conn[c] = "Ready"
  /\ adding' = [adding EXCEPT ![c] = "Called"]
  /\ HandOver(c)

\* the server is gone, and the job with it
AddDropped(c) ==
  /\ adding[c] \in {"Queued", "Waiting"} /\ server = "Gone"
  /\ adding' = [adding EXCEPT ![c] = "Dropped"]
  /\ LetGo(c)
  /\ UNCHANGED <<server, nAddresses, startVars, listener, mailbox, accepting, edge, backlog, nFailures>>

AddStep(c) ==
  AddConnection(c) \/ AddListenGone(c) \/ AddFailed(c) \/ AddSucceeded(c) \/ AddDropped(c)

StartStep == Listen \/ GiveSocket \/ ListenedAll \/ StartReturns
EndStep == Cleanup \/ CleanupEnds \/ ServerGone
ListenerStep(a) ==
  \/ SetListenSocket(a)
  \/ ListenStateAdded(a)
  \/ DestroyListener(a)
  \/ ListenerClosed(a)
  \/ AcceptNone(a)
  \/ AcceptOne(a)
  \/ AcceptForNoServer(a)

\* what the actors and their loop do on their own
ServerStep ==
  \/ StartStep
  \/ EndStep
  \/ \E a \in Addresses : ListenerStep(a)
  \/ \E c \in Incoming : AddStep(c)
=============================================================================

---------------------- MODULE AsyncSocketNewConnection ----------------------
(***************************************************************************)
(* The hand-over of a connection to the application, shared by the server  *)
(* and the client: the connection actor as far as its handshake and the    *)
(* reply it gets, the references that keep it alive, and the               *)
(* CAsyncSocketNewConnection handle through which the application accepts, *)
(* rejects or abandons it.  A connection actor no one refers to is         *)
(* destroyed, and its socket with it.                                      *)
(*                                                                         *)
(* What the connection actor does inside is AsyncSocketLifecycle; here its *)
(* handshake settles in one step, with either result.                      *)
(***************************************************************************)
EXTENDS Naturals, Sequences

CONSTANTS
  Attempts,  \* connects of a client
  Peers      \* connections others make to the server

\* the connections a server accepts, those of the client among them, and the client's ends
ClientConn(a) == <<"Client", a>>
ServerConn(p) == <<"Server", p>>
Incoming == {ServerConn(p) : p \in Attempts \cup Peers}
Conns == Incoming \cup {ClientConn(a) : a \in Attempts}

VARIABLES
  conn,      \* the connection actor
  holders,   \* who holds a strong reference to it
  handle,    \* the CAsyncSocketNewConnection
  replied,   \* m_bRepliedToConnection
  inbox      \* replies posted to the connection and not handled yet

connVars == <<conn, holders, handle, replied, inbox>>

ConnStates == {"None", "Handshake", "Ready", "Failed", "Accepted", "Rejected", "Destroyed"}

\* the job that waits for the handshake, the handle, a reply in the mailbox, the application
Holders == {"Finish", "Handle", "Message", "Interface"}

ConnTypeOK ==
  /\ conn \in [Conns -> ConnStates]
  /\ holders \in [Conns -> SUBSET Holders]
  /\ handle \in [Conns -> {"None", "Held", "Gone"}]
  /\ replied \in [Conns -> BOOLEAN]
  /\ inbox \in [Conns -> Seq({"Accept", "Reject"})]

ConnInit ==
  /\ conn = [c \in Conns |-> "None"]
  /\ holders = [c \in Conns |-> {}]
  /\ handle = [c \in Conns |-> "None"]
  /\ replied = [c \in Conns |-> FALSE]
  /\ inbox = [c \in Conns |-> <<>>]

\* a connection actor in state s that refs refer to: destroyed with the last of them
Refer(c, s, refs) ==
  /\ holders' = [holders EXCEPT ![c] = refs]
  /\ conn' = [conn EXCEPT ![c] = IF refs = {} THEN "Destroyed" ELSE s]

\* a new connection actor gets its socket; refs: the job that waits for its handshake, or no one
Construct(c, refs) ==
  /\ conn[c] = "None"
  /\ Refer(c, "Handshake", refs)
  /\ UNCHANGED <<handle, replied, inbox>>

\* m_FinishConnectionPromise is set
FinishConnection(c) ==
  /\ conn[c] = "Handshake"
  /\ \E result \in {"Ready", "Failed"} : conn' = [conn EXCEPT ![c] = result]
  /\ UNCHANGED <<holders, handle, replied, inbox>>

\* the job that waited ends without passing the connection on
LetGo(c) ==
  /\ Refer(c, conn[c], holders[c] \ {"Finish"})
  /\ UNCHANGED <<handle, replied, inbox>>

\* CAsyncSocketNewConnection: the job passes the connection on in a handle
HandOver(c) ==
  /\ handle' = [handle EXCEPT ![c] = "Held"]
  /\ Refer(c, conn[c], (holders[c] \ {"Finish"}) \cup {"Handle"})
  /\ UNCHANGED <<replied, inbox>>

\* m_bRepliedToConnection.f_Exchange(true): the first caller posts its reply
Reply(c, reply) ==
  /\ replied' = [replied EXCEPT ![c] = TRUE]
  /\ inbox' = IF replied[c] THEN inbox ELSE [inbox EXCEPT ![c] = Append(@, reply)]

WithReply(c, refs) == IF replied[c] THEN refs ELSE refs \cup {"Message"}

\* f_Accept; a second reply gets "Connection already accepted or rejected"
Accept(c) ==
  /\ handle[c] = "Held"
  /\ Reply(c, "Accept")
  /\ Refer(c, conn[c], WithReply(c, holders[c]))
  /\ UNCHANGED handle

\* f_Reject
Reject(c) ==
  /\ handle[c] = "Held"
  /\ Reply(c, "Reject")
  /\ Refer(c, conn[c], WithReply(c, holders[c]))
  /\ UNCHANGED handle

\* a changed Abandon that does not ask whether there was a reply
AbandonAnyway(c) ==
  /\ handle[c] = "Held"
  /\ handle' = [handle EXCEPT ![c] = "Gone"]
  /\ inbox' = [inbox EXCEPT ![c] = Append(@, "Reject")]
  /\ Refer(c, conn[c], (holders[c] \ {"Handle"}) \cup {"Message"})
  /\ UNCHANGED replied

\* ~CRepliedHelper: whoever has the handle, or should have got it, drops it
Abandon(c) ==
  /\ handle[c] = "Held"
  /\ handle' = [handle EXCEPT ![c] = "Gone"]
  /\ Reply(c, "Reject")
  /\ Refer(c, conn[c], WithReply(c, holders[c] \ {"Handle"}))

\* the references once the first reply in the mailbox is handled
Unposted(c) == IF Len(inbox[c]) = 1 THEN holders[c] \ {"Message"} ELSE holders[c]

\* fp_AcceptConnection; f_Accept returns the interface the application owns the connection by
HandleAccept(c) ==
  /\ inbox[c] # <<>> /\ Head(inbox[c]) = "Accept"
  /\ inbox' = [inbox EXCEPT ![c] = Tail(@)]
  /\ Refer(c, "Accepted", Unposted(c) \cup {"Interface"})
  /\ UNCHANGED <<handle, replied>>

\* fp_RejectConnection: disconnects
HandleReject(c) ==
  /\ inbox[c] # <<>> /\ Head(inbox[c]) = "Reject"
  /\ inbox' = [inbox EXCEPT ![c] = Tail(@)]
  /\ Refer(c, "Rejected", Unposted(c))
  /\ UNCHANGED <<handle, replied>>

\* the application drops the interface
CloseInterface(c) ==
  /\ "Interface" \in holders[c]
  /\ Refer(c, conn[c], holders[c] \ {"Interface"})
  /\ UNCHANGED <<handle, replied, inbox>>

ConnectionStep(c) == HandleAccept(c) \/ HandleReject(c)
=============================================================================

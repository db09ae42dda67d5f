-------------------------- MODULE AsyncSocketClient --------------------------
(***************************************************************************)
(* CAsyncSocketClientActor: f_Connect and f_ConnectAddress, the entry of a *)
(* connect in mp_PendingConnects, the callback of its socket, which the    *)
(* loop thread runs, the jobs the callback dispatches to the actor, and    *)
(* the destruction of the actor.                                           *)
(*                                                                         *)
(* CleanupPending removes the entry.  The callback and the jobs share it;  *)
(* when the last of them drops it, a job is dispatched that removes the    *)
(* entry, unless the entry is gone with the actor.  A promise whose last   *)
(* copy is dropped fails.  A report the loop delivers holds every state    *)
(* added since the last one.                                               *)
(***************************************************************************)
EXTENDS AsyncSocketNewConnection

VARIABLES
  client,        \* the client actor
  call,          \* f_Connect, and what it answered
  pending,       \* the entry in mp_PendingConnects; "Removed" is its m_pDeleted
  socket,        \* who owns the socket
  reports,       \* states added that the loop has not reported
  callback,      \* the callback of f_ConnectAddress on the socket
  pReplied,      \* pReplied
  cleanup,       \* who shares CleanupPending, or the state of its job
  promise,       \* Promise, of f_ConnectAddress
  job            \* the job the callback dispatched to the actor

clientVars == <<client, call, pending, socket, reports, callback, pReplied, cleanup, promise, job>>

ClientTypeOK ==
  /\ client \in {"Up", "Destroying", "Gone"}
  /\ call \in [Attempts -> {"Idle", "Resolving", "Connecting", "Value", "Error"}]
  /\ pending \in [Attempts -> {"None", "Here", "Removed"}]
  /\ socket \in [Attempts -> {"None", "Pending", "Actor", "Destroyed"}]
  /\ reports \in [Attempts -> SUBSET {"Connected", "Closed"}]
  /\ callback \in [Attempts -> {"None", "Armed", "Gone"}]
  /\ pReplied \in [Attempts -> BOOLEAN]
  /\ cleanup \in [Attempts -> {"None", "Callback", "Job", "Queued", "Done"}]
  /\ promise \in [Attempts -> {"None", "Open", "Value", "Error"}]
  /\ job \in [Attempts -> {"None", "Connected", "Closed"}]

ClientInit ==
  /\ client = "Up"
  /\ call = [a \in Attempts |-> "Idle"]
  /\ pending = [a \in Attempts |-> "None"]
  /\ socket = [a \in Attempts |-> "None"]
  /\ reports = [a \in Attempts |-> {}]
  /\ callback = [a \in Attempts |-> "None"]
  /\ pReplied = [a \in Attempts |-> FALSE]
  /\ cleanup = [a \in Attempts |-> "None"]
  /\ promise = [a \in Attempts |-> "None"]
  /\ job = [a \in Attempts |-> "None"]

\* f_Connect: asks the resolver for both addresses
Connect(a) ==
  /\ client = "Up" /\ call[a] = "Idle"
  /\ call' = [call EXCEPT ![a] = "Resolving"]
  /\ UNCHANGED <<client, pending, socket, reports, callback, pReplied, cleanup, promise, job, connVars>>

ResolveFails(a) ==
  /\ client # "Gone" /\ call[a] = "Resolving"
  /\ call' = [call EXCEPT ![a] = "Error"]
  /\ UNCHANGED <<client, pending, socket, reports, callback, pReplied, cleanup, promise, job, connVars>>

\* f_ConnectAddress, up to the await of its promise
ConnectAddress(a) ==
  /\ client # "Gone" /\ call[a] = "Resolving"
  /\ call' = [call EXCEPT ![a] = "Connecting"]
  /\ pending' = [pending EXCEPT ![a] = "Here"]
  /\ socket' = [socket EXCEPT ![a] = "Pending"]
  /\ callback' = [callback EXCEPT ![a] = "Armed"]
  /\ cleanup' = [cleanup EXCEPT ![a] = "Callback"]
  /\ promise' = [promise EXCEPT ![a] = "Open"]
  /\ UNCHANGED <<client, reports, pReplied, job, connVars>>

\* f_AsyncConnect throws: the callback is destroyed with what it shares
ConnectThrows(a) ==
  /\ client # "Gone" /\ call[a] = "Resolving"
  /\ call' = [call EXCEPT ![a] = "Error"]
  /\ pending' = [pending EXCEPT ![a] = "Here"]
  /\ socket' = [socket EXCEPT ![a] = "Pending"]
  /\ callback' = [callback EXCEPT ![a] = "Gone"]
  /\ cleanup' = [cleanup EXCEPT ![a] = "Queued"]
  /\ UNCHANGED <<client, reports, pReplied, promise, job, connVars>>

\* external: the platform adds a state to the connecting socket
Report(a, added) ==
  /\ socket[a] \in {"Pending", "Actor"}
  /\ reports' = [reports EXCEPT ![a] = @ \cup {added}]
  /\ UNCHANGED <<client, call, pending, socket, callback, pReplied, cleanup, promise, job>>

SetError(a) == promise' = [promise EXCEPT ![a] = "Error"]

\* the callback drops its share of CleanupPending; a job holds another
ClearCleanup(a, held) ==
  cleanup' = IF held THEN [cleanup EXCEPT ![a] = "Job"]
             ELSE IF cleanup[a] = "Callback" THEN [cleanup EXCEPT ![a] = "Queued"]
             ELSE cleanup

\* the callback with a close state; its first report is dispatched while the actor lives
CallbackClosed(a) ==
  /\ callback[a] = "Armed" /\ "Closed" \in reports[a]
  /\ reports' = [reports EXCEPT ![a] = {}]
  /\ pReplied' = [pReplied EXCEPT ![a] = TRUE]
  /\ LET dispatch == ~pReplied[a] /\ client # "Gone" IN
       /\ job' = IF dispatch THEN [job EXCEPT ![a] = "Closed"] ELSE job
       /\ ClearCleanup(a, dispatch)
       /\ IF ~pReplied[a] /\ client = "Gone" THEN SetError(a) ELSE UNCHANGED promise
  /\ UNCHANGED <<client, call, pending, socket, callback, connVars>>

\* the callback with the connected state
CallbackConnected(a) ==
  /\ callback[a] = "Armed" /\ reports[a] = {"Connected"}
  /\ reports' = [reports EXCEPT ![a] = {}]
  /\ pReplied' = [pReplied EXCEPT ![a] = TRUE]
  /\ LET dispatch == ~pReplied[a] /\ client # "Gone" /\ pending[a] = "Here" IN
       /\ job' = IF dispatch THEN [job EXCEPT ![a] = "Connected"] ELSE job
       /\ IF dispatch \/ pReplied[a] THEN ClearCleanup(a, dispatch) ELSE UNCHANGED cleanup
       /\ IF ~pReplied[a] /\ ~dispatch THEN SetError(a) ELSE UNCHANGED promise
  /\ UNCHANGED <<client, call, pending, socket, callback, connVars>>

\* the socket is destroyed or has another callback: the old one is destroyed on the loop
CallbackGone(a) ==
  /\ callback[a] = "Armed" /\ socket[a] # "Pending"
  /\ callback' = [callback EXCEPT ![a] = "Gone"]
  /\ ClearCleanup(a, FALSE)
  /\ IF promise[a] = "Open" /\ job[a] = "None" /\ "Finish" \notin holders[ClientConn(a)]
     THEN SetError(a)
     ELSE UNCHANGED promise
  /\ UNCHANGED <<client, call, pending, socket, reports, pReplied, job, connVars>>

\* a changed StartJob that keeps its share of CleanupPending
StartJobKeepsEntry(a, kind) ==
  /\ client # "Gone" /\ job[a] = kind
  /\ job' = [job EXCEPT ![a] = "None"]
  /\ UNCHANGED <<client, call, pending, reports, callback, pReplied, cleanup>>

\* a job runs and drops its share of CleanupPending
StartJob(a, kind) ==
  /\ client # "Gone" /\ job[a] = kind
  /\ job' = [job EXCEPT ![a] = "None"]
  /\ cleanup' = [cleanup EXCEPT ![a] = "Queued"]
  /\ UNCHANGED <<client, call, pending, reports, callback, pReplied>>

\* the job of a close state: the close reason is read while the entry is there
JobClosed(a) ==
  /\ StartJob(a, "Closed")
  /\ SetError(a)
  /\ UNCHANGED <<socket, connVars>>

JobConnectedDeleted(a) ==
  /\ StartJob(a, "Connected")
  /\ pending[a] = "Removed"
  /\ SetError(a)
  /\ UNCHANGED <<socket, connVars>>

\* the job of the connected state: the socket moves to a connection actor
JobConnected(a) ==
  /\ StartJob(a, "Connected")
  /\ pending[a] # "Removed"
  /\ socket' = [socket EXCEPT ![a] = IF pending[a] = "Here" THEN "Actor" ELSE "Invalid"]
  /\ Construct(ClientConn(a), {"Finish"})
  /\ UNCHANGED promise

\* the upgrade check factory throws: the moved socket and the copies of the promise are dropped
JobConnectedThrows(a) ==
  /\ StartJob(a, "Connected")
  /\ pending[a] # "Removed"
  /\ socket' = [socket EXCEPT ![a] = "Destroyed"]
  /\ SetError(a)
  /\ UNCHANGED connVars

\* the actor is gone: the job is dropped, and CleanupPromise sets the promise
JobDropped(a) ==
  /\ client = "Gone" /\ job[a] # "None"
  /\ job' = [job EXCEPT ![a] = "None"]
  /\ SetError(a)
  /\ UNCHANGED <<client, call, pending, socket, reports, callback, pReplied, cleanup, connVars>>

\* the job of CleanupPending: the entry goes, with the socket if it still has it
CleanupPending(a) ==
  /\ client # "Gone" /\ cleanup[a] = "Queued"
  /\ cleanup' = [cleanup EXCEPT ![a] = "Done"]
  /\ pending' = [pending EXCEPT ![a] = "Removed"]
  /\ socket' = IF socket[a] = "Pending" THEN [socket EXCEPT ![a] = "Destroyed"] ELSE socket
  /\ UNCHANGED <<client, call, reports, callback, pReplied, promise, job, connVars>>

\* the job on the concurrent actor has the result of the handshake
ConnectSucceeds(a) ==
  /\ "Finish" \in holders[ClientConn(a)] /\ conn[ClientConn(a)] = "Ready"
  /\ promise' = [promise EXCEPT ![a] = "Value"]
  /\ HandOver(ClientConn(a))
  /\ UNCHANGED <<client, call, pending, socket, reports, callback, pReplied, cleanup, job>>

ConnectFails(a) ==
  /\ "Finish" \in holders[ClientConn(a)] /\ conn[ClientConn(a)] = "Failed"
  /\ SetError(a)
  /\ LetGo(ClientConn(a))
  /\ UNCHANGED <<client, call, pending, socket, reports, callback, pReplied, cleanup, job>>

\* f_ConnectAddress and f_Connect answer
ConnectReturns(a) ==
  /\ client # "Gone" /\ call[a] = "Connecting" /\ promise[a] \in {"Value", "Error"}
  /\ call' = [call EXCEPT ![a] = promise[a]]
  /\ UNCHANGED <<client, pending, socket, reports, callback, pReplied, cleanup, promise, job, connVars>>

RemoveEntries ==
  /\ pending' = [a \in Attempts |-> IF pending[a] = "Here" THEN "Removed" ELSE pending[a]]
  /\ socket' = [a \in Attempts |-> IF socket[a] = "Pending" THEN "Destroyed" ELSE socket[a]]

\* fp_Destroy; jobs that are queued, and calls that are resumed, still run
DestroyClient ==
  /\ client = "Up"
  /\ client' = "Destroying"
  /\ RemoveEntries
  /\ UNCHANGED <<call, reports, callback, pReplied, cleanup, promise, job, connVars>>

\* the actor is deleted: the calls that wait fail
ClientGone ==
  /\ client = "Destroying"
  /\ client' = "Gone"
  /\ RemoveEntries
  /\ call' = [a \in Attempts |-> IF call[a] \in {"Resolving", "Connecting"} THEN "Error" ELSE call[a]]
  /\ UNCHANGED <<reports, callback, pReplied, cleanup, promise, job, connVars>>

ClientStep(a) ==
  \/ ResolveFails(a)
  \/ ConnectAddress(a)
  \/ ConnectThrows(a)
  \/ CallbackClosed(a)
  \/ CallbackConnected(a)
  \/ CallbackGone(a)
  \/ JobClosed(a)
  \/ JobConnectedDeleted(a)
  \/ JobConnected(a)
  \/ JobConnectedThrows(a)
  \/ JobDropped(a)
  \/ ConnectSucceeds(a)
  \/ ConnectFails(a)
  \/ ConnectReturns(a)
=============================================================================

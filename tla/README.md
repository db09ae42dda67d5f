# Malterlib_Network in TLA+

This directory is the formal model of `src/Source`, the network library of
Malterlib: TLA+ modules translated from the code, TLC runs on small instances and
TLAPS proofs for every instance. It models the connection actor
(`CAsyncSocketActor`), the largest stateful part of the library and the one every
other part hands its sockets to; the client, the server and the handles that set a
connection up; the two sockets that have a protocol of their own, TLS and the
authenticated Unix socket; and the resolver with its c-ares driver.

In this text A is `Malterlib_Network_AsyncSocketActor.cpp`, S `..._Socket_SSL.cpp`,
and the other files are named without `Malterlib_Network_`.

## 1. The system

Application code talks to **actors**: an actor handles one message at a time, in the
order of its mailbox, and answers with futures. Under the actors are **sockets**
(`ICSocket`: TCP, TLS, authenticated Unix) over a platform layer that lives in
another repository. The platform reports to an actor from the thread of its I/O loop
by posting messages to it: state reports, receive segments, send completions, buffer
releases. `ICSocketCompletionIo` (`src/Documentation/SocketContracts.md`) is the
contract of those reports.

| Component | State it keeps | Operations | Interacts with |
|---|---|---|---|
| Connection actor, send side (`AsyncSocketActor.cpp`) | queue of messages and bytes, promises, reservations, operations in flight, unreleased bytes | `f_SendData`, `fp_UpdateSend`, `fp_SubmitSendOp`, `fp_SendCompleted`, `fp_SendBufferReleased`, `fp_DrainSocketOutput` | socket (submit), I/O loop (reports) |
| Connection actor, life and receive side (same file) | `m_State`, the socket, deferred and pending states, receive buffers, callbacks and whether they are deferred, the upgrade check, promises of connect, close and upgrade, timer | `fp_SetSocket`, `fp_StateAdded`, `fp_ProcessState`, `fp_ReceiveStreamInput`, `fp_AcceptConnection`, `fp_RejectConnection`, `f_Close`, `f_CloseWithLinger`, `f_UpgradeSocket`, `fp_Disconnect`, `f_UpdateTimeout`, `fp_Destroy` | owner (connect result, reply), application (callbacks), socket |
| TLS socket and transport (`Socket_SSL.cpp`, `SSLTransport.cpp`) | handshake and shutdown state, generations of sealed records with their pins, operations in flight, parked and held plaintext, the queue of ciphertext | `f_Receive`, `f_Send`, `f_Shutdown`, submit, continue, resolve and release of a transfer, the receive stream | connection actor, TLS library, platform |
| TLS library binding (`SSL.cpp`) | settings of a context, the result of a verification | making a context, handshake, read, write, shutdown, the decision on the peer | TLS transport |
| TCP socket (`Socket_TCP.cpp`) | none of its own | forwards | platform |
| Authenticated Unix socket (`Socket_AuthenticatedUnix.cpp`) | stage of the handshake, generation of the socket, frames written and read in part | `f_Receive`, `f_Send` and the submissions drive the stage; connect, accept, adopt, shutdown | connection actor, platform |
| Client (`AsyncSocketClientActor.cpp`) | pending connects, replied flags | connect, hand-over of the socket, destroy | resolver, connection actor |
| Server and listeners (`AsyncSocketServerActor*.cpp`) | listens, their actors, connections waiting for the handshake | listen, accept, hand-over, stop, destroy | connection actor, application |
| New connection handle (`AsyncSocket.cpp`) | replied flag | accept, reject, abandon | connection actor |
| Resolver (`ResolveActor.cpp`) | pending lookups, concurrency slots | resolve, cancel, destroy | c-ares driver |
| c-ares driver (`ResolveActor_Cares.cpp`) | channel, socket registrations, timer generation, initialisation waiters | registration, readiness, timer, drain | resolver, I/O loop |
| Network API (`Malterlib_Network.cpp`, `Socket.cpp`) | none | address conversions, calls of the platform | all |

### What is hard here

* **Interleaving of reports.** Completions, releases, segments and state reports come
  from another thread, are ordered only within their kind, and meet a connection that
  may be closing, disconnected or destroyed.
* **Reentrancy.** State processing reads, a read can connect, connecting starts the
  receive stream and processes states; `fp_Disconnect` processes states it deferred.
* **Two ways to receive and two to send**, chosen per direction, with a hand-over in
  the middle of a connection while bytes wait in three buffers.
* **Protocols inside sockets.** Both TLS and the authenticated Unix socket run a
  handshake in the calls of their owner, which does not know of it: a read may have to
  write, readiness is consumed by a frame that is not the owner's.
* **Resource gates** (reservations, generations, byte window, receive window): each gate
  that closes must be looked at again by whatever opens it.
* **Owners that go away.** A listen, a client, a server, a handle or the resolver may
  end in the middle of an `await` of a job that is about to use it.
* **Endings.** Graceful, fatal, by linger, by timeout, by destroy, by the peer; data must
  be delivered or drained first, and every promise settled.

`PROJECT.json` lists these as hazards, each at its line, with the properties that
cover it.

### What makes each component correct

* Send side: bytes reach the transport once and in order; a promise resolves only
  for bytes the kernel took; accounting returns to zero; every send settles; a close
  shuts down behind the last byte; destroy ends.
* Life and receive side: the application gets the bytes of the peer once, in order, and
  its close callback once and last; an orderly close loses nothing in either
  direction; the connection attempt settles; the end of the connection is noticed.
* TLS: records reach the wire in the order they were sealed; a generation stays pinned
  until its release; a completion settles its own generation; plaintext arrives once and
  in order; nothing waits in a buffer for an event that does not come; only a peer the
  settings promise is connected to.
* Authenticated Unix socket: success is mutual and about this very connection; no byte
  crosses between handshake and payload; every attempt ends.
* Server, client and handles: a connection is handed over, rejected or dropped exactly
  once, whatever disappears meanwhile.
* Resolver: each lookup answers once, slots are not lost, stale readiness and timers
  do nothing, destroy ends.

## 2. The modules

| Module | Models | Used by |
|---|---|---|
| `SendStream` | what the send side promises its caller (abstract) | refined by `AsyncSocketSend` |
| `AsyncSocketSend` | the completion send side of the connection actor, with the send contract of TCP and TLS sockets | runs `send_*` |
| `AsyncSocketLifecycle` | the life and receive side of the connection actor on plain and TLS sockets | runs `lifecycle_*` |
| `AsyncSocketNewConnection` | a connection as far as its handshake and reply, who keeps it alive, and its handle | extended by the next two |
| `AsyncSocketServer` | the server and its listen actors | part of `ConnectionSetup` |
| `AsyncSocketClient` | the client and its pending connects | part of `ConnectionSetup` |
| `ConnectionSetup` | a client and a server on one network (composition) | `MCConnectionSetup`, run `connection_setup` |
| `AuthenticatedUnix` | two ends of an authenticated Unix connection with their owners and the kernel between them | `MCAuthenticatedUnix`, run `authenticated_unix` |
| `TlsVerification` | settings, certificates, the verification result and the decision on it | extended by `TlsSocket` |
| `TlsTransport` | generations of records out, queue of ciphertext and held plaintext in | extended by `TlsSocket` |
| `TlsSocket` | the TLS socket in the calls of its owner: handshake, read, write, shutdown | extended by `TlsCompletion` |
| `TlsCompletion` | its completion side: submit, park, continue, resolve, release, receive stream | extended by `TlsConnection` |
| `TlsConnection` | the actor over the TLS socket, with platform and peer (composition) | `MCTlsConnection`, run `tls_connection` |
| `ResolveActor` | the resolver, its lookups and the driver of c-ares | `MCResolveActor`, run `resolve` |
| `*Proofs` | the theorems, section 4 | |

The other `MC` modules give constants their values: the scenarios.

### AsyncSocketSend

Starts where `fp_TryActivateCompletionIo` has just run. Bytes are positions in one
stream, so an operation is a range `from..to`; the histories `nAccepted`, `nTaken`
and `nOnWire` say how far `f_SendData`, the transport and the kernel are. `flight` is
the sequence of operations whose completion the actor has not handled, `unreleased` a
bag of those whose buffers are still held. A handler is one step, except that the loop
of `fp_UpdateSend` takes one step per batch (`pc`). The kernel completes operations in
order, fails them, or cancels those of a closed socket; releases come in any order after
their completion is handled.

The transport is one of three: `Plain` (TCP: no staging, gated by the byte window),
`TlsStream` (TLS, receives as a stream: no continuation is ever needed, because
the actor drains the library's output itself), `TlsReadiness` (TLS, receives on
readiness: `f_ResolveSend` may ask for a continuation, which inherits the
reservation). A refused batch, a failed operation and a socket lost with operations
in flight (deferred cleanup) are actions of their own, and so is a generation of which
the platform takes a part (`SubmitPart`, `DrainPart`, `SendContinuedPart`): the actor is
told that it was refused and disconnects without counting it (A:1342), but the operation
stands, and its completion and release arrive at an actor without a socket. The history
`uncounted` remembers it. Counters are `umint`: `Decrement` wraps to `MaxUmint`.

Abstracted: the choice of the window of a plain transport (fixed here), the byte
window and buffer limit of TLS (the number of generations, `Depth`, stands for both), the
priorities of messages, the contents.

### AsyncSocketLifecycle

The send side is two numbers: the messages written to the output (`nOutput`) and those
that wait for a handshake (`nUnwritten`, `m_PendingMessages`). `f_SendData` refuses a
disconnected socket only, so during the handshake of an upgrade a message is queued; it
is written by whoever finds the handshake done, which may be the next `f_SendData`
itself (`SendConnects`), or dropped by the disconnect that ends the connection, a
graceful one included (A:895). The peer sends units 1, 2, ... (a unit is
what one read returns, or a TLS record), answers the handshake well or badly, closes
(with or without a close_notify) and resets. `reports` and `segments` are what the
platform posted and the actor did not handle yet: in order within each queue, in any
order between them.

`fp_ProcessStateNow` is a small program over the set of states it was given (`added`):
`Enter` defers close states, then one action per read, then `RemoteClosed`, `Closed`
and `Write`; `Leave` is the loop of `fp_ProcessState` over what was reported while it
ran (`pending`). A local `fp_Disconnect` is a step (`DisconnectLocal`), which
processes the states deferred until then. Everything else is one step per handler.
`calls` is the log of the callbacks the application got.

Its receive buffers are kept apart, as in the code: `incoming` (`m_IncomingData`),
`receiveData` (`m_ReceiveData`), `deferredData` (data before the reply) and, in the
transport, the units it holds (`nHeld`) and gave out (`nOpened`).

The **upgrade** replaces a plain socket by a TLS one in mid-connection. With an upgrade
check (`check`, `upgradeData`) data goes to the check first; reads are deferred
(`deferredRead`) once it saw the request, which it takes whole, and `f_UpgradeSocket`
hands what was read to the new socket and runs its handshake (`upgrade`). The peer's
answer to that handshake is one event. Two facts the model shows: after an upgrade that
failed because the peer closed gracefully in its handshake the close callback is never
called (`fp_Disconnect` in `EState_None`), so the error of `f_UpgradeSocket` is all the
application gets, and `f_CloseWithLinger` then waits its whole time. `CloseToldLast` and
`LingerCompletes` name that exception. A check that answers without taking what it was
given makes `f_UpgradeSocket` refuse for ever; that is misuse and is not modelled.

### AsyncSocketNewConnection, AsyncSocketServer, AsyncSocketClient, ConnectionSetup

A connection is counted by who refers to it (`holders`): the job that waits for its
handshake, the handle, a message in a mailbox, the application. Whoever drops the last
reference destroys it, as the strong actor pointers of the code do. Its handshake
settles in one step with either result. The handle's `m_bRepliedToConnection` is
`replied`.

The server has one listen on one or two addresses (listens of other calls share only
the map they are found in) and one listen actor per address. `f_StartListenAddress` goes
address by address (`start`, `iAddress`), because the loop can report on a socket before
its actor has it; the accept loop goes connection by connection; `adding` follows
`fp_AddConnection` over its two awaits, `listen` and `subscription` the entry it looks up
again. The client's `pending` is the entry of `mp_PendingConnects`, `callback` and
`pReplied` what the loop thread runs, `job` what it dispatched to the actor, `cleanup`
who shares `CleanupPending`. The network is external: an attempt is connected at the
client before the server accepts it.

The jobs of a server's mailbox are taken in any order here (more behaviours than the code
has). A `Scenarios` record bounds who connects and which faults may happen.

### AuthenticatedUnix

A client that may connect again on the same socket and the socket the server accepts for
each attempt. A frame is a length and a payload, one unit each, and the kernel holds
three units in each direction, so frames are split in the middle. The owner's calls are a
step per flush and per unit read; the loop's reports of a connect or a close may be late,
that is, reach a socket that is used again, which the generations of the code's registry
are there to tell apart. Cryptography is symbolic: a hello stands for its nonce, a
signature for its signer and transcript; what certificates and the kernel identity say is
the scenario. Once the handshake is done, submissions and the receive stream of completion
I/O take over. A segment is read by the loop and handled by the actor in one step, as
the mailbox keeps their order. `AdoptSocket` stands for `f_InheritHandle` too. Both ends
run this code, so malformed and oversize frames do not occur.

### TlsVerification, TlsTransport, TlsSocket, TlsCompletion, TlsConnection

Layers, as in the code. `TlsVerification` and `TlsTransport` are operators: what the
member functions of the context, the connection result and the transport compute.
`TlsSocket` and `TlsCompletion` are operators on the record `s` of one socket, each
the effect of one call of its owner, with the alternatives as a set. `TlsConnection` is
the state machine: the actor's handlers (`actor.call` says where the running one is),
the platform (kernel, loop) and the peer.

A sealed record is one unit and is known by its number in seal order. The peer's stream
is the kinds of its records (`hs`, `data`, `ctl`, `close`, `bad`): one unit each, but
data records take three units of ciphertext and carry two of plaintext, so a record can
arrive in part and be read in part. `tx` holds the generations (fill, unsent, pinned,
free), `rx` the queue of ciphertext and the held plaintext. A scenario says how the
socket was opened, the settings, the peer, whether it uses the transport or, as for
descriptors without completion I/O, the library directly (`direct`), what is sent each
way and what may go wrong (`may`).

The library is external: its records, and a verification that reports a chain as it is.
Some facts of the code the model keeps: a place for revocation lists that holds none
leaves revocation unchecked, whereas an authority that cannot be read throws; a missing
list counts as a trust error, as does a certificate whose issuer is not at hand, but a
root outside the store that the peer sends in its chain, and an issuer missing further
up, are verification errors (`fsp_IsTrustError`), which `m_bIgnoreVerificationFailures`
lets pass and which a remembered or expected certificate does not make up for; a quiet
shutdown sends no alert; `f_SetExpectedConnectionResult` has no caller in the library, so
who was decided on is chosen by the scenario; the lowest version of the "SSL" protocol is
the library's own default and is any version here.

Abstracted: the reuse of memory of retired buffers, the hysteresis of the receive
window (reading resumes below it), the limit of eight reservations (not reached). Most
handlers drain all they can, so parking and continuations happen in few states.

### ResolveActor

`step` says where the coroutine of each lookup is; a resumption of it is one action
(`ResumeGranted`, `ResumePrepared`, `ResumeNative`, `ResumeInitialized`, `Ask`,
`ResumeAnswered`). What `fp_Initialize` does for all its waiters is a job of its own,
although in the code it runs in the coroutine of the first of them: that lookup waits
like the others. `pending` and `answer` are `mp_Pending` and the promises; `queue` and
`slots` the sequencer, whose slot leaves the actor with the native call.

c-ares is external. `CallCares` is any call of it: some queries are answered, sockets
closed and opened, a registration or the call itself may fail, and then the driver cancels the
other queries, requests readiness and sets its timer. Sockets are pairs of a
descriptor, which the system may give again once it is closed, and a generation.
`loop`, `armed`, `removing` and `events` follow a registration through the I/O loop; `arming`,
`timer` and `elapsed` follow a timer, whose registration is awaited while it runs already.
Read and write interest are one readiness. The drain counts the closes the loop still
owes, and the channel.

## 3. The runs

| Run | Instance | Shows |
|---|---|---|
| `send_safety` | plain and TLS stream; depth 3, window 3, pool 3, 5 bytes, messages of 1-3, gathers of 2 | types, `GatherContinues`, `ReservationsOwned`, `OpsCounted`, `TransferStateReleased`, `OutputDrained`, `WindowAccounting`, and that `SendStream` is implemented |
| `send_liveness` | all three transports; depth 2, window 2, 3 bytes | sends settle, a close completes, destroy ends |
| `send_two_chains` | TLS readiness, depth 3, 4 bytes | *violated*: `GatherContinues` |
| `send_empty_message` | plain, messages of 0 and 1 bytes | *violated*: `PromisesAhead` |
| `lifecycle_safety` | all four sockets, with and without an upgrade check, no timer, 2 units, buffers of 2, window 3, 1 message, subscriptions dropped | data in order, through an upgrade too; close told last; deferred closes replayed; orderly closes lose neither data nor output; what is queued during an upgrade is written or dropped with the connection |
| `lifecycle_liveness` | plain stream and TLS readiness, with and without a check, timer on, 1 unit, window 1, 1 message | the attempt and the upgrade settle, the end of the connection is noticed, linger ends |
| `lifecycle_early_close` | plain stream, bounds of `lifecycle_safety` | *violated*: `NothingLostBeforeClose` |
| `lifecycle_linger_refused` | all four sockets, bounds of `lifecycle_safety` | *violated*: `LingerDrains` |
| `connection_setup` | a client's attempt or two peers, one or two addresses, one accept that fails; 4 scenarios | answers stand, no callback after the end of a listen, every connect is answered, every connection handed over or destroyed, every listen socket closed |
| `authenticated_unix` | 13 scenarios, up to 2 attempts, a kernel of 3 units, 1 unit of payload | success is mutual, payload intact, the handshake ends, payload arrives |
| `tls_connection` | 2 generations of 2 records, ciphertext buffers of 4, held plaintext of 2, window 3; scenarios of certificates and of exchanges | seal order kept, credit only for what drained, plaintext in order, only a promised peer accepted, input delivered, output leaves |
| `resolve` | a lookup of an address with a second family and one of a host, 1 slot, 1 descriptor, 2 generations | answered once, native calls bounded, nobody waits for what nobody does, nothing closed under the loop, lookups answered, destroy ends and leaves nothing |

### Bounds

*Send.* Three reservations and three generations allow two chains and one more waiting at
the gate; messages longer than a gather split over two operations and gathers of two
bytes join two messages; five bytes let a chain run around the pool.

*Lifecycle.* Two units let one be in each of two buffers, or one before and one after the
hand-over to the stream, or one before and one behind the request to upgrade; a buffer
of two units is delivered both full and partly filled; one queued message is what makes
a disconnect wait. The window of one segment in the liveness run is the smallest that
lets an application block the stream by keeping its buffer. Dropping the subscription
(`Unsubscribes`) doubles the states and no liveness depends on it, so it is left to the
safety run.

*Connection setup.* Two peers let one connection be in its handshake while the next is
accepted; two addresses let one listen actor start while the other fails or already
reports. One attempt is enough for the client: attempts share only the actor and its
destruction. The scenarios keep faults of the server and of the client apart.

*Authenticated Unix.* Three units hold one frame and a half, so a frame can be
written and read in halves. Two attempts make reports of the first arrive at the socket of the
second. The calls of the two ends overlap step by step where a scenario says so;
elsewhere one end's call runs before the other's, which leaves out how the halves of
their frames interleave.

*TLS.* Data records of three units in buffers of four, segments of at most two and a
window of three make a record stall in the window, spread over segments and straddle buffers; two
generations let one be pinned while the other fills. Certificates, strengths, versions,
roots, revocation and the server's own identity vary in scenarios with nothing to send;
exchanges in scenarios with a good peer. `"Partly"` scenarios (below) take part in
everything but `CreditedWhenDrained`.

*Resolver.* Two lookups let one wait for the initialisation, the slot or c-ares of
the other, and be cancelled meanwhile; the address exercises all paths of
`fp_ResolveAddress`, with a host that may be native. One descriptor is the case in which
its number is reused at once; two generations let one report be stale (a third would
only allow two stale ones at a time, and a call of c-ares that needs one waits for that
report).

*Deadlock.* `AsyncSocketSend` has an explicit `Terminated` step and deadlock is checked.
Elsewhere the behaviours may stop: a resolver that has answered its lookups, a destroyed
connection whose peer is done, a connection set up or refused, a handshake that is over,
a TLS connection with nothing left to send. What must not stop is said by the liveness
properties.

### Fairness

A handler that started runs to its end and the mailbox is a FIFO, so what waits in it is
handled although other messages keep coming: in the send module strong fairness for
handling a completion or a given release, in the lifecycle weak fairness, as its queues
do not disable one another. The kernel ends every operation it was given: for a send
this means that the peer reads, or the inactivity timer or the application drops the
connection, which cancels it. `QuietPeer` is an assumption of `SendsSettle` and
`CloseCompletes`: a peer that makes the TLS library produce records for ever can
postpone a close for ever (nothing in the code bounds it). In the lifecycle a timer that
polls again and again finds its time exceeded in the end (`SF` on `PollExpires`): it
compares wall-clock times with the last progress, and a handshake makes only finitely
much. The application and the peer owe nothing: no fairness for accept, close, destroy,
an upgrade or giving back buffers.

In `ConnectionSetup` and `AuthenticatedUnix` no behaviour has infinitely many steps, so
weak fairness of one disjunction, all that actors, loops and kernel do, is enough; users
and applications are left out of it. That a handshake settles (`FinishConnection`) is an
assumption: the server's default timeout is none, so a silent peer may keep a handshake
for ever. With a timeout it is `FinishSettles` of the lifecycle.

In `TlsConnection` the actor's thread runs (`ActorRuns`, weak fairness with its
ENABLED written out, which TLC would evaluate at great cost) and the platform and the
peer go on reading and writing; who closes, loses or ends is free.

In the resolver, coroutines, workers, the loop's removals and timers make progress; a
socket may stay silent. c-ares counts the tries of a query and gives up, so a call that
leaves it no query comes in the end if it is called again and again (`SF`): what the
driver has to do, and `LookupsAnswered` checks, is to keep calling it.

### What the violated runs found

Details and quotations are in `PROJECT.json`.

1. `send_two_chains`: two chains of a TLS socket share one counter of completed
   plaintext, so with receives on readiness a completion may report the bytes of another
   reservation, which is then still subtracted from the next gather: bytes are skipped
   (S:711, A:1611).
2. `send_empty_message`: the promise of an empty message on an idle connection stays open
   (A:1625).
3. `lifecycle_early_close`: a remote close that is already known when a read connects and
   starts the stream is not deferred, and what the stream delivers later is dropped
   (A:2126). `OrderlyCloseKeepsData` excludes exactly this case (`heldQueued`, set by the
   start of the stream until the next handler).
4. `lifecycle_linger_refused`: `f_CloseWithLinger` after a pending `f_Close` destroys the
   connection with its output (A:735).

Two more divergences were met and have no run. With receives on readiness, records a read
produces wait in the unpinned generation although a slot is free (A:2004); this is why
`OutputDrained` is proved for stream receives only. And a sealed generation that the
platform takes in part is reported as refused (S:660), so its completion is one the actor
never counted. `OpsCounted` says what this comes to, beside `uncounted`: the socket is
gone by then and the count one short, so the last completion finds it at zero, where
the check `DMibFastCheck(Internal.m_nSendOpsInFlight)` (A:1567) fails and, in a build
without it, the counter wraps. `TransferStateReleased` says that the clean-up is not
harmed: the last counted completion does it, or the disconnect if none is left, and
nothing depends on the counter afterwards. `CreditedWhenDrained` is about counted
operations.

## 4. The proofs

Each theorem is about the specification TLC runs, for every value of its constants.

* `AsyncSocketSendProofs`, about `AsyncSocketSend`.
  * `TypeCorrect` (types; that no decrement but one wraps is in the next ones),
    `GatherContinuesSafe`, `ReservationsOwnedSafe`, `OpsCountedSafe`, `OutputDrainedSafe`.
    One inductive invariant, `IndInv`, carries these five. `GatherContinues` alone is
    not inductive: that a completion subtracts as much from `nOutgoingSubmitted` as it adds
    to `nSentBytes` depends on *whose* bytes it reports. So the invariant says that the
    operations in flight carry adjacent ranges from the bytes reported to the bytes taken
    (`Chain`), that an operation carries exactly the bytes of its reservation (`Carried`),
    that no plaintext is held over from another operation (`NothingHeld`), and that the
    reserved bytes are still queued (`Reserved`), beside the ownership of the reservations
    and their number in use (`InUseCounted`). The step lemmas group the actions by their
    effect on this ledger: those that keep it, that append an operation, that settle the
    oldest, and that lose the socket.
  * `TransferStateReleasedSafe` adds `CleanupOwed`: a deferred cleanup has a counted
    operation in flight that will do it.
  * `WindowAccountingSafe` adds `WindowInv`: the window and the pins are the sums, over the
    operations in flight and the releases owed, of what each took. The sums are recursive
    functions; `Induct`, that a set of naturals with 0 and all successors is `Nat`, is what
    lets the proof reason about them.
  * `StreamImplemented`, the refinement of `SendStream`, and `PromisesAheadSafe` add
    `StreamInv`: the promises left are the last of those made, at increasing positions all
    ahead of what is reported, and a close waits behind every byte. Each step maps
    to a step of `SendStream` or to none.
* `AsyncSocketLifecycleProofs`, about `AsyncSocketLifecycle`: `CloseStatesReplayed`,
  `OutputDrains` and `CloseIsToldLast`.
  A closed state drops what is queued, so the invariant says where a closed state can come
  from, in whichever of five places it waits, and what the peer did before the platform
  ended the stream, for each segment on its way, and that messages wait to be written only
  during a handshake, while nothing is written in one; for the last, who is told of a disconnect,
  that nothing reaches the application of a connection that is down, and that a handshake
  always has somebody waiting for it.
  The second part of the module is about the data.
  * `DataInOrder`: what the application was told, followed by the three buffers of the
    actor, are the units from the first to the last the transport gave, as long as the
    application is heard (`NothingMissing`). A handler moves units over a seam of this
    sequence or appends to it. `FlowInv` says which buffers may hold anything where: only
    while a read state is still being processed, before the upgrade is decided, or before
    the application accepts.
  * `OrderlyCloseKeepsAll`: what the peer sent is counted on its way (`TransferInv`): no more
    leaves the kernel than was sent, and whatever ends the stream (a close_notify, the end
    segment, the broken layer) comes behind all of it. Where a remote close waits to be
    looked at, either a read waits in front of it or the receive stream replays it
    at its end; for a required upgrade, what is owed is the request only.
* `AuthenticatedUnixProofs`, about the two ends and the kernel between them.
  * `MutualAcceptanceSafe`: every hello and acceptance that is on its way, in a buffer of
    the kernel or of an end, is one of the present attempt (`Buffers`), and each
    stage of a handshake tells what has been accepted by whom (`Established`). The reports
    of an earlier attempt meet the generation in the callback.
  * `PayloadIntactSafe`: the units one end writes are numbered, handshake first
    (`KindAt`, by whether it shows a certificate). What the other end has read, what is in
    the kernel and what is pending are adjacent runs of this numbering that add up to what
    was queued (`Flows`).
* `ResolveActorProofs`: `CallsStayBounded`, `WaitersAreServed`, `OnlyOpenIsWatched`,
  `AnswerStands`. The invariant ties each to who owns what: a slot to the worker that has
  it, a descriptor to the socket or registration that has it, the count of the drain to
  the registrations being removed, the initialisation to the state that says it runs.
* `ConnectionSetupProofs`: `TypeCorrect`, `OneAnswer`, `NoCallAfterEnd`. The types are not
  hollow here: a job that took the socket of an entry that is gone would leave a value
  outside of them. `RepliesOnce` and `PromiseLeft` say to whom a reply or promise is left.
* `TlsConnectionProofs`: `AcceptedIsPromised`, for all settings, peers and decisions (the
  run checks a sample): what the decision accepts, the settings promise. It is about the
  operators; that the running handshake applies them is `AcceptedAsConfiguredSafe`, about
  the connection, over every path by which its socket calls the library.
  The invariant (`Hand`) says what the script of the library has established: once the
  peer's certificate was read it has been decided on, and where it was verified and is about to
  be reported, `AcceptedIsPromised` applies; a connected socket keeps the promise. Between a
  call of the actor and the library lie three loops (reading input, draining output,
  sealing data), so each operation gets a frame lemma, which fields of the socket it
  leaves alone. The loops are recursive functions: that each exists is proved
  with `Induct`, and its frame from that.

* `TlsPlaintextProofs`: `PlaintextInOrderSafe`, on readiness and on completion, through
  the change from the one to the other. The invariant (`FlowInv`) says where every unit
  taken of the peer's stream is: the library has read it (`Place`), the queue of the
  transport has it next (`InStep`), or a segment of the mailbox carries it, in order
  (`Follows`). The plaintext given and held is that of the records read (`Plain`). A
  socket that is shut down or broken drops what arrives, so of it only the parts that do not
  count the stream hold (`TurnedAway`, `Loose`). Three things make it inductive that the property does not
  mention: a stream is started only on completion (`Fine`), in which nothing reads the
  platform any more, so taken units cannot overtake segments; the handshake ahead
  reads flights only (`Awaits`), so no data is counted and not given; a consumed piece of
  the queue is empty (`QueueOk`), so compaction moves nothing. The queue is
  specified by the sequence it stands for (`ConsumedIs`, `DataOfBoth`), the
  operators by what they leave of the invariant (`Good`), the handlers by what they reach
  (`Leads`, `Remains`).

* `TlsOutputProofs`: `SealOrderKeptSafe`. The order on the wire is not inductive: it depends on
  what is still to be written, and on who has it. The invariant (`Whole`) says that the wire,
  what the operations of the platform still have and the generations that wait are together
  all that was sealed, in this order (`InOrder`), and keeps a ledger of the pinned generations
  (`Ledger`): each is the platform's by one operation, or has one release in the mailbox
  and its completion ahead of it; a drained one has no records. From the ledger follows that a
  generation that is unpinned goes where it belongs: a drained one to the free list,
  and none with records behind later ones. `Arranged` says of the others that they are
  the fill, waiting or free, each once, with the fill last of those that wait. When
  nothing is pinned the platform has nothing, so a flush goes on where the wire ends;
  what is begun is the oldest that waits, so an operation joins what the platform has
  to what is left. A socket the actor let go of writes no more (`Sails`). As before each
  operation of the socket gets a lemma (`WholeFlushes`, `WholeCarries`, `WholeResolves`, ...),
  and each handler one that says it ends in such a socket (`Stays`).

Assumptions: those of the constants (`SendAssumption`, `LifecycleAssumption`,
`HandshakeAssumption`, ...) and two of `AsyncSocketSendProofs`. `StreamReceives`: no
transport is `TlsReadiness`. It is not for convenience: with receives on readiness
`GatherContinues` is false, as `send_two_chains` shows, and `NothingHeld` is what fails.
`FlightsAssumption` of `TlsSocket` says that the peer's stream begins with the flights that the
handshake reads, which any library that speaks TLS sends; a stream without them is not
one the model of the library can read. TLC evaluates it for the scenarios of the run.
`MessagesHaveBytes`, of `StreamImplemented` and `PromisesAheadSafe`: an empty message
leaves its promise open, as `send_empty_message` shows, and it is the only one that does.

**Only model-checked:** the liveness properties (fairness and ENABLED are out of the
prover's reach), and of `TlsConnection` the invariant
`CreditedWhenDrained`, an account of sums over `ops` and the mailbox.

## 5. Not modelled

* Connection actor: sending on readiness (`fp_UpdateSend` A:977-1052; the TLS model has
  the socket's side of it), adaptive windows and priorities, `f_SetTimeout` while a
  registration is under way (A:2230, a hazard without a property), an upgrade check on a
  socket that is TLS already (a factory of checks applies to every socket), the debug hooks of the tests, a send
  cancelled while its socket lives.
* TLS: completion sends with receives on readiness (in `AsyncSocketSend` only), reuse of
  memory, a context that fails after it was made, library refusals other than those of
  the verification, keys, digests and loading of the library.
* Authenticated Unix: listening, datagrams and the other calls it forwards, the
  network-activity flags, which only tell of progress, and peers that do not run this
  code.
* Server and client: the forms of listening and connecting that only fill in
  settings, a socket factory that throws, several listens at once.
* Resolver: the answer to an empty address (at once), a lookup started on a destroyed
  actor (an error at once), the resolver shared by a process and the templates of
  `Resolve.hpp` that wait for it.
* `Malterlib_Network.cpp`, `Socket.cpp` and most of `Socket_TCP.cpp`: string parsing, address
  conversions and forwards to the platform, whose sources are in another repository, with
  no protocol state. The blocking `f_Connect` waits on an event of the platform; no actor
  calls it.
* `ImportCache`: about 10,800 of the 24,250 implementation lines are generated headers
  of c-ares builds. There is nothing to model in them.

## 6. What is left

1. The readiness send path of the actor, composed with the TLS socket of `TlsSocket`.
2. `OutputDrains` and `CloseStatesReplayed` are proved for the abstract send side of the
   lifecycle; composing it with `AsyncSocketSend` through `SendStream` would join the two.
3. `CreditedWhenDrained` as a theorem, from `Whole`: sums over `ops` and the mailbox of the
   plaintext not yet credited, and which of the data records are in which generation.

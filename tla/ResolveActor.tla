---------------------------- MODULE ResolveActor ----------------------------
(***************************************************************************)
(* CResolveActor: lookups and their cancellation, the sequencer that bounds *)
(* native calls, the initialisation of the c-ares channel, and the driver   *)
(* of c-ares: its sockets in the I/O loop, its timer and the drain of       *)
(* fp_Destroy.                                                              *)
(*                                                                          *)
(* step says where the coroutine of a lookup is; each resumption of it on   *)
(* the actor is one action.  The initialisation is a job of its own, as it  *)
(* runs on behalf of every lookup that waits for it.                        *)
(*                                                                          *)
(* c-ares is external: a call of it answers some of the queries, closes and *)
(* opens sockets.  Generations only have to differ from those still in use, *)
(* as those of 64 bits always do; so numbers that are gone are used again.  *)
(***************************************************************************)
EXTENDS Naturals, Sequences, FiniteSets

CONSTANTS
  Lookups,      \* the lookups started
  InitJob,      \* the initialisation of the channel
  Asks,         \* what the lookups ask for
  MaxConcurrent,\* slots of the sequencer
  Handles,      \* descriptors the system may give c-ares
  Generations   \* bound: generations of sockets and of timers in use at once

Jobs == Lookups \cup {InitJob}

\* f_Resolve prepares its address first and may try a second family; a host with
\* a scope is looked up natively, without c-ares.
Requests == [stage : {"Prepare", "Host"}, native : BOOLEAN, second : BOOLEAN]

ASSUME ResolveAssumption ==
  /\ Asks \in [Lookups -> {r \in Requests : r.second => r.stage = "Prepare"}]
  /\ InitJob \notin Lookups
  /\ MaxConcurrent \in Nat \ {0}
  /\ Generations \in Nat \ {0}

VARIABLES
  state,           \* m_State
  channel,         \* m_pChannel is set
  failure,         \* m_pFailure is set
  pending,         \* mp_Pending
  answer,          \* of the promise of a lookup
  request,         \* what is left of a lookup to do
  step,            \* where a job is
  waiters,         \* m_InitWaiters
  queue,           \* jobs that wait for a slot, oldest first
  slots,           \* jobs that hold a slot
  queries,         \* lookups c-ares has not answered
  sockets,         \* m_Sockets
  loop,            \* sockets registered in the I/O loop
  armed,           \* registrations whose readiness is requested
  removing,        \* registrations being removed
  descriptors,     \* open descriptors
  events,          \* fp_SocketReady on its way to the actor
  drain,           \* CDrain::m_Pending
  timerGeneration, \* m_TimerGeneration
  timer,           \* m_Timer, 0 when it has none that runs
  arming,          \* timers that run while fp_SetTimer awaits their registration
  elapsed,         \* callbacks of timers on their way to the actor
  destroyed        \* fp_Destroy is done

lookupVars == <<pending, answer, request>>
initVars == <<state, channel, failure, waiters>>
slotVars == <<queue, slots>>
socketVars == <<sockets, loop, armed, removing, descriptors, events, drain>>
timerVars == <<timerGeneration, timer, arming, elapsed>>
vars == <<lookupVars, step, initVars, slotVars, queries, socketVars, timerVars, destroyed>>

Sockets == [handle : Handles, generation : 1 .. Generations]

Init ==
  /\ state = "Uninitialized" /\ channel = FALSE /\ failure = FALSE
  /\ pending = {}
  /\ answer = [l \in Lookups |-> "None"]
  /\ request = Asks
  /\ step = [j \in Jobs |-> "New"]
  /\ waiters = {} /\ queue = <<>> /\ slots = {} /\ queries = {}
  /\ sockets = {} /\ loop = {} /\ armed = {} /\ removing = {} /\ descriptors = {}
  /\ events = {} /\ drain = 1
  /\ timerGeneration = 0 /\ timer = 0 /\ arming = {} /\ elapsed = {}
  /\ destroyed = FALSE

-----------------------------------------------------------------------------
(***************************************************************************)
(* c-ares and its driver.                                                  *)
(***************************************************************************)

\* The next generation: one nothing in use carries.
Fresh(used) == {g \in (1 .. Generations) \ used : \A h \in 1 .. g - 1 : h \in used}

NewSockets ==
  [handle : Handles \ descriptors,
   generation : Fresh({s.generation : s \in sockets \cup loop \cup events})]

\* Mutant: closes under the registration.
ClosesUnderLoop(s) == TRUE

\* fs_CloseSocket: a registered socket keeps its descriptor until the loop has
\* removed it.
ClosesAtOnce(s) == s \notin loop

\* Mutant: the drain counts the channel once more.
CountsChannel(closing) == Cardinality(closing) + 1

\* Closes the drain of fp_Destroy waits for.
Counted(closing) == Cardinality(closing)

CloseSockets(closed) ==
  /\ removing' = removing \cup (closed \cap loop)
  /\ drain' = drain + Counted(closed \cap loop)

HandlesOf(some) == {s.handle : s \in some}
StillOpen(closed) == descriptors \ HandlesOf({s \in closed : ClosesAtOnce(s)})

\* f_UpdateTimer and fp_SetTimer, until it awaits the registration.
TimerNeeded(left) == left # {}

NextTimer == Fresh(arming \cup elapsed \cup {timer, timerGeneration})

UpdateTimer(left) ==
  /\ timerGeneration' \in NextTimer
  /\ timer' = 0
  /\ arming' = IF TimerNeeded(left) THEN arming \cup {timerGeneration'} ELSE arming

\* A failure of the driver cancels what c-ares still has to answer.
Left(unanswered, failed) == IF failed THEN {} ELSE unanswered

\* Mutant: readiness is requested when the interest changes only.
NoRearm(all) == {}

\* Sockets f_Process requests readiness of.
Rearmed(all) == all

\* A call of c-ares that has the queries in asked, with the driver's callbacks.
\* processed says that f_Process made it.
CallCares(asked, processed) ==
  \E answered \in SUBSET asked, closed \in SUBSET sockets,
     opened \in {{}} \cup {{s} : s \in NewSockets},
     registered \in BOOLEAN, status \in {TRUE, ~processed} :
    LET left == Left(asked \ answered, failure')
        known == (sockets \ closed) \cup opened
    IN /\ opened = {} => registered
       /\ failure' = (failure \/ ~registered \/ ~status)
       /\ queries' = left
       /\ step' = [j \in Jobs |-> IF j \in left THEN "Asked"
                                  ELSE IF j \in asked THEN "Answered" ELSE step[j]]
       /\ sockets' = known
       /\ CloseSockets(closed)
       /\ descriptors' = StillOpen(closed) \cup HandlesOf(opened)
       /\ loop' = IF registered THEN loop \cup opened ELSE loop
       /\ armed' = armed \cup (loop' \cap (opened \cup (IF processed THEN Rearmed(known) ELSE {})))
       /\ UpdateTimer(left)

-----------------------------------------------------------------------------
(***************************************************************************)
(* Lookups.                                                                *)
(***************************************************************************)

\* Inside fp_Resolve and fp_Initialize: wait for a slot.
AwaitSlot(l) ==
  /\ queue' = Append(queue, l)
  /\ step' = [step EXCEPT ![l] = "Waiting"]
  /\ UNCHANGED <<state, waiters>>

\* fp_Initialize, called by a lookup.
Initialize(l) ==
  IF state = "Ready" \/ failure
  THEN /\ step' = [step EXCEPT ![l] = IF state = "Ready" THEN "InitDone" ELSE "InitFailed"]
       /\ UNCHANGED <<state, waiters, queue>>
  ELSE /\ waiters' = waiters \cup {l}
       /\ state' = IF state = "Uninitialized" THEN "Initializing" ELSE state
       /\ queue' = IF state = "Uninitialized" THEN Append(queue, InitJob) ELSE queue
       /\ step' = IF state = "Uninitialized"
                  THEN [step EXCEPT ![l] = "InitWait", ![InitJob] = "Waiting"]
                  ELSE [step EXCEPT ![l] = "InitWait"]

Begin(l, r) == IF r.stage = "Prepare" \/ r.native THEN AwaitSlot(l) ELSE Initialize(l)

\* Mutant: answers without a look at mp_Pending.
AnswersAnyway(l) == TRUE

\* The result of a lookup, in fp_Start: only a pending one is answered.
Answers(l) == l \in pending

Finish(l, ok) ==
  /\ answer' = IF Answers(l) THEN [answer EXCEPT ![l] = IF ok THEN "Success" ELSE "Error"] ELSE answer
  /\ pending' = pending \ {l}
  /\ step' = [step EXCEPT ![l] = "Ended"]
  /\ UNCHANGED <<request, state, waiters, queue>>

\* fp_ResolveHost returned to fp_ResolveAddress or to fp_Start.
HostEnded(l, ok) ==
  IF ~ok /\ request[l].second /\ l \in pending
  THEN /\ request' = [request EXCEPT ![l].second = FALSE]
       /\ Begin(l, request[l])
       /\ UNCHANGED <<pending, answer>>
  ELSE Finish(l, ok)

\* f_Resolve, f_ResolveHost and fp_Start.
Start(l) ==
  /\ step[l] = "New" /\ state # "Stopping"
  /\ pending' = pending \cup {l}
  /\ answer' = [answer EXCEPT ![l] = "Open"]
  /\ Begin(l, request[l])
  /\ UNCHANGED <<request, channel, failure, slots, queries, socketVars, timerVars, destroyed>>

\* A coroutine that got its slot: a cancelled lookup gives it back.
Abandoned(j) == IF j = InitJob THEN state = "Stopping" ELSE j \notin pending

ResumeGranted(j) ==
  /\ step[j] = "Granted"
  /\ IF Abandoned(j)
     THEN step' = [step EXCEPT ![j] = "Ended"] /\ slots' = slots \ {j}
     ELSE step' = [step EXCEPT ![j] = "Working"] /\ UNCHANGED slots
  /\ UNCHANGED <<lookupVars, initVars, queue, queries, socketVars, timerVars, destroyed>>

\* fp_ResolveAddress after the preparation: an address as it is, an error or a
\* host name.
ResumePrepared(l) ==
  /\ step[l] = "Returned" /\ request[l].stage = "Prepare"
  /\ \/ \E ok \in BOOLEAN : Finish(l, ok)
     \/ /\ l \in pending
        /\ \E native \in BOOLEAN :
             /\ request' = [request EXCEPT ![l].stage = "Host", ![l].native = native]
             /\ Begin(l, request'[l])
        /\ UNCHANGED <<pending, answer>>
  /\ UNCHANGED <<channel, failure, slots, queries, socketVars, timerVars, destroyed>>

\* fp_Resolve returned a native lookup of a host.
ResumeNative(l) ==
  /\ step[l] = "Returned" /\ request[l].stage = "Host"
  /\ \E ok \in BOOLEAN : HostEnded(l, ok)
  /\ UNCHANGED <<channel, failure, slots, queries, socketVars, timerVars, destroyed>>

\* fp_ResolveHost after fp_Initialize.
MayAsk(l) == step[l] = "InitDone" /\ l \in pending /\ ~failure

ResumeInitialized(l) ==
  /\ step[l] \in {"InitDone", "InitFailed"}
  /\ ~MayAsk(l)
  /\ HostEnded(l, FALSE)
  /\ UNCHANGED <<channel, failure, slots, queries, socketVars, timerVars, destroyed>>

Ask(l) ==
  /\ MayAsk(l)
  /\ CallCares(queries \cup {l}, FALSE)
  /\ UNCHANGED <<lookupVars, state, channel, waiters, slotVars, events, elapsed, destroyed>>

\* fp_ResolveHost after fs_Reply.
ResumeAnswered(l) ==
  /\ step[l] = "Answered"
  /\ \E ok \in {b \in BOOLEAN : b => ~failure} : HostEnded(l, ok)
  /\ UNCHANGED <<channel, failure, slots, queries, socketVars, timerVars, destroyed>>

\* fp_Initialize after fs_CreateChannel.  f_CheckDestroyedOnResume ends it once
\* the actor is being destroyed.
EndsInit == state = "Stopping"

ResumeInit ==
  /\ step[InitJob] = "Returned"
  /\ IF EndsInit
     THEN /\ step' = [step EXCEPT ![InitJob] = "Ended"]
          /\ UNCHANGED initVars
     ELSE \E ok \in BOOLEAN :
            /\ state' = IF ok THEN "Ready" ELSE "Failed"
            /\ channel' = ok
            /\ failure' = ~ok
            /\ waiters' = {}
            /\ step' = [j \in Jobs |-> IF j = InitJob THEN "Ended"
                                       ELSE IF j \notin waiters THEN step[j]
                                       ELSE IF ok THEN "InitDone" ELSE "InitFailed"]
  /\ UNCHANGED <<lookupVars, slotVars, queries, socketVars, timerVars, destroyed>>

\* Mutant: cancellation gives the slot back.
SlotLeavesWithLookup(l) == slots \ {l}

\* fp_Cancel.  The worker retains its slot.
SlotsOfCancelled(l) == slots

Cancel(l) ==
  /\ l \in pending
  /\ pending' = pending \ {l}
  /\ answer' = [answer EXCEPT ![l] = "Cancelled"]
  /\ slots' = SlotsOfCancelled(l)
  /\ UNCHANGED <<request, step, initVars, queue, queries, socketVars, timerVars, destroyed>>

-----------------------------------------------------------------------------
(***************************************************************************)
(* Reports of the loop and the timer; destruction.                         *)
(***************************************************************************)

\* fp_SocketReady: a report of a socket that is gone does nothing.
Current(s) == state = "Ready" /\ s \in sockets

SocketReady(s) ==
  /\ s \in events /\ ~destroyed
  /\ events' = events \ {s}
  /\ IF Current(s)
     THEN CallCares(queries, TRUE)
     ELSE UNCHANGED <<step, failure, queries, sockets, loop, armed, removing, descriptors, drain,
                      timerGeneration, timer, arming>>
  /\ UNCHANGED <<lookupVars, state, channel, waiters, slotVars, elapsed, destroyed>>

\* The callback of fp_SetTimer.
TimerFires(g) ==
  /\ g \in elapsed /\ ~destroyed
  /\ elapsed' = elapsed \ {g}
  /\ IF state = "Ready" /\ g = timerGeneration
     THEN CallCares(queries, TRUE)
     ELSE UNCHANGED <<step, failure, queries, sockets, loop, armed, removing, descriptors, drain,
                      timerGeneration, timer, arming>>
  /\ UNCHANGED <<lookupVars, state, channel, waiters, slotVars, events, destroyed>>

\* Mutant: a timer is kept once there is a newer one.
KeepsOld(g) == state = "Ready" /\ g # timerGeneration

\* fp_SetTimer after the registration; a timer that is not kept is aborted.
KeepsTimer(g) == state = "Ready" /\ g = timerGeneration

TimerArmed(g) ==
  /\ g \in arming /\ ~destroyed
  /\ arming' = arming \ {g}
  /\ IF KeepsTimer(g)
     THEN timer' = g
     ELSE UNCHANGED timer
  /\ UNCHANGED <<lookupVars, step, initVars, slotVars, queries, socketVars, timerGeneration,
                 elapsed, destroyed>>

\* fp_Destroy until it waits.  Coroutines that are failed here find their lookup
\* gone and end.
Destroy ==
  /\ state # "Stopping"
  /\ state' = "Stopping"
  /\ channel' = FALSE
  /\ answer' = [l \in Lookups |-> IF l \in pending THEN "Cancelled" ELSE answer[l]]
  /\ pending' = {}
  /\ waiters' = {} /\ queue' = <<>> /\ queries' = {}
  /\ step' = [j \in Jobs |-> IF step[j] \in {"Waiting", "InitWait", "Asked"} THEN "Ended"
                             ELSE step[j]]
  /\ timerGeneration' \in NextTimer /\ timer' = 0
  /\ sockets' = {}
  /\ removing' = removing \cup (sockets \cap loop)
  /\ drain' = drain + Counted(sockets \cap loop) - 1
  /\ descriptors' = StillOpen(sockets)
  /\ UNCHANGED <<request, failure, slots, loop, armed, events, arming, elapsed, destroyed>>

\* fp_Destroy after the sequencer and the drain.
DestroyDone ==
  /\ state = "Stopping" /\ ~destroyed
  /\ slots = {} /\ drain = 0
  /\ destroyed' = TRUE
  /\ UNCHANGED <<lookupVars, step, initVars, slotVars, queries, socketVars, timerVars>>

-----------------------------------------------------------------------------
(***************************************************************************)
(* The sequencer, the workers, the loop and the timers.                    *)
(***************************************************************************)

GrantSlot ==
  /\ queue # <<>> /\ Cardinality(slots) < MaxConcurrent
  /\ slots' = slots \cup {Head(queue)}
  /\ queue' = Tail(queue)
  /\ step' = [step EXCEPT ![Head(queue)] = "Granted"]
  /\ UNCHANGED <<lookupVars, initVars, queries, socketVars, timerVars, destroyed>>

WorkerReturns(j) ==
  /\ step[j] = "Working"
  /\ step' = [step EXCEPT ![j] = "Returned"]
  /\ slots' = slots \ {j}
  /\ UNCHANGED <<lookupVars, initVars, queue, queries, socketVars, timerVars, destroyed>>

LoopReports(s) ==
  /\ s \in armed
  /\ armed' = armed \ {s}
  /\ events' = events \cup {s}
  /\ UNCHANGED <<lookupVars, step, initVars, slotVars, queries, sockets, loop, removing,
                 descriptors, drain, timerVars, destroyed>>

\* The loop removed a registration: its continuation closes the descriptor.
LoopRemoves(s) ==
  /\ s \in removing
  /\ removing' = removing \ {s} /\ loop' = loop \ {s} /\ armed' = armed \ {s}
  /\ descriptors' = descriptors \ {s.handle}
  /\ drain' = drain - 1
  /\ UNCHANGED <<lookupVars, step, initVars, slotVars, queries, sockets, events, timerVars,
                 destroyed>>

TimerElapses(g) ==
  /\ g \in arming \cup {timer}
  /\ arming' = arming \ {g}
  /\ timer' = IF timer = g THEN 0 ELSE timer
  /\ elapsed' = elapsed \cup {g}
  /\ UNCHANGED <<lookupVars, step, initVars, slotVars, queries, socketVars, timerGeneration,
                 destroyed>>

Resume(j) ==
  /\ ~destroyed
  /\ \/ ResumeGranted(j)
     \/ j = InitJob /\ ResumeInit
     \/ /\ j \in Lookups
        /\ \/ ResumePrepared(j) \/ ResumeNative(j) \/ ResumeInitialized(j) \/ Ask(j)
           \/ ResumeAnswered(j)

Next ==
  \/ \E l \in Lookups : Start(l) \/ Cancel(l)
  \/ \E j \in Jobs : Resume(j) \/ WorkerReturns(j)
  \/ \E s \in Sockets : SocketReady(s) \/ LoopReports(s) \/ LoopRemoves(s)
  \/ \E g \in 1 .. Generations : TimerArmed(g) \/ TimerElapses(g) \/ TimerFires(g)
  \/ GrantSlot
  \/ Destroy \/ DestroyDone

(***************************************************************************)
(* Fairness.  The coroutines of the actor are resumed; the sequencer, the  *)
(* workers and the loop do what they were asked; timers are registered,    *)
(* elapse and are reported; and c-ares, which counts the tries of a query, *)
(* gives up when it is called often enough.  Sockets may stay silent.      *)
(***************************************************************************)
Resumes == DestroyDone \/ \E j \in Jobs : Resume(j)

Timers ==
  \E g \in 1 .. Generations : TimerArmed(g) \/ TimerElapses(g) \/ TimerFires(g)

Workers ==
  \/ GrantSlot
  \/ \E j \in Jobs : WorkerReturns(j)
  \/ \E s \in Sockets : LoopRemoves(s)

Reports == (\E s \in Sockets : SocketReady(s)) \/ (\E g \in 1 .. Generations : TimerFires(g))

Fairness ==
  /\ WF_vars(Resumes) /\ WF_vars(Timers) /\ WF_vars(Workers)
  /\ SF_vars(Reports /\ queries' = {})

Spec == Init /\ [][Next]_vars
FairSpec == Spec /\ Fairness

-----------------------------------------------------------------------------
(***************************************************************************)
(* Properties.                                                             *)
(***************************************************************************)

TypeOK ==
  /\ state \in {"Uninitialized", "Initializing", "Ready", "Failed", "Stopping"}
  /\ channel \in BOOLEAN /\ failure \in BOOLEAN /\ destroyed \in BOOLEAN
  /\ pending \subseteq Lookups /\ waiters \subseteq Lookups /\ queries \subseteq Lookups
  /\ answer \in [Lookups -> {"None", "Open", "Success", "Error", "Cancelled"}]
  /\ request \in [Lookups -> Requests]
  /\ step \in [Jobs -> {"New", "Waiting", "Granted", "Working", "Returned", "InitWait", "InitDone",
                        "InitFailed", "Asked", "Answered", "Ended"}]
  /\ queue \in Seq(Jobs) /\ slots \subseteq Jobs
  /\ sockets \subseteq Sockets /\ loop \subseteq Sockets /\ armed \subseteq loop
  /\ removing \subseteq loop /\ events \subseteq Sockets
  /\ descriptors \subseteq Handles /\ drain \in Nat
  /\ timerGeneration \in 0 .. Generations /\ timer \in 0 .. Generations
  /\ arming \subseteq 1 .. Generations /\ elapsed \subseteq 1 .. Generations

\* An answer stands: the result of a lookup, its cancellation and the
\* destruction of the actor race, and only the first one reaches the promise.
AnswersOnce ==
  [][\A l \in Lookups :
       answer[l] \in {"Success", "Error", "Cancelled"} => answer'[l] = answer[l]]_vars

\* "The worker retains the slot until the native lookup returns, including when
\* cancellation destroys this coroutine": never more native calls than slots.
NativeCallsBounded == Cardinality({j \in Jobs : step[j] = "Working"}) <= MaxConcurrent

\* Nobody waits for what nobody does: the initialisation that lookups wait for is
\* on its way; while c-ares has queries, a timer of the current generation will
\* call it, and readiness of each of its sockets is requested or reported; and
\* once the driver failed no query is left to sockets it does not watch.
\* (fp_Initialize, f_UpdateTimer, f_RequestReadiness and ares_cancel in f_Process)
WaitsAreServed ==
  /\ waiters # {} => step[InitJob] \in {"Waiting", "Granted", "Working", "Returned"}
  /\ state = "Ready" /\ queries # {} =>
       /\ timerGeneration \in arming \cup {timer} \cup elapsed
       /\ sockets \subseteq armed \cup events
  /\ failure => queries = {}

\* The loop only watches descriptors that are open, each for one socket: no
\* descriptor is closed, and its number reused, under a registration; and
\* destruction leaves no registration, descriptor, worker or channel.
\* (fs_CloseSocket and the drain of fp_Destroy)
WatchedOpen ==
  /\ \A s, t \in loop : s.handle \in descriptors /\ (s.handle = t.handle => s = t)
  /\ destroyed => loop = {} /\ descriptors = {} /\ \A j \in Jobs : step[j] # "Working"
  /\ state = "Stopping" => ~channel /\ queries = {}

\* Every lookup is answered: the finite number of them, all.
LookupsAnswered == pending # {} ~> pending = {}

\* fp_Destroy ends.
DestroyEnds == state = "Stopping" ~> destroyed
=============================================================================

-------------------------- MODULE ResolveActorProofs --------------------------
(***************************************************************************)
(* Theorems about ResolveActor, for every number of lookups, slots,        *)
(* descriptors and generations: native calls never exceed the slots, an    *)
(* answer stands, nobody waits for what nobody does, and the loop watches  *)
(* open descriptors only and none once the actor is destroyed.             *)
(*                                                                         *)
(* The invariant ties each of these to who owns what: a slot to the worker *)
(* that has it, a descriptor to the socket or registration that has it,    *)
(* the count of the drain to the registrations that are being removed, and *)
(* the initialisation to the state that says it runs.                      *)
(***************************************************************************)
EXTENDS ResolveActor, FiniteSetTheorems, TLAPS

States == {"Uninitialized", "Initializing", "Ready", "Failed", "Stopping"}
Steps == {"New", "Waiting", "Granted", "Working", "Returned", "InitWait", "InitDone",
          "InitFailed", "Asked", "Answered", "Ended"}
Outcomes == {"None", "Open", "Success", "Error", "Cancelled"}

\* A job that was granted a slot holds it until its worker returned.
SlotsHeld ==
  /\ IsFiniteSet(slots) /\ Cardinality(slots) <= MaxConcurrent
  /\ \A j \in Jobs : step[j] \in {"Granted", "Working"} => j \in slots

\* A lookup is pending from its start to its answer.
PendingOpen ==
  \A l \in Lookups :
    /\ l \in pending <=> answer[l] = "Open"
    /\ step[l] = "New" => answer[l] = "None"

\* Destruction leaves nobody to be answered, granted or asked for.
StoppedEmpty ==
  /\ state = "Stopping" => /\ pending = {} /\ queue = <<>> /\ queries = {} /\ waiters = {}
                           /\ sockets = {} /\ ~channel
  /\ destroyed => state = "Stopping" /\ slots = {} /\ removing = {}

\* A descriptor is open as long as a socket or a registration has it, no longer,
\* and belongs to one of them.
DescriptorsOwned ==
  /\ \A s \in sockets \cup loop : s.handle \in descriptors
  /\ \A s, t \in sockets \cup loop : s.handle = t.handle => s = t
  /\ \A h \in descriptors : \E s \in sockets \cup loop : s.handle = h

\* A registration without a socket is being removed, and the drain counts it.
RemovalsCounted ==
  /\ IsFiniteSet(sockets) /\ IsFiniteSet(removing)
  /\ removing \cap sockets = {} /\ loop \subseteq sockets \cup removing
  /\ drain = Cardinality(removing) + (IF state = "Stopping" THEN 0 ELSE 1)

\* The channel waits to be initialized.
Unready == state \in {"Uninitialized", "Initializing"}

\* The initialisation runs once, while the state says so.
InitOnce ==
  /\ state = "Uninitialized" => step[InitJob] = "New"
  /\ state = "Initializing" => step[InitJob] \in {"Waiting", "Granted", "Working", "Returned"}
  /\ state \in {"Ready", "Failed"} => step[InitJob] = "Ended"
  /\ state = "Failed" => failure
  /\ \A i \in DOMAIN queue : queue[i] = InitJob => step[InitJob] = "Waiting"
  /\ \A i, k \in DOMAIN queue : queue[i] = InitJob /\ queue[k] = InitJob => i = k
  /\ waiters # {} => state = "Initializing"

\* c-ares is called once it is ready, and lookups wait for it no longer.
CaresReady ==
  /\ queries # {} => state = "Ready"
  /\ Unready => sockets = {} /\ ~failure
  /\ \A l \in Lookups : step[l] = "InitDone" => state \in {"Ready", "Stopping"}

\* Without a failure the loop watches every socket and the timer runs.
CaresWatched ==
  /\ failure => queries = {}
  /\ state = "Ready" /\ ~failure => sockets \subseteq armed \cup events /\ sockets \subseteq loop
  /\ queries # {} => timerGeneration \in arming \cup {timer} \cup elapsed

IInv ==
  /\ TypeOK /\ SlotsHeld /\ PendingOpen /\ StoppedEmpty /\ DescriptorsOwned /\ RemovalsCounted
  /\ InitOnce /\ CaresReady /\ CaresWatched

-----------------------------------------------------------------------------
(***************************************************************************)
(* A step of a lookup, whichever handler it is.                            *)
(***************************************************************************)

\* Where a lookup may go: nowhere a slot or a new start is needed.
LookupMoves ==
  /\ pending' \subseteq Lookups /\ answer' \in [Lookups -> Outcomes]
  /\ request' \in [Lookups -> Requests]
  /\ queue' \in Seq(Jobs) /\ step' \in [Jobs -> Steps] /\ waiters' \subseteq Lookups
  /\ state' \in {state} \cup {s \in {"Initializing"} : state = "Uninitialized"}
  /\ state = "Stopping" => pending' = {} /\ queue' = <<>> /\ waiters' = {}
  /\ PendingOpen' /\ InitOnce'
  /\ \A l \in Lookups : step'[l] = "InitDone" => state' \in {"Ready", "Stopping"}
  /\ \A j \in Jobs : step'[j] \in {"Granted", "Working"} => step[j] \in {"Granted", "Working"}

\* Such a step leaves the rest of the invariant alone.
LEMMA MovesKeep ==
  ASSUME IInv, LookupMoves,
         UNCHANGED <<channel, failure, slots, queries, socketVars, timerVars, destroyed>>
  PROVE  IInv'
<1> USE DEF IInv, LookupMoves, slotVars, socketVars, timerVars
<1>1. TypeOK'
  BY DEF TypeOK, States, Steps, Outcomes
<1>2. SlotsHeld'
  BY DEF SlotsHeld
<1>3. StoppedEmpty'
  BY DEF StoppedEmpty
<1>4. DescriptorsOwned'
  BY DEF DescriptorsOwned
<1>5. RemovalsCounted'
  BY DEF RemovalsCounted
<1>6. CaresReady' /\ CaresWatched'
  BY DEF CaresReady, CaresWatched, Unready
<1> QED  BY <1>1, <1>2, <1>3, <1>4, <1>5, <1>6

\* A lookup waits for a slot or for the initialisation, and starts it if need be.
LEMMA BeginKeeps ==
  ASSUME IInv, state # "Stopping", NEW l \in Lookups, NEW r, Begin(l, r)
  PROVE  /\ queue' \in Seq(Jobs) /\ step' \in [Jobs -> Steps] /\ waiters' \subseteq Lookups
         /\ state' \in {state} \cup {s \in {"Initializing"} : state = "Uninitialized"}
         /\ failure' = failure => InitOnce'
         /\ step'[l] \notin {"New", "Granted", "Working"}
         /\ step'[l] = "InitDone" => state' = "Ready"
         /\ \A j \in Jobs \ {l, InitJob} : step'[j] = step[j]
         /\ step'[InitJob] \in {step[InitJob], "Waiting"}
<1>1. l \in Jobs /\ InitJob \in Jobs /\ l # InitJob
  BY ResolveAssumption DEF Jobs
<1>2. /\ step \in [Jobs -> Steps] /\ queue \in Seq(Jobs) /\ waiters \subseteq Lookups
      /\ state \in States
  BY DEF IInv, TypeOK, Steps, States
<1>3. CASE AwaitSlot(l)
  <2>1. /\ queue' = Append(queue, l) /\ step' = [step EXCEPT ![l] = "Waiting"]
        /\ UNCHANGED <<state, waiters>>
    BY <1>3 DEF AwaitSlot
  <2>2. queue' \in Seq(Jobs) /\ step' \in [Jobs -> Steps]
    BY <1>1, <1>2, <2>1 DEF Steps
  <2>3. failure' = failure => InitOnce'
    BY <1>1, <1>2, <2>1 DEF IInv, InitOnce
  <2> QED  BY <1>1, <1>2, <2>1, <2>2, <2>3
<1>4. CASE Initialize(l) /\ (state = "Ready" \/ failure)
  <2>1. /\ step' = [step EXCEPT ![l] = IF state = "Ready" THEN "InitDone" ELSE "InitFailed"]
        /\ UNCHANGED <<state, waiters, queue>>
    BY <1>4 DEF Initialize
  <2>2. step' \in [Jobs -> Steps]
    BY <1>1, <1>2, <2>1 DEF Steps
  <2> QED  BY <1>1, <1>2, <2>1, <2>2 DEF IInv, InitOnce
<1>5. CASE Initialize(l) /\ ~(state = "Ready" \/ failure) /\ state = "Uninitialized"
  <2>1. /\ waiters' = waiters \cup {l} /\ state' = "Initializing"
        /\ queue' = Append(queue, InitJob)
        /\ step' = [step EXCEPT ![l] = "InitWait", ![InitJob] = "Waiting"]
    BY <1>5 DEF Initialize
  <2>2. queue' \in Seq(Jobs) /\ step' \in [Jobs -> Steps]
    BY <1>1, <1>2, <2>1 DEF Steps
  <2>3. \A i \in DOMAIN queue : queue[i] # InitJob
    BY <1>5 DEF IInv, InitOnce
  <2>4. \A i \in DOMAIN queue' : queue'[i] = InitJob <=> i = Len(queue) + 1
    BY <1>1, <1>2, <2>1, <2>3
  <2>5. step'[InitJob] = "Waiting" /\ step'[l] = "InitWait"
    BY <1>1, <1>2, <2>1
  <2>6. InitOnce'
    BY <2>1, <2>4, <2>5 DEF InitOnce
  <2> QED  BY <1>1, <1>2, <1>5, <2>1, <2>2, <2>5, <2>6
<1>6. CASE Initialize(l) /\ ~(state = "Ready" \/ failure) /\ state # "Uninitialized"
  <2>1. /\ waiters' = waiters \cup {l} /\ UNCHANGED <<state, queue>>
        /\ step' = [step EXCEPT ![l] = "InitWait"]
    BY <1>6 DEF Initialize
  <2>2. state = "Initializing"
    BY <1>2, <1>6 DEF IInv, InitOnce, States
  <2>3. step' \in [Jobs -> Steps]
    BY <1>1, <1>2, <2>1 DEF Steps
  <2> QED  BY <1>1, <1>2, <2>1, <2>2, <2>3 DEF IInv, InitOnce
<1> QED  BY <1>3, <1>4, <1>5, <1>6 DEF Begin

\* The end of a lookup answers it if it is pending.
LEMMA FinishMoves ==
  ASSUME IInv, NEW l \in Lookups, NEW ok \in BOOLEAN, failure' = failure, Finish(l, ok)
  PROVE  LookupMoves
<1>1. l \in Jobs /\ l # InitJob
  BY ResolveAssumption DEF Jobs
<1>2. /\ pending' = pending \ {l} /\ step' = [step EXCEPT ![l] = "Ended"]
      /\ UNCHANGED <<request, state, waiters, queue>>
      /\ answer' \in {IF l \in pending THEN [answer EXCEPT ![l] = o] ELSE answer :
                       o \in {"Success", "Error"}}
  BY DEF Finish, Answers
<1>3. step' \in [Jobs -> Steps] /\ answer' \in [Lookups -> Outcomes]
  BY <1>1, <1>2 DEF IInv, TypeOK, Steps, Outcomes
<1>4. PendingOpen'
  BY <1>1, <1>2 DEF IInv, TypeOK, PendingOpen
<1>5. InitOnce'
  BY <1>1, <1>2 DEF IInv, TypeOK, InitOnce
<1> QED  BY <1>1, <1>2, <1>3, <1>4, <1>5
         DEF LookupMoves, IInv, TypeOK, StoppedEmpty, CaresReady

\* A pending lookup goes on to wait for something else.
LEMMA GoesOn ==
  ASSUME IInv, NEW l \in Lookups, l \in pending, NEW r, Begin(l, r), UNCHANGED <<pending, answer>>,
         request' \in [Lookups -> Requests], failure' = failure
  PROVE  LookupMoves
<1>1. state # "Stopping" /\ l \in Jobs /\ l # InitJob
  BY ResolveAssumption DEF IInv, StoppedEmpty, Jobs
<1>2. PendingOpen'
  BY <1>1, BeginKeeps DEF IInv, PendingOpen, Jobs
<1>3. \A j \in Jobs : step'[j] \in {"Granted", "Working"} => step[j] \in {"Granted", "Working"}
  BY <1>1, BeginKeeps
<1>4. \A m \in Lookups : step'[m] = "InitDone" => state' \in {"Ready", "Stopping"}
  BY <1>1, BeginKeeps, ResolveAssumption DEF IInv, CaresReady, Jobs
<1> QED  BY <1>1, <1>2, <1>3, <1>4, BeginKeeps DEF LookupMoves, IInv, TypeOK, Outcomes

\* The end of the lookup of a host ends the lookup, or its second family is next.
LEMMA HostEndedMoves ==
  ASSUME IInv, NEW l \in Lookups, NEW ok \in BOOLEAN, failure' = failure, HostEnded(l, ok)
  PROVE  LookupMoves
<1>1. CASE Finish(l, ok)
  BY <1>1, FinishMoves
<1>2. CASE /\ l \in pending /\ request' = [request EXCEPT ![l].second = FALSE]
           /\ Begin(l, request[l]) /\ UNCHANGED <<pending, answer>>
  <2>1. request' \in [Lookups -> Requests]
    BY <1>2 DEF IInv, TypeOK, Requests
  <2> QED  BY <1>2, <2>1, GoesOn
<1> QED  BY <1>1, <1>2 DEF HostEnded

-----------------------------------------------------------------------------
(***************************************************************************)
(* A call of c-ares.                                                       *)
(***************************************************************************)

\* The registrations of closed sockets are removed, which the drain counts.
LEMMA ClosesCounted ==
  ASSUME RemovalsCounted, NEW closed \in SUBSET sockets, drain \in Nat
  PROVE  /\ IsFiniteSet(removing \cup (closed \cap loop))
         /\ Cardinality(removing \cup (closed \cap loop))
              = Cardinality(removing) + Cardinality(closed \cap loop)
         /\ Cardinality(closed \cap loop) \in Nat /\ Cardinality(removing) \in Nat
<1>1. /\ IsFiniteSet(removing) /\ IsFiniteSet(closed \cap loop)
      /\ removing \cap (closed \cap loop) = {}
  BY FS_Subset DEF RemovalsCounted
<1>2. Cardinality(removing \cap (closed \cap loop)) = 0
  BY <1>1, FS_EmptySet
<1>3. Cardinality(removing) \in Nat /\ Cardinality(closed \cap loop) \in Nat
  BY <1>1, FS_CardinalityType
<1>4. /\ IsFiniteSet(removing \cup (closed \cap loop))
      /\ Cardinality(removing \cup (closed \cap loop))
           = Cardinality(removing) + Cardinality(closed \cap loop)
             - Cardinality(removing \cap (closed \cap loop))
  BY <1>1, FS_Union, Zenon
<1> QED  BY <1>1, <1>2, <1>3, <1>4

\* Generations in use are not given out again.
LEMMA NewSocketsKeep ==
  ASSUME NEW s \in NewSockets
  PROVE  s \in Sockets /\ s.handle \in Handles /\ s.handle \notin descriptors
BY DEF NewSockets, Sockets, Fresh

\* c-ares answers, closes and opens; the handler took a report or asked.
LEMMA CallKeeps ==
  ASSUME IInv, state = "Ready", NEW asked \in SUBSET Lookups, NEW processed \in BOOLEAN,
         CallCares(asked, processed),
         asked # queries => ~failure, queries \subseteq asked,
         UNCHANGED <<lookupVars, state, channel, waiters, slotVars, destroyed>>,
         events' \subseteq events, processed \/ events' = events,
         elapsed' \subseteq elapsed
  PROVE  IInv'
<1>1. PICK answered \in SUBSET asked, closed \in SUBSET sockets,
           opened \in {{}} \cup {{s} : s \in NewSockets},
           registered \in BOOLEAN, status \in {TRUE, ~processed} :
        LET left == Left(asked \ answered, failure')
            known == (sockets \ closed) \cup opened
        IN /\ opened = {} => registered
           /\ failure' = (failure \/ ~registered \/ ~status)
           /\ queries' = left
           /\ step' = [j \in Jobs |-> IF j \in left THEN "Asked"
                                      ELSE IF j \in asked THEN "Answered" ELSE step[j]]
           /\ sockets' = known
           /\ CloseSockets(closed)
           /\ descriptors' = StillOpen(closed) \cup HandlesOf(opened)
           /\ loop' = IF registered THEN loop \cup opened ELSE loop
           /\ armed' =
                armed \cup (loop' \cap (opened \cup (IF processed THEN Rearmed(known) ELSE {})))
           /\ UpdateTimer(left)
  BY DEF CallCares
<1>0. /\ IsFiniteSet(removing \cup (closed \cap loop))
      /\ Cardinality(removing \cup (closed \cap loop))
           = Cardinality(removing) + Cardinality(closed \cap loop)
      /\ Cardinality(closed \cap loop) \in Nat /\ Cardinality(removing) \in Nat
  BY ClosesCounted DEF IInv, TypeOK
<1>2. /\ queries' \subseteq asked /\ (failure' => queries' = {})
      /\ \A j \in Jobs : step'[j] = IF j \in queries' THEN "Asked"
                                    ELSE IF j \in asked THEN "Answered" ELSE step[j]
      /\ step' \in [Jobs -> Steps]
  BY <1>1 DEF Left, IInv, TypeOK, Steps, Jobs
<1>3. /\ opened \subseteq Sockets /\ IsFiniteSet(opened)
      /\ \A s \in opened : s.handle \in Handles /\ s.handle \notin descriptors
      /\ \A s, t \in opened : s = t
  <2>1. CASE opened = {}
    BY <2>1, FS_EmptySet
  <2>2. CASE \E s \in NewSockets : opened = {s}
    BY <2>2, NewSocketsKeep, FS_Singleton
  <2> QED  BY <1>1, <2>1, <2>2
<1>4. /\ sockets' = (sockets \ closed) \cup opened
      /\ loop' = (IF registered THEN loop \cup opened ELSE loop)
      /\ removing' = removing \cup (closed \cap loop)
      /\ drain' = drain + Cardinality(closed \cap loop)
      /\ armed' = armed \cup (loop' \cap (opened \cup (IF processed THEN sockets' ELSE {})))
      /\ descriptors' =
           (descriptors \ {s.handle : s \in closed \ loop}) \cup {s.handle : s \in opened}
  BY <1>1 DEF CloseSockets, Counted, StillOpen, HandlesOf, ClosesAtOnce, Rearmed
<1>5. /\ timerGeneration' \in 1 .. Generations /\ timer' = 0
      /\ arming' \subseteq arming \cup {timerGeneration'}
      /\ queries' # {} => timerGeneration' \in arming'
  BY <1>1 DEF UpdateTimer, NextTimer, Fresh, TimerNeeded
<1>6. failure' = (failure \/ ~registered \/ ~status) /\ (opened = {} => registered)
  BY <1>1
<1> USE DEF lookupVars, slotVars
<1>7. TypeOK'
  <2>1. drain' \in Nat
    BY <1>0, <1>4 DEF IInv, TypeOK
  <2>2. /\ sockets' \subseteq Sockets /\ loop' \subseteq Sockets /\ armed' \subseteq loop'
        /\ removing' \subseteq loop' /\ events' \subseteq Sockets /\ descriptors' \subseteq Handles
    BY <1>3, <1>4 DEF IInv, TypeOK
  <2>3. /\ timerGeneration' \in 0 .. Generations /\ timer' \in 0 .. Generations
        /\ arming' \subseteq 1 .. Generations /\ elapsed' \subseteq 1 .. Generations
    BY <1>5, ResolveAssumption DEF IInv, TypeOK
  <2>4. failure' \in BOOLEAN /\ queries' \subseteq Lookups
    BY <1>2, <1>6 DEF IInv, TypeOK
  <2> QED  BY <1>2, <2>1, <2>2, <2>3, <2>4 DEF IInv, TypeOK, Steps
<1>8. SlotsHeld' /\ PendingOpen' /\ StoppedEmpty'
  BY <1>2 DEF IInv, SlotsHeld, PendingOpen, StoppedEmpty, Jobs
<1>9. DescriptorsOwned'
  <2>1. \A s \in sockets' \cup loop' : s.handle \in descriptors'
    BY <1>3, <1>4 DEF IInv, TypeOK, DescriptorsOwned, RemovalsCounted
  <2>2. \A s, t \in sockets' \cup loop' : s.handle = t.handle => s = t
    BY <1>3, <1>4 DEF IInv, DescriptorsOwned
  <2>3. \A h \in descriptors' : \E s \in sockets' \cup loop' : s.handle = h
    BY <1>3, <1>4 DEF IInv, DescriptorsOwned
  <2> QED  BY <2>1, <2>2, <2>3 DEF DescriptorsOwned
<1>10. RemovalsCounted'
  <2>1. IsFiniteSet(sockets')
    BY <1>3, <1>4, FS_Subset, FS_Union DEF IInv, RemovalsCounted
  <2>2. IsFiniteSet(removing') /\ drain' = Cardinality(removing') + 1
    BY <1>0, <1>4, <1>5 DEF IInv, TypeOK, RemovalsCounted
  <2>3. removing' \cap sockets' = {} /\ loop' \subseteq sockets' \cup removing'
    <3>1. \A s \in opened : s \notin loop
      BY <1>3 DEF IInv, DescriptorsOwned
    <3> QED  BY <1>4, <3>1 DEF IInv, TypeOK, RemovalsCounted
  <2> QED  BY <2>1, <2>2, <2>3 DEF RemovalsCounted
<1>11. InitOnce' /\ CaresReady'
  BY <1>2, <1>6, ResolveAssumption DEF IInv, InitOnce, CaresReady, Unready, Jobs
<1>12. CaresWatched'
  <2>1. CASE failure'
    BY <1>2, <2>1 DEF CaresWatched
  <2>2. CASE ~failure'
    <3>1. /\ ~failure /\ registered
          /\ sockets \subseteq armed \cup events /\ sockets \subseteq loop
      BY <1>6, <2>2 DEF IInv, CaresWatched
    <3>2. sockets' \subseteq loop' /\ sockets' \subseteq armed' \cup events'
      BY <1>4, <3>1
    <3> QED  BY <1>5, <2>2, <3>2 DEF CaresWatched
  <2> QED  BY <2>1, <2>2
<1> QED  BY <1>7, <1>8, <1>9, <1>10, <1>11, <1>12 DEF IInv

-----------------------------------------------------------------------------
(***************************************************************************)
(* The actions.                                                            *)
(***************************************************************************)

LEMMA StartMoves ==
  ASSUME IInv, NEW l \in Lookups, Start(l)
  PROVE  LookupMoves
<1>1. /\ state # "Stopping" /\ step[l] = "New" /\ Begin(l, request[l])
      /\ pending' = pending \cup {l} /\ answer' = [answer EXCEPT ![l] = "Open"]
      /\ UNCHANGED <<request, failure>>
  BY DEF Start
<1>2. l \in Jobs /\ l # InitJob
  BY ResolveAssumption DEF Jobs
<1>3. /\ answer' \in [Lookups -> Outcomes] /\ pending' \subseteq Lookups
      /\ request' \in [Lookups -> Requests]
  BY <1>1 DEF IInv, TypeOK, Outcomes
<1>4. PendingOpen'
  BY <1>1, <1>2, BeginKeeps, ResolveAssumption DEF IInv, TypeOK, PendingOpen, Jobs
<1>5. \A j \in Jobs : step'[j] \in {"Granted", "Working"} => step[j] \in {"Granted", "Working"}
  BY <1>1, <1>2, BeginKeeps
<1>6. \A m \in Lookups : step'[m] = "InitDone" => state' \in {"Ready", "Stopping"}
  BY <1>1, <1>2, BeginKeeps, ResolveAssumption DEF IInv, CaresReady, Jobs
<1> QED  BY <1>1, <1>3, <1>4, <1>5, <1>6, BeginKeeps DEF LookupMoves

\* Resumptions of a lookup that call neither c-ares nor a worker.
LEMMA ResumptionsKeep ==
  ASSUME IInv, NEW l \in Lookups,
         \/ Start(l) \/ ResumePrepared(l) \/ ResumeNative(l) \/ ResumeInitialized(l)
         \/ ResumeAnswered(l)
  PROVE  IInv'
<1>1. UNCHANGED <<channel, failure, slots, queries, socketVars, timerVars, destroyed>>
  BY DEF Start, ResumePrepared, ResumeNative, ResumeInitialized, ResumeAnswered
<1>2. LookupMoves
  <2>1. CASE Start(l)
    BY <2>1, StartMoves
  <2>2. CASE ResumePrepared(l)
    <3>1. CASE \E ok \in BOOLEAN : Finish(l, ok)
      BY <1>1, <3>1, FinishMoves
    <3>2. CASE /\ l \in pending
               /\ \E native \in BOOLEAN :
                    /\ request' = [request EXCEPT ![l].stage = "Host", ![l].native = native]
                    /\ Begin(l, request'[l])
               /\ UNCHANGED <<pending, answer>>
      <4>1. PICK native \in BOOLEAN :
              request' = [request EXCEPT ![l].stage = "Host", ![l].native = native]
        BY <3>2
      <4> DEFINE staged == [request EXCEPT ![l].stage = "Host"]
      <4>2. staged \in [Lookups -> Requests]
        BY DEF IInv, TypeOK, Requests
      <4>3. [staged EXCEPT ![l].native = native] \in [Lookups -> Requests]
        <5> HIDE DEF staged
        <5> QED  BY <4>2 DEF Requests
      <4>4. request' \in [Lookups -> Requests]
        BY <4>1, <4>3
      <4> QED  BY <1>1, <3>2, <4>4, GoesOn
    <3> QED  BY <2>2, <3>1, <3>2 DEF ResumePrepared
  <2>3. CASE ResumeNative(l) \/ ResumeInitialized(l) \/ ResumeAnswered(l)
    <3>1. PICK ok \in BOOLEAN : HostEnded(l, ok)
      BY <2>3 DEF ResumeNative, ResumeInitialized, ResumeAnswered
    <3> QED  BY <1>1, <3>1, HostEndedMoves
  <2> QED  BY <2>1, <2>2, <2>3
<1> QED  BY <1>1, <1>2, MovesKeep

LEMMA AskKeeps ==
  ASSUME IInv, NEW l \in Lookups, Ask(l)
  PROVE  IInv'
<1>1. /\ step[l] = "InitDone" /\ l \in pending /\ ~failure
      /\ CallCares(queries \cup {l}, FALSE)
      /\ UNCHANGED <<lookupVars, state, channel, waiters, slotVars, destroyed>>
      /\ events' = events /\ elapsed' = elapsed
  BY DEF Ask, MayAsk
<1>2. state = "Ready" /\ queries \cup {l} \in SUBSET Lookups
  BY <1>1 DEF IInv, TypeOK, StoppedEmpty, CaresReady
<1> QED  BY <1>1, <1>2, CallKeeps

\* A report of a socket or of a timer that is still the current one calls c-ares.
LEMMA ReportKeeps ==
  ASSUME IInv, NEW x,
         \/ SocketReady(x)
         \/ TimerFires(x)
  PROVE  IInv'
<1>1. /\ UNCHANGED <<lookupVars, state, channel, waiters, slotVars, destroyed>>
      /\ events' \subseteq events /\ elapsed' \subseteq elapsed
  BY DEF SocketReady, TimerFires
<1>2. CASE state = "Ready" /\ CallCares(queries, TRUE)
  <2>1. queries \in SUBSET Lookups
    BY DEF IInv, TypeOK
  <2> QED  BY <1>1, <1>2, <2>1, CallKeeps
<1>3. CASE /\ UNCHANGED <<step, failure, queries, sockets, loop, armed, removing, descriptors,
                          drain, timerGeneration, timer, arming>>
           /\ \/ /\ events' = events /\ ~(state = "Ready" /\ x = timerGeneration)
                 /\ elapsed' = elapsed \ {x}
              \/ elapsed' = elapsed /\ ~Current(x) /\ events' = events \ {x}
  <2> USE DEF lookupVars, slotVars
  <2>1. TypeOK' /\ SlotsHeld' /\ PendingOpen' /\ StoppedEmpty' /\ DescriptorsOwned'
    BY <1>1, <1>3 DEF IInv, TypeOK, SlotsHeld, PendingOpen, StoppedEmpty, DescriptorsOwned
  <2>2. RemovalsCounted' /\ InitOnce' /\ CaresReady'
    BY <1>1, <1>3 DEF IInv, RemovalsCounted, InitOnce, CaresReady, Unready
  <2>3. CaresWatched'
    BY <1>1, <1>3 DEF IInv, CaresReady, CaresWatched, Current
  <2> QED  BY <2>1, <2>2, <2>3 DEF IInv
<1> QED  BY <1>2, <1>3 DEF SocketReady, TimerFires, Current

LEMMA ResumeGrantedKeeps ==
  ASSUME IInv, NEW j \in Jobs, ResumeGranted(j)
  PROVE  IInv'
<1>1. /\ step[j] = "Granted" /\ j \in slots
      /\ UNCHANGED <<lookupVars, initVars, queue, queries, socketVars, timerVars, destroyed>>
      /\ \/ /\ step' = [step EXCEPT ![j] = "Ended"] /\ slots' = slots \ {j}
            /\ j = InitJob => state = "Stopping"
         \/ step' = [step EXCEPT ![j] = "Working"] /\ slots' = slots
  BY DEF ResumeGranted, Abandoned, IInv, SlotsHeld
<1> USE <1>1 DEF IInv, lookupVars, initVars, socketVars, timerVars
<1>2. TypeOK' /\ PendingOpen' /\ StoppedEmpty' /\ InitOnce' /\ CaresReady'
  BY DEF TypeOK, PendingOpen, StoppedEmpty, InitOnce, CaresReady, Unready, Jobs
<1>3. SlotsHeld'
  <2>1. IsFiniteSet(slots') /\ Cardinality(slots') <= MaxConcurrent
    <3>1. Cardinality(slots) \in Nat /\ MaxConcurrent \in Nat
      BY FS_CardinalityType, ResolveAssumption DEF SlotsHeld
    <3>2. /\ IsFiniteSet(slots \ {j})
          /\ Cardinality(slots \ {j}) = IF j \in slots THEN Cardinality(slots) - 1
                                         ELSE Cardinality(slots)
      BY FS_RemoveElement, Zenon DEF SlotsHeld
    <3> QED  BY <3>1, <3>2 DEF SlotsHeld
  <2> QED  BY <2>1 DEF SlotsHeld, TypeOK
<1>4. DescriptorsOwned' /\ RemovalsCounted' /\ CaresWatched'
  BY DEF DescriptorsOwned, RemovalsCounted, CaresWatched
<1> QED  BY <1>2, <1>3, <1>4

LEMMA ResumeInitKeeps ==
  ASSUME IInv, ResumeInit
  PROVE  IInv'
<1>1. step[InitJob] = "Returned" /\ InitJob \in Jobs /\ \A l \in Lookups : l # InitJob /\ l \in Jobs
  BY ResolveAssumption DEF ResumeInit, Jobs
<1>2. state \in {"Initializing", "Stopping"}
  BY <1>1 DEF IInv, TypeOK, InitOnce
<1>3. UNCHANGED <<lookupVars, slotVars, queries, socketVars, timerVars, destroyed>>
  BY DEF ResumeInit
<1>4. step' \in [Jobs -> Steps]
  BY DEF ResumeInit, IInv, TypeOK, Steps
<1>5. /\ step'[InitJob] = "Ended"
      /\ \A j \in Jobs : step'[j] # step[j] => step'[j] \in {"Ended", "InitDone", "InitFailed"}
      /\ \A l \in Lookups : step'[l] = "InitDone" => step[l] = "InitDone" \/ state' = "Ready"
  BY <1>1 DEF ResumeInit, IInv, TypeOK
<1>6. \/ state' = state /\ state = "Stopping" /\ UNCHANGED <<channel, failure, waiters>>
      \/ /\ state' \in {"Ready", "Failed"} /\ channel' \in BOOLEAN /\ waiters' = {}
         /\ failure' = (state' = "Failed") /\ state = "Initializing"
  BY <1>2 DEF ResumeInit, EndsInit, initVars
<1> USE DEF IInv, lookupVars, slotVars, socketVars, timerVars
<1>7. TypeOK'
  BY <1>3, <1>4, <1>6 DEF TypeOK, Steps
<1>8. SlotsHeld' /\ PendingOpen' /\ StoppedEmpty'
  BY <1>1, <1>3, <1>5, <1>6 DEF SlotsHeld, PendingOpen, StoppedEmpty
<1>9. DescriptorsOwned' /\ RemovalsCounted'
  BY <1>3, <1>6 DEF DescriptorsOwned, RemovalsCounted
<1>10. InitOnce'
  BY <1>1, <1>3, <1>5, <1>6 DEF InitOnce
<1>11. CaresReady' /\ CaresWatched'
  BY <1>3, <1>5, <1>6 DEF CaresReady, CaresWatched, Unready
<1> QED  BY <1>7, <1>8, <1>9, <1>10, <1>11

LEMMA GrantKeeps ==
  ASSUME IInv, GrantSlot
  PROVE  IInv'
<1> DEFINE h == Head(queue)
<1>1. /\ queue # <<>> /\ h \in Jobs /\ Cardinality(slots) < MaxConcurrent
      /\ slots' = slots \cup {h} /\ queue' = Tail(queue) /\ step' = [step EXCEPT ![h] = "Granted"]
      /\ UNCHANGED <<lookupVars, initVars, queries, socketVars, timerVars, destroyed>>
  BY DEF GrantSlot, IInv, TypeOK
<1>2. Tail(queue) \in Seq(Jobs) /\ \A i \in DOMAIN Tail(queue) : Tail(queue)[i] = queue[i + 1]
  BY <1>1 DEF IInv, TypeOK
<1> HIDE DEF h
<1> USE DEF IInv, lookupVars, initVars, socketVars, timerVars
<1>3. TypeOK' /\ PendingOpen' /\ StoppedEmpty' /\ CaresReady'
  BY <1>1, <1>2 DEF TypeOK, PendingOpen, StoppedEmpty, CaresReady, Unready, Jobs
<1>4. SlotsHeld'
  <2>1. IsFiniteSet(slots') /\ Cardinality(slots') <= MaxConcurrent
    <3>1. Cardinality(slots) \in Nat /\ MaxConcurrent \in Nat
      BY FS_CardinalityType, ResolveAssumption DEF SlotsHeld
    <3>2. /\ IsFiniteSet(slots \cup {h})
          /\ Cardinality(slots \cup {h}) = IF h \in slots THEN Cardinality(slots)
                                            ELSE Cardinality(slots) + 1
      BY FS_AddElement, Zenon DEF SlotsHeld
    <3> QED  BY <1>1, <3>1, <3>2 DEF SlotsHeld
  <2> QED  BY <1>1, <2>1 DEF SlotsHeld, TypeOK
<1>5. InitOnce'
  <2>1. /\ h = queue[1] /\ 1 \in DOMAIN queue
        /\ \A i \in DOMAIN Tail(queue) : i + 1 \in DOMAIN queue /\ i \in Nat \ {0}
    BY <1>1 DEF TypeOK, h
  <2>2. h = InitJob => step[InitJob] = "Waiting" /\ \A i \in DOMAIN queue' : queue'[i] # InitJob
    <3>1. h = InitJob => step[InitJob] = "Waiting"
      BY <2>1 DEF InitOnce
    <3>2. ASSUME h = InitJob, NEW i \in DOMAIN Tail(queue), queue[i + 1] = InitJob
          PROVE  FALSE
      <4>1. i + 1 = 1
        BY <2>1, <3>2 DEF InitOnce
      <4> QED  BY <2>1, <3>2, <4>1
    <3> QED  BY <1>1, <1>2, <3>1, <3>2
  <2>3. step'[InitJob] = (IF h = InitJob THEN "Granted" ELSE step[InitJob])
    BY <1>1, ResolveAssumption DEF TypeOK, Jobs
  <2>4. \A i \in DOMAIN queue' : queue'[i] = InitJob => step'[InitJob] = "Waiting"
    BY <1>1, <1>2, <2>1, <2>2, <2>3 DEF InitOnce
  <2>5. \A i, k \in DOMAIN queue' : queue'[i] = InitJob /\ queue'[k] = InitJob => i = k
    BY <1>1, <1>2, <2>1 DEF InitOnce
  <2> QED  BY <1>1, <2>2, <2>3, <2>4, <2>5 DEF InitOnce
<1>6. DescriptorsOwned' /\ RemovalsCounted' /\ CaresWatched'
  BY <1>1 DEF DescriptorsOwned, RemovalsCounted, CaresWatched
<1> QED  BY <1>3, <1>4, <1>5, <1>6

LEMMA WorkerKeeps ==
  ASSUME IInv, NEW j \in Jobs, WorkerReturns(j)
  PROVE  IInv'
<1>1. /\ step[j] = "Working" /\ j \in slots
      /\ step' = [step EXCEPT ![j] = "Returned"] /\ slots' = slots \ {j}
      /\ UNCHANGED <<lookupVars, initVars, queue, queries, socketVars, timerVars, destroyed>>
  BY DEF WorkerReturns, IInv, SlotsHeld
<1> USE <1>1 DEF IInv, lookupVars, initVars, socketVars, timerVars
<1>2. TypeOK' /\ PendingOpen' /\ StoppedEmpty' /\ InitOnce' /\ CaresReady'
  BY DEF TypeOK, PendingOpen, StoppedEmpty, InitOnce, CaresReady, Unready, Jobs
<1>3. SlotsHeld'
  <2>1. IsFiniteSet(slots') /\ Cardinality(slots') <= MaxConcurrent
    <3>1. Cardinality(slots) \in Nat /\ MaxConcurrent \in Nat
      BY FS_CardinalityType, ResolveAssumption DEF SlotsHeld
    <3>2. /\ IsFiniteSet(slots \ {j})
          /\ Cardinality(slots \ {j}) = IF j \in slots THEN Cardinality(slots) - 1
                                         ELSE Cardinality(slots)
      BY FS_RemoveElement, Zenon DEF SlotsHeld
    <3> QED  BY <3>1, <3>2 DEF SlotsHeld
  <2> QED  BY <2>1 DEF SlotsHeld, TypeOK
<1>4. DescriptorsOwned' /\ RemovalsCounted' /\ CaresWatched'
  BY DEF DescriptorsOwned, RemovalsCounted, CaresWatched
<1> QED  BY <1>2, <1>3, <1>4

LEMMA DestroyKeeps ==
  ASSUME IInv, Destroy
  PROVE  IInv'
<1>1. /\ state # "Stopping" /\ state' = "Stopping" /\ channel' = FALSE
      /\ answer' = [l \in Lookups |-> IF l \in pending THEN "Cancelled" ELSE answer[l]]
      /\ pending' = {} /\ waiters' = {} /\ queue' = <<>> /\ queries' = {} /\ sockets' = {}
      /\ step' = [i \in Jobs |-> IF step[i] \in {"Waiting", "InitWait", "Asked"} THEN "Ended"
                                 ELSE step[i]]
      /\ timerGeneration' \in 0 .. Generations /\ timer' = 0
      /\ removing' = removing \cup (sockets \cap loop)
      /\ drain' = drain + Cardinality(sockets \cap loop) - 1
      /\ descriptors' = descriptors \ {s.handle : s \in sockets \ loop}
      /\ UNCHANGED <<request, failure, slots, loop, armed, events, arming, elapsed, destroyed>>
  BY DEF Destroy, NextTimer, Fresh, StillOpen, HandlesOf, ClosesAtOnce, Counted
<1> USE DEF IInv
<1>2. /\ IsFiniteSet(removing') /\ Cardinality(removing') \in Nat
      /\ drain' = Cardinality(removing')
  <2>1. sockets \in SUBSET sockets /\ drain \in Nat
    BY DEF TypeOK
  <2>2. /\ IsFiniteSet(removing') /\ Cardinality(sockets \cap loop) \in Nat
        /\ Cardinality(removing) \in Nat
        /\ Cardinality(removing') = Cardinality(removing) + Cardinality(sockets \cap loop)
    BY <1>1, <2>1, ClosesCounted
  <2> QED  BY <1>1, <2>2 DEF RemovalsCounted
<1>3. TypeOK'
  <2>1. queue' \in Seq(Jobs) /\ drain' \in Nat
    BY <1>1, <1>2
  <2>2. step' \in [Jobs -> Steps] /\ answer' \in [Lookups -> Outcomes]
    BY <1>1 DEF TypeOK, Steps, Outcomes
  <2>3. /\ sockets' \subseteq Sockets /\ loop' \subseteq Sockets /\ armed' \subseteq loop'
        /\ removing' \subseteq loop' /\ events' \subseteq Sockets /\ descriptors' \subseteq Handles
    BY <1>1 DEF TypeOK
  <2>4. /\ timerGeneration' \in 0 .. Generations /\ timer' \in 0 .. Generations
        /\ arming' \subseteq 1 .. Generations /\ elapsed' \subseteq 1 .. Generations
    BY <1>1, ResolveAssumption DEF TypeOK
  <2> QED  BY <1>1, <2>1, <2>2, <2>3, <2>4 DEF TypeOK, Steps, Outcomes
<1>4. SlotsHeld' /\ PendingOpen' /\ StoppedEmpty'
  BY <1>1 DEF TypeOK, SlotsHeld, PendingOpen, StoppedEmpty, Jobs
<1>5. DescriptorsOwned'
  BY <1>1 DEF DescriptorsOwned
<1>6. RemovalsCounted'
  <2>1. IsFiniteSet(sockets')
    BY <1>1, FS_EmptySet
  <2> QED  BY <1>1, <1>2, <2>1 DEF RemovalsCounted, TypeOK
<1>7. InitOnce' /\ CaresReady' /\ CaresWatched'
  BY <1>1 DEF InitOnce, CaresReady, CaresWatched, Unready
<1> QED  BY <1>3, <1>4, <1>5, <1>6, <1>7

LEMMA LoopRemovesKeeps ==
  ASSUME IInv, NEW s \in Sockets, LoopRemoves(s)
  PROVE  IInv'
<1>1. /\ s \in removing /\ removing' = removing \ {s} /\ loop' = loop \ {s}
      /\ armed' = armed \ {s} /\ descriptors' = descriptors \ {s.handle} /\ drain' = drain - 1
      /\ UNCHANGED <<lookupVars, step, initVars, slotVars, queries, sockets, events, timerVars,
                     destroyed>>
  BY DEF LoopRemoves
<1> USE DEF IInv, lookupVars, initVars, slotVars, timerVars
<1>2. /\ s \in loop /\ s \notin sockets /\ IsFiniteSet(removing \ {s})
      /\ Cardinality(removing \ {s}) = Cardinality(removing) - 1
      /\ Cardinality(removing \ {s}) \in Nat /\ Cardinality(removing) \in Nat
  BY <1>1, FS_RemoveElement, FS_CardinalityType DEF TypeOK, RemovalsCounted
<1>3. TypeOK'
  <2>1. drain' \in Nat
    BY <1>1, <1>2 DEF TypeOK, RemovalsCounted
  <2>2. /\ loop' \subseteq Sockets /\ armed' \subseteq loop' /\ removing' \subseteq loop'
        /\ descriptors' \subseteq Handles
    BY <1>1 DEF TypeOK
  <2> QED  BY <1>1, <2>1, <2>2 DEF TypeOK
<1>4. SlotsHeld' /\ PendingOpen' /\ StoppedEmpty' /\ InitOnce' /\ CaresReady'
  BY <1>1 DEF SlotsHeld, PendingOpen, StoppedEmpty, InitOnce, CaresReady, Unready
<1>5. DescriptorsOwned' /\ CaresWatched'
  BY <1>1, <1>2 DEF DescriptorsOwned, CaresWatched
<1>6. RemovalsCounted'
  BY <1>1, <1>2 DEF RemovalsCounted
<1> QED  BY <1>3, <1>4, <1>5, <1>6

\* What is left: cancellation, timers, reports of the loop and the end.
LEMMA RestKeeps ==
  ASSUME IInv,
         \/ \E l \in Lookups : Cancel(l)
         \/ \E s \in Sockets : LoopReports(s)
         \/ \E g \in 1 .. Generations : TimerArmed(g) \/ TimerElapses(g)
         \/ DestroyDone
         \/ UNCHANGED vars
  PROVE  IInv'
<1> USE DEF IInv, lookupVars, initVars, slotVars, socketVars, timerVars
<1>1. ASSUME NEW l \in Lookups, Cancel(l)
      PROVE  IInv'
  BY <1>1 DEF Cancel, SlotsOfCancelled, TypeOK, SlotsHeld, PendingOpen, StoppedEmpty,
              DescriptorsOwned, RemovalsCounted, InitOnce, CaresReady, CaresWatched, Unready
<1>2. ASSUME NEW s \in Sockets, LoopReports(s)
      PROVE  IInv'
  BY <1>2 DEF LoopReports, TypeOK, SlotsHeld, PendingOpen, StoppedEmpty,
              DescriptorsOwned, RemovalsCounted, InitOnce, CaresReady, CaresWatched, Unready
<1>3. ASSUME NEW g \in 1 .. Generations, TimerArmed(g) \/ TimerElapses(g)
      PROVE  IInv'
  <2>1. /\ UNCHANGED <<lookupVars, step, initVars, slotVars, queries, socketVars, timerGeneration,
                      destroyed>>
        /\ arming' = arming \ {g} /\ timer' \in 0 .. Generations
        /\ elapsed' \subseteq 1 .. Generations
    <3>1. Generations \in Nat /\ timer \in 0 .. Generations /\ elapsed \subseteq 1 .. Generations
      BY ResolveAssumption DEF TypeOK
    <3>2. timer' \in {timer, g, 0} /\ elapsed' \subseteq elapsed \cup {g} /\ arming' = arming \ {g}
      BY <1>3 DEF TimerArmed, TimerElapses
    <3>3. timer' \in 0 .. Generations /\ elapsed' \subseteq 1 .. Generations
      BY <3>1, <3>2
    <3> QED  BY <1>3, <3>2, <3>3 DEF TimerArmed, TimerElapses
  <2>2. TypeOK'
    BY <2>1 DEF TypeOK
  <2>3. CaresWatched'
    <3>1. queries # {} => timerGeneration \in arming' \cup {timer'} \cup elapsed'
      BY <1>3 DEF TimerArmed, TimerElapses, KeepsTimer, CaresReady, CaresWatched
    <3> QED  BY <2>1, <3>1 DEF CaresWatched
  <2> QED
    BY <2>1, <2>2, <2>3 DEF SlotsHeld, PendingOpen, StoppedEmpty, DescriptorsOwned,
                            RemovalsCounted, InitOnce, CaresReady, Unready
<1>4. CASE DestroyDone
  <2>1. IsFiniteSet(removing) /\ Cardinality(removing) = 0
    <3>1. IsFiniteSet(removing) /\ Cardinality(removing) \in Nat
      BY FS_CardinalityType DEF RemovalsCounted
    <3> QED  BY <1>4, <3>1 DEF DestroyDone, RemovalsCounted
  <2>2. removing = {}
    BY <2>1, FS_EmptySet, Zenon
  <2> QED
    BY <1>4, <2>2 DEF DestroyDone, TypeOK, SlotsHeld, PendingOpen, StoppedEmpty,
              DescriptorsOwned, RemovalsCounted, InitOnce, CaresReady, CaresWatched, Unready
<1>5. CASE UNCHANGED vars
  BY <1>5 DEF vars, TypeOK, SlotsHeld, PendingOpen, StoppedEmpty,
              DescriptorsOwned, RemovalsCounted, InitOnce, CaresReady, CaresWatched, Unready
<1> QED  BY <1>1, <1>2, <1>3, <1>4, <1>5

LEMMA InitIInv == Init => IInv
<1> SUFFICES ASSUME Init PROVE IInv
  OBVIOUS
<1>1. InitJob \in Jobs /\ IsFiniteSet({}) /\ Cardinality({}) = 0
  BY FS_EmptySet DEF Jobs
<1>2. TypeOK
  <2>1. Asks \in [Lookups -> Requests] /\ 0 \in 0 .. Generations
    BY ResolveAssumption
  <2>2. <<>> \in Seq(Jobs)
    OBVIOUS
  <2> QED  BY <2>1, <2>2 DEF Init, TypeOK
<1>3. SlotsHeld
  BY <1>1, ResolveAssumption DEF Init, SlotsHeld
<1>4. PendingOpen /\ InitOnce
  BY <1>1 DEF Init, PendingOpen, InitOnce, Jobs
<1>5. RemovalsCounted
  BY <1>1 DEF Init, RemovalsCounted
<1>6. StoppedEmpty /\ DescriptorsOwned /\ CaresReady /\ CaresWatched
  BY DEF Init, StoppedEmpty, DescriptorsOwned, CaresReady, CaresWatched, Jobs
<1> QED  BY <1>2, <1>3, <1>4, <1>5, <1>6 DEF IInv

LEMMA NextIInv == IInv /\ [Next]_vars => IInv'
<1> SUFFICES ASSUME IInv, [Next]_vars PROVE IInv'
  OBVIOUS
<1>1. ASSUME NEW l \in Lookups, Start(l)
      PROVE  IInv'
  BY <1>1, ResumptionsKeep
<1>2. ASSUME NEW j \in Jobs, Resume(j)
      PROVE  IInv'
  BY <1>2, ResumptionsKeep, AskKeeps, ResumeGrantedKeeps, ResumeInitKeeps DEF Resume
<1>3. ASSUME NEW j \in Jobs, WorkerReturns(j)
      PROVE  IInv'
  BY <1>3, WorkerKeeps
<1>4. ASSUME NEW s \in Sockets, SocketReady(s) \/ LoopRemoves(s)
      PROVE  IInv'
  BY <1>4, ReportKeeps, LoopRemovesKeeps
<1>5. ASSUME NEW g \in 1 .. Generations, TimerFires(g)
      PROVE  IInv'
  BY <1>5, ReportKeeps
<1>6. CASE GrantSlot
  BY <1>6, GrantKeeps
<1>7. CASE Destroy
  BY <1>7, DestroyKeeps
<1>8. CASE \/ \E l \in Lookups : Cancel(l)
           \/ \E s \in Sockets : LoopReports(s)
           \/ \E g \in 1 .. Generations : TimerArmed(g) \/ TimerElapses(g)
           \/ DestroyDone
           \/ UNCHANGED vars
  BY <1>8, RestKeeps
<1> QED  BY <1>1, <1>2, <1>3, <1>4, <1>5, <1>6, <1>7, <1>8 DEF Next

LEMMA SpecIInv == Spec => []IInv
BY InitIInv, NextIInv, PTL DEF Spec

-----------------------------------------------------------------------------
(***************************************************************************)
(* The properties of the run.                                              *)
(***************************************************************************)

\* A worker holds the slot it was granted until it returns, also when its lookup
\* was cancelled meanwhile, so native calls never exceed the slots.
THEOREM CallsStayBounded == Spec => []NativeCallsBounded
<1>1. IInv => NativeCallsBounded
  <2> SUFFICES ASSUME IInv PROVE NativeCallsBounded
    OBVIOUS
  <2> DEFINE working == {j \in Jobs : step[j] = "Working"}
  <2>1. working \subseteq slots
    BY DEF IInv, SlotsHeld
  <2>2. Cardinality(working) <= Cardinality(slots)
    BY <2>1, FS_Subset DEF IInv, SlotsHeld
  <2>3. IsFiniteSet(working) /\ Cardinality(working) \in Nat /\ Cardinality(slots) \in Nat
    BY <2>1, FS_Subset, FS_CardinalityType DEF IInv, SlotsHeld
  <2>4. Cardinality(working) <= MaxConcurrent
    BY <2>2, <2>3, ResolveAssumption DEF IInv, SlotsHeld
  <2> QED  BY <2>4 DEF NativeCallsBounded
<1> QED  BY <1>1, SpecIInv, PTL

\* Nobody waits for what nobody does: the initialisation, the timer and the
\* readiness that lookups wait for are on their way.
THEOREM WaitersAreServed == Spec => []WaitsAreServed
<1>1. IInv => WaitsAreServed
  BY DEF IInv, TypeOK, InitOnce, CaresReady, CaresWatched, WaitsAreServed
<1> QED  BY <1>1, SpecIInv, PTL

\* The loop watches open descriptors only, each for one socket, and destruction
\* leaves no registration, descriptor, worker or channel.
THEOREM OnlyOpenIsWatched == Spec => []WatchedOpen
<1>1. IInv => WatchedOpen
  BY DEF IInv, TypeOK, SlotsHeld, StoppedEmpty, DescriptorsOwned, RemovalsCounted, WatchedOpen
<1> QED  BY <1>1, SpecIInv, PTL

\* The result of a lookup, its cancellation and the destruction race, and only
\* the first of them answers.
THEOREM AnswerStands == Spec => AnswersOnce
<1>1. IInv /\ [Next]_vars =>
        [\A l \in Lookups :
           answer[l] \in {"Success", "Error", "Cancelled"} => answer'[l] = answer[l]]_vars
  <2> SUFFICES ASSUME IInv, Next, NEW l \in Lookups,
                      answer[l] \in {"Success", "Error", "Cancelled"}
               PROVE  answer'[l] = answer[l]
    BY DEF vars
  <2>1. l \notin pending /\ l \in Jobs /\ step[l] # "New"
    BY DEF IInv, PendingOpen, Jobs
  <2>2. CASE answer' = answer
    BY <2>2
  <2>3. ASSUME NEW k \in Lookups, k # l, answer' \in {[answer EXCEPT ![k] = o] : o \in Outcomes}
        PROVE  answer'[l] = answer[l]
    BY <2>3 DEF IInv, TypeOK
  <2>4. CASE Destroy
    BY <2>1, <2>4 DEF Destroy
  <2>5. ASSUME NEW k \in Lookups, Start(k) \/ Cancel(k)
        PROVE  answer'[l] = answer[l]
    BY <2>1, <2>3, <2>5 DEF Start, Cancel, Outcomes
  <2>6. ASSUME NEW j \in Jobs, Resume(j)
        PROVE  answer'[l] = answer[l]
    <3>1. ASSUME NEW ok \in BOOLEAN, j \in Lookups, Finish(j, ok) \/ HostEnded(j, ok)
          PROVE  answer'[l] = answer[l]
      BY <2>1, <2>3, <3>1 DEF Finish, HostEnded, Answers, Outcomes
    <3> QED
      BY <2>6, <3>1 DEF Resume, ResumeGranted, ResumeInit, ResumePrepared, ResumeNative,
                        ResumeInitialized, Ask, ResumeAnswered, lookupVars
  <2> QED
    BY <2>2, <2>4, <2>5, <2>6
    DEF Next, WorkerReturns, SocketReady, LoopReports, LoopRemoves, TimerArmed, TimerElapses,
        TimerFires, GrantSlot, DestroyDone, lookupVars
<1> QED  BY <1>1, SpecIInv, PTL DEF Spec, AnswersOnce
=============================================================================

--------------------------- MODULE WorkerPoolProofs ---------------------------
(***************************************************************************)
(* Theorems about WorkerPool.tla, for any finite set of workers, any       *)
(* number of cores and whatever run() and the set-up of a thread return.   *)
(* Who owns which thread and core is proved of every client.  That the     *)
(* workers are idle when they are woken is proved of one that waits for    *)
(* them after a failed add_worker (Prudent); run pool_failed_add shows     *)
(* what happens to another one.                                            *)
(***************************************************************************)
EXTENDS WorkerPool, BarrierProofs, LeastNumber

Prudent == ~TrustFailedAdd

\* Where a thread is and where the barrier has it.
PlacesMatch ==
    \A w \in Workers :
        /\ wpc[w] \in {"none", "exited"} => at[w] = "absent"
        /\ wpc[w] \in {"init", "ready", "woken", "callback"} => at[w] = "out"
        /\ wpc[w] = "wait" => at[w] \in Sems

\* The pool owns exactly the threads that there are, and none in the end.
OwnsThreads ==
    /\ workers = {w \in Workers : wpc[w] # "none"}
    /\ pc = "destroyed" => workers = {}

\* The workers that are counted: not the one that is about to be joined.
Registered == IF pc = "join" THEN workers \ {adding} ELSE workers

Leaving == {"dtor_join", "destroyed"}

CountsMatch ==
    /\ pc \notin Leaving => noWorkers = Cardinality(Registered)
    /\ noThreads = IF pc = "run" THEN noWorkers + 1 ELSE noWorkers

\* What the host can be doing in the barrier in each of its calls.
CallsMatch ==
    /\ ctl[Host] \in {"check", "cond"} => pc \in {"settling", "waiting", "dtor_wait"}
    /\ ctl[Host] = "post" => pc \in {"stopping", "waking", "dtor_join"}
    /\ ctl[Host] = "post_wait" => pc = "waiting"

\* The worker that is being added has no thread until run() succeeds.
AddingMatches ==
    /\ pc = "run" => adding \in Workers \ workers
    /\ pc \in {"settle", "settling", "stop", "stopping", "join"} => adding \in workers

\* A thread exits only if it was told to, alone or with all the others.
FlagsMatch ==
    /\ running <=> pc \notin {"dtor_release"} \cup Leaving
    /\ stopped = IF pc \in {"stop", "stopping", "join"} THEN {adding} ELSE {}
    /\ \A w \in Workers : wpc[w] = "exited" => MustExit(w)

\* Every worker is halted on the active semaphore.
Idle == \A w \in workers : wpc[w] = "wait" /\ at[w] = active

\* When the host knows the workers to be idle they are: between the return of
\* a wait and the next release.
IdleWhenKnown ==
    /\ pc \in {"client", "run"} /\ idleKnown => Idle
    /\ pc \in {"settling", "waiting", "dtor_wait"} /\ Back => Idle
    /\ pc \in {"stop", "dtor_release"} => Idle
    /\ pc = "waking" => ~idleKnown

\* The workers whose core is counted in coreUse: the one being added already
\* before it has a thread, and the one being removed no longer.
OnACore == IF pc = "run" THEN workers \cup {adding} ELSE Registered

CountedOn(c) == {w \in OnACore : coreOf[w] = c}

CoresMatch ==
    pc \notin Leaving =>
        \A c \in Cores : coreUse[c] = Cardinality(CountedOn(c)) + failedRuns[c]

\* What holds whatever the client does.
PoolShape ==
    /\ PoolTypeOK
    /\ PlacesMatch
    /\ OwnsThreads
    /\ CountsMatch
    /\ CallsMatch
    /\ AddingMatches
    /\ FlagsMatch
    /\ CoresMatch

\* The inductive invariant of a pool with a prudent client.
PoolInv == PoolShape /\ BarrierInv /\ IdleWhenKnown

-----------------------------------------------------------------------------
\* The host is the only controller of the barrier.
LEMMA OneHost == Controllers = {Host} /\ Host \in Controllers
  BY PoolAssumption

\* The workers of the pool are finitely many.
LEMMA WorkersFinite ==
    ASSUME NEW S \in SUBSET Workers
    PROVE  IsFiniteSet(S) /\ Cardinality(S) \in Nat /\ Cardinality(S) <= Cardinality(Workers)
  BY BarrierAssumption, FS_Subset, FS_CardinalityType

\* std::min_element finds a core.
LEMMA PickCoreIsACore ==
    ASSUME PoolTypeOK, NEW request \in Requests
    PROVE  PickCore(request) \in Cores
<1> DEFINE S == {coreUse[c] : c \in Cores}
<1>1. 0 \in Cores /\ Cores \in SUBSET Nat
  BY PoolAssumption DEF Cores
<1>2. S \in SUBSET Nat /\ S # {}
  BY <1>1 DEF PoolTypeOK
<1>3. PICK u \in S : \A v \in S : u <= v
  BY <1>2, LeastElement
<1> DEFINE T == {c \in Cores : coreUse[c] = u}
<1>4. T \in SUBSET Nat /\ T # {}
  BY <1>1, <1>3
<1>5. PICK c \in T : \A d \in T : c <= d
  BY <1>4, LeastElement
<1>6. ASSUME NEW d \in Cores
      PROVE  coreUse[c] < coreUse[d] \/ (coreUse[c] = coreUse[d] /\ c <= d)
  <2>1. coreUse[c] = u /\ u \in Nat /\ coreUse[d] \in Nat /\ u <= coreUse[d]
    BY <1>2, <1>3, <1>5, <1>6
  <2>2. coreUse[d] = u => c <= d
    BY <1>5
  <2> QED
    BY <2>1, <2>2
<1>7. FirstLeastUsed \in Cores
  BY <1>5, <1>6 DEF FirstLeastUsed
<1> QED
  BY <1>7, PoolAssumption DEF PickCore

-----------------------------------------------------------------------------
\* When the test of wait_for_all succeeds all workers are halted: they are as
\* many as the barrier was set up for, and none of them has exited.
LEMMA WaitEndsIdle ==
    ASSUME PoolInv, pc \in {"settling", "waiting", "dtor_wait"}, AllHalted
    PROVE  Idle
<1>1. /\ BarrierTypeOK /\ TokensMatchThreads
      /\ workers \subseteq Workers /\ wpc \in [Workers -> ThreadPoints]
  BY DEF PoolInv, PoolShape, BarrierInv, PoolTypeOK
<1>2. noThreads = Cardinality(workers)
  BY DEF PoolInv, PoolShape, CountsMatch, Registered, Leaving
<1>3. Attached \subseteq workers
  BY DEF PoolInv, PoolShape, PlacesMatch, OwnsThreads, Attached
<1>4. Cardinality(Attached) <= Cardinality(workers)
  BY <1>1, <1>3, WorkersFinite, FS_Subset
<1>5. Cardinality(Attached) <= onBarrier
  BY <1>1, <1>2, <1>4, WorkersFinite, AttachedFinite DEF AllHalted, BarrierTypeOK
<1>6. Attached = Waiting(active)
  BY <1>1, <1>5, FullBarrier
<1>7. ASSUME NEW w \in workers
      PROVE  wpc[w] = "wait" /\ at[w] = active
  <2>1. running /\ stopped = {}
    BY DEF PoolInv, PoolShape, FlagsMatch, Leaving
  <2>2. wpc[w] \in ThreadPoints \ {"none", "exited"}
    BY <1>1, <1>7, <2>1 DEF PoolInv, PoolShape, OwnsThreads, FlagsMatch, MustExit
  <2>3. at[w] # "absent"
    BY <1>1, <1>7, <2>2 DEF PoolInv, PoolShape, PlacesMatch, ThreadPoints, Sems
  <2>4. at[w] = active
    BY <1>1, <1>6, <1>7, <2>3 DEF Attached, Waiting
  <2> QED
    BY <1>1, <1>7, <2>2, <2>4 DEF PoolInv, PoolShape, PlacesMatch, ThreadPoints, BarrierTypeOK, Sems
<1> QED
  BY <1>7 DEF Idle

\* Idle workers are all on the active semaphore, and nobody else uses the
\* barrier: it may be released.
LEMMA IdleIsFull ==
    ASSUME PoolInv, Idle, pc \notin {"run", "join"} \cup Leaving
    PROVE  onBarrier = noWorkers /\ ReleaseContract
<1>1. Attached = workers
  BY DEF PoolInv, PoolShape, PoolTypeOK, BarrierTypeOK, PlacesMatch, OwnsThreads, Attached, Idle, Sems
<1>2. Waiting(active) = workers
  <2>1. Waiting(active) \subseteq Attached
    BY DEF PoolInv, PoolShape, PoolTypeOK, BarrierTypeOK, Waiting, Attached, Sems
  <2> QED
    BY <1>1, <2>1 DEF PoolInv, PoolShape, PoolTypeOK, Idle, Waiting
<1>3. onBarrier = Cardinality(workers)
  BY <1>2 DEF PoolInv, PoolShape, BarrierInv, TokensMatchThreads
<1>4. noWorkers = Cardinality(workers) /\ noThreads = Cardinality(workers)
  BY DEF PoolInv, PoolShape, CountsMatch, Registered, Leaving
<1>5. Cardinality(workers) \in Nat
  BY WorkersFinite DEF PoolInv, PoolShape, PoolTypeOK
<1> QED
  BY <1>1, <1>3, <1>4, <1>5 DEF ReleaseContract, ReleaseAssertion

\* No idle worker moves: the active semaphore has no token.
LEMMA IdleIsQuiet ==
    ASSUME PoolInv, Idle, NEW w \in Workers
    PROVE  ~ThreadStep(w)
<1>1. wpc[w] = "none" \/ (wpc[w] = "wait" /\ at[w] = active)
  BY DEF PoolInv, PoolShape, OwnsThreads, Idle
<1>2. sem[active] = 0
  BY DEF PoolInv, PoolShape, BarrierInv, TokensMatchThreads
<1> QED
  BY <1>1, <1>2 DEF ThreadStep, ThreadStarts, Halts, Wakes, CallbackStarts,
       CallbackReturns, Exits, ThreadMoves, SemWait, TokenFor

\* The releases of the pool are made when its workers are idle.
LEMMA ReleasesAreDue ==
    ASSUME PoolInv, StopRelease \/ WakeupWorkers \/ WakeupAndWait \/ DestroyRelease
    PROVE  Idle /\ onBarrier = noWorkers /\ ReleaseContract
<1>1. Idle
  BY DEF PoolInv, PoolShape, IdleWhenKnown, StopRelease, DestroyRelease, CallBarrier, WakeupWorkers,
         WakeupAndWait, Wakeup, HostGoes
<1>2. pc \notin {"run", "join"} \cup Leaving
  BY DEF StopRelease, DestroyRelease, CallBarrier, WakeupWorkers, WakeupAndWait, Wakeup,
         HostGoes, Leaving
<1> QED
  BY <1>1, <1>2, IdleIsFull

-----------------------------------------------------------------------------
\* Every step of the pool is a step that the barrier allows, or none of it.
LEMMA BarrierStep == PoolInv /\ [Next]_vars => [BarrierNext]_barrierVars
<1> SUFFICES ASSUME PoolInv, [Next]_vars
             PROVE  BarrierNext \/ UNCHANGED barrierVars
  OBVIOUS
<1>0. PoolTypeOK
  BY DEF PoolInv, PoolShape
<1> USE OneHost DEF BarrierNext, WorkerStep, ControllerStep
<1>1. CASE UNCHANGED vars
  BY <1>1 DEF vars
<1>2. ASSUME NEW w \in Workers, NEW core \in Cores, AddWorker(w, core)
      PROVE  BarrierNext \/ UNCHANGED barrierVars
  <2>1. pc = "client" /\ w \notin workers /\ SetNoThreads(Host, noWorkers + 1)
    BY <1>2 DEF AddWorker, HostGoes, OneMoreWorker, PoolInv, PoolShape, OwnsThreads
  <2>2. noWorkers = Cardinality(workers)
    BY <2>1 DEF PoolInv, PoolShape, CountsMatch, Registered, Leaving
  <2>3. Cardinality(workers) + 1 <= Cardinality(Workers)
    <3>1. workers \cup {w} \in SUBSET Workers
      BY DEF PoolInv, PoolShape, PoolTypeOK
    <3>2. Cardinality(workers \cup {w}) = Cardinality(workers) + 1
      BY <2>1, WorkersFinite, FS_AddElement DEF PoolInv, PoolShape, PoolTypeOK
    <3> QED
      BY <3>1, <3>2, WorkersFinite
  <2>4. noWorkers + 1 \in 0..Cardinality(Workers)
    BY <2>2, <2>3, WorkersFinite DEF PoolInv, PoolShape, PoolTypeOK
  <2> QED
    BY <2>1, <2>4
<1>3. CASE RunFails
  <2>1. noWorkers \in 0..Cardinality(Workers)
    BY DEF PoolInv, PoolShape, PoolTypeOK
  <2> QED
    BY <1>3, <2>1 DEF RunFails
<1>4. CASE RunSucceeds
  <2>1. adding \in Workers
    BY <1>4 DEF RunSucceeds, HostGoes, PoolInv, PoolShape, AddingMatches
  <2> QED
    BY <1>4, <2>1 DEF RunSucceeds
<1>5. CASE SettleWorkers
  BY <1>5 DEF SettleWorkers, CallBarrier
<1>6. CASE WorkerAdded
  BY <1>6 DEF WorkerAdded
<1>7. CASE StopFailedWorker
  BY <1>7 DEF StopFailedWorker
<1>8. CASE StopRelease
  <2>1. ReleaseContract
    BY <1>8, ReleasesAreDue
  <2> QED
    BY <1>8, <2>1 DEF StopRelease, CallBarrier, Release
<1>9. CASE UnregisterFailed
  <2>1. pc = "stopping" /\ SetNoThreads(Host, noWorkers - 1)
    BY <1>9 DEF UnregisterFailed, HostGoes
  <2>2. noWorkers = Cardinality(workers) /\ adding \in workers
    BY <2>1 DEF PoolInv, PoolShape, CountsMatch, Registered, Leaving, AddingMatches
  <2>3. Cardinality(workers) # 0
    BY <2>2, WorkersFinite, FS_EmptySet DEF PoolInv, PoolShape, PoolTypeOK
  <2>4. noWorkers - 1 \in 0..Cardinality(Workers)
    BY <2>2, <2>3, WorkersFinite DEF PoolInv, PoolShape, PoolTypeOK
  <2> QED
    BY <2>1, <2>4
<1>10. CASE JoinFailed
  BY <1>10 DEF JoinFailed
<1>11. CASE WaitForWorkersIdle
  BY <1>11 DEF WaitForWorkersIdle, CallBarrier
<1>12. CASE WakeupWorkers \/ WakeupAndWait
  <2>1. ReleaseContract
    BY <1>12, ReleasesAreDue
  <2> QED
    BY <1>12, <2>1 DEF WakeupWorkers, WakeupAndWait, Wakeup, Release
<1>13. CASE CallReturns
  BY <1>13 DEF CallReturns
<1>14. CASE Destroy
  BY <1>14 DEF Destroy, CallBarrier
<1>15. CASE StopPool
  BY <1>15 DEF StopPool
<1>16. CASE DestroyRelease
  <2>1. ReleaseContract
    BY <1>16, ReleasesAreDue
  <2> QED
    BY <1>16, <2>1 DEF DestroyRelease, CallBarrier, Release
<1>17. ASSUME NEW w \in Workers, DestroyWorker(w)
      PROVE  BarrierNext \/ UNCHANGED barrierVars
  BY <1>17 DEF DestroyWorker
<1>18. CASE DestroyBarrier
  BY <1>18 DEF DestroyBarrier, AllJoined
<1>19. CASE InBarrierCall
  BY <1>19 DEF InBarrierCall
<1>20. CASE SpuriousReturn
  BY <1>20 DEF SpuriousReturn
<1>21. ASSUME NEW w \in Workers, ThreadStarts(w)
      PROVE  BarrierNext \/ UNCHANGED barrierVars
  BY <1>21 DEF ThreadStarts
<1>22. ASSUME NEW w \in Workers, Halts(w)
      PROVE  BarrierNext \/ UNCHANGED barrierVars
  BY <1>22 DEF Halts
<1>23. ASSUME NEW w \in Workers, Wakes(w)
      PROVE  BarrierNext \/ UNCHANGED barrierVars
  BY <1>23 DEF Wakes
<1>24. ASSUME NEW w \in Workers, CallbackStarts(w)
      PROVE  BarrierNext \/ UNCHANGED barrierVars
  BY <1>24 DEF CallbackStarts, ThreadMoves
<1>25. ASSUME NEW w \in Workers, CallbackReturns(w)
      PROVE  BarrierNext \/ UNCHANGED barrierVars
  BY <1>25 DEF CallbackReturns, ThreadMoves
<1>26. ASSUME NEW w \in Workers, Exits(w)
      PROVE  BarrierNext \/ UNCHANGED barrierVars
  BY <1>26 DEF Exits
<1> QED
  BY <1>0, <1>1, <1>2, <1>3, <1>4, <1>5, <1>6, <1>7, <1>8, <1>9, <1>10,
     <1>11, <1>12, <1>13, <1>14, <1>15, <1>16, <1>17, <1>18, <1>19, <1>20,
     <1>21, <1>22, <1>23, <1>24, <1>25, <1>26, PickCoreIsACore
     DEF Next, ClientCall, HostStep, ThreadStep, Terminated

-----------------------------------------------------------------------------
\* Each step takes a thread and its place on the barrier along.
LEMMA PlacesStep == PoolShape /\ [Next]_vars => PlacesMatch'
<1> SUFFICES ASSUME PoolShape, [Next]_vars
             PROVE  PlacesMatch'
  OBVIOUS
<1>0. PoolTypeOK
  BY DEF PoolShape
<1>p. PlacesMatch /\ at \in [Workers -> Places] /\ wpc \in [Workers -> ThreadPoints]
      /\ active \in Sems
  BY <1>0 DEF PoolShape, PoolTypeOK, BarrierTypeOK
<1> USE <1>p DEF barrierVars, hostVars, threadVars, PlacesMatch, Sems
<1>1. CASE UNCHANGED vars
  BY <1>1 DEF vars
<1>2. ASSUME NEW w \in Workers, NEW core \in Cores, AddWorker(w, core)
      PROVE  PlacesMatch'
  BY <1>2 DEF AddWorker, SetNoThreads
<1>3. CASE RunFails
  BY <1>3 DEF RunFails, SetNoThreads
<1>4. CASE RunSucceeds
  BY <1>4 DEF RunSucceeds, Attach
<1>5. CASE SettleWorkers
  BY <1>5 DEF SettleWorkers, CallBarrier, WaitForAll
<1>6. CASE WorkerAdded
  BY <1>6 DEF WorkerAdded
<1>7. CASE StopFailedWorker
  BY <1>7 DEF StopFailedWorker
<1>8. CASE StopRelease
  BY <1>8 DEF StopRelease, CallBarrier, ReleaseBody
<1>9. CASE UnregisterFailed
  BY <1>9 DEF UnregisterFailed, SetNoThreads
<1>10. CASE JoinFailed
  BY <1>10 DEF JoinFailed, Join, Forget
<1>11. CASE WaitForWorkersIdle
  BY <1>11 DEF WaitForWorkersIdle, CallBarrier, WaitForAll
<1>12. CASE WakeupWorkers \/ WakeupAndWait
  BY <1>12 DEF WakeupWorkers, WakeupAndWait, Wakeup, ReleaseBody
<1>13. CASE CallReturns
  BY <1>13 DEF CallReturns
<1>14. CASE Destroy
  BY <1>14 DEF Destroy, CallBarrier, WaitForAll
<1>15. CASE StopPool
  BY <1>15 DEF StopPool
<1>16. CASE DestroyRelease
  BY <1>16 DEF DestroyRelease, CallBarrier, ReleaseBody
<1>17. ASSUME NEW w \in Workers, DestroyWorker(w)
      PROVE  PlacesMatch'
  BY <1>17 DEF DestroyWorker, Join, Forget
<1>18. CASE DestroyBarrier
  BY <1>18 DEF DestroyBarrier, AllJoined
<1>19. CASE InBarrierCall
  BY <1>19 DEF InBarrierCall, Check, PostOne, ReleaseDone, Releasing
<1>20. CASE SpuriousReturn
  BY <1>20 DEF SpuriousReturn, SpuriousWake
<1>21. ASSUME NEW w \in Workers, ThreadStarts(w)
      PROVE  PlacesMatch'
  BY <1>21 DEF ThreadStarts
<1>22. ASSUME NEW w \in Workers, Halts(w)
      PROVE  PlacesMatch'
  BY <1>22 DEF Halts, ThreadMoves, Arrive, SignalOne, Sleepers
<1>23. ASSUME NEW w \in Workers, Wakes(w)
      PROVE  PlacesMatch'
  BY <1>23 DEF Wakes, ThreadMoves, SemWait
<1>24. ASSUME NEW w \in Workers, CallbackStarts(w)
      PROVE  PlacesMatch'
  BY <1>24 DEF CallbackStarts, ThreadMoves
<1>25. ASSUME NEW w \in Workers, CallbackReturns(w)
      PROVE  PlacesMatch'
  BY <1>25 DEF CallbackReturns, ThreadMoves
<1>26. ASSUME NEW w \in Workers, Exits(w)
      PROVE  PlacesMatch'
  BY <1>26 DEF Exits, ThreadMoves, Detach
<1> QED
  BY <1>0, <1>1, <1>2, <1>3, <1>4, <1>5, <1>6, <1>7, <1>8, <1>9, <1>10,
     <1>11, <1>12, <1>13, <1>14, <1>15, <1>16, <1>17, <1>18, <1>19, <1>20,
     <1>21, <1>22, <1>23, <1>24, <1>25, <1>26, PickCoreIsACore
     DEF Next, ClientCall, HostStep, ThreadStep, Terminated

\* A thread is started and joined together with its WorkerThread.
LEMMA OwnsStep == PoolShape /\ [Next]_vars => OwnsThreads'
<1> SUFFICES ASSUME PoolShape, [Next]_vars
             PROVE  OwnsThreads'
  OBVIOUS
<1>0. PoolTypeOK
  BY DEF PoolShape
<1>p. OwnsThreads /\ AddingMatches /\ workers \subseteq Workers
      /\ wpc \in [Workers -> ThreadPoints]
  BY <1>0 DEF PoolShape, PoolTypeOK
<1> USE <1>p DEF barrierVars, hostVars, threadVars, OwnsThreads, AddingMatches, HostGoes
<1>1. CASE UNCHANGED vars
  BY <1>1 DEF vars
<1>2. ASSUME NEW w \in Workers, NEW core \in Cores, AddWorker(w, core)
      PROVE  OwnsThreads'
  BY <1>2 DEF AddWorker, SetNoThreads
<1>3. CASE RunFails
  BY <1>3 DEF RunFails, SetNoThreads
<1>4. CASE RunSucceeds
  BY <1>4 DEF RunSucceeds, Attach
<1>5. CASE SettleWorkers
  BY <1>5 DEF SettleWorkers, CallBarrier, WaitForAll
<1>6. CASE WorkerAdded
  BY <1>6 DEF WorkerAdded
<1>7. CASE StopFailedWorker
  BY <1>7 DEF StopFailedWorker
<1>8. CASE StopRelease
  BY <1>8 DEF StopRelease, CallBarrier, ReleaseBody
<1>9. CASE UnregisterFailed
  BY <1>9 DEF UnregisterFailed, SetNoThreads
<1>10. CASE JoinFailed
  BY <1>10 DEF JoinFailed, Join, Forget
<1>11. CASE WaitForWorkersIdle
  BY <1>11 DEF WaitForWorkersIdle, CallBarrier, WaitForAll
<1>12. CASE WakeupWorkers \/ WakeupAndWait
  BY <1>12 DEF WakeupWorkers, WakeupAndWait, Wakeup, ReleaseBody
<1>13. CASE CallReturns
  BY <1>13 DEF CallReturns
<1>14. CASE Destroy
  BY <1>14 DEF Destroy, CallBarrier, WaitForAll
<1>15. CASE StopPool
  BY <1>15 DEF StopPool
<1>16. CASE DestroyRelease
  BY <1>16 DEF DestroyRelease, CallBarrier, ReleaseBody
<1>17. ASSUME NEW w \in Workers, DestroyWorker(w)
      PROVE  OwnsThreads'
  BY <1>17 DEF DestroyWorker, Join, Forget
<1>18. CASE DestroyBarrier
  BY <1>18 DEF DestroyBarrier, AllJoined
<1>19. CASE InBarrierCall
  BY <1>19 DEF InBarrierCall, Check, PostOne, ReleaseDone, Releasing
<1>20. CASE SpuriousReturn
  BY <1>20 DEF SpuriousReturn, SpuriousWake
<1>21. ASSUME NEW w \in Workers, ThreadStarts(w)
      PROVE  OwnsThreads'
  BY <1>21 DEF ThreadStarts
<1>22. ASSUME NEW w \in Workers, Halts(w)
      PROVE  OwnsThreads'
  BY <1>22 DEF Halts, ThreadMoves, Arrive, SignalOne, Sleepers
<1>23. ASSUME NEW w \in Workers, Wakes(w)
      PROVE  OwnsThreads'
  BY <1>23 DEF Wakes, ThreadMoves, SemWait
<1>24. ASSUME NEW w \in Workers, CallbackStarts(w)
      PROVE  OwnsThreads'
  BY <1>24 DEF CallbackStarts, ThreadMoves
<1>25. ASSUME NEW w \in Workers, CallbackReturns(w)
      PROVE  OwnsThreads'
  BY <1>25 DEF CallbackReturns, ThreadMoves
<1>26. ASSUME NEW w \in Workers, Exits(w)
      PROVE  OwnsThreads'
  BY <1>26 DEF Exits, ThreadMoves, Detach
<1> QED
  BY <1>0, <1>1, <1>2, <1>3, <1>4, <1>5, <1>6, <1>7, <1>8, <1>9, <1>10,
     <1>11, <1>12, <1>13, <1>14, <1>15, <1>16, <1>17, <1>18, <1>19, <1>20,
     <1>21, <1>22, <1>23, <1>24, <1>25, <1>26, PickCoreIsACore
     DEF Next, ClientCall, HostStep, ThreadStep, Terminated

\* The host makes the calls of the barrier one at a time.
LEMMA CallsStep == PoolShape /\ [Next]_vars => CallsMatch'
<1> SUFFICES ASSUME PoolShape, [Next]_vars
             PROVE  CallsMatch'
  OBVIOUS
<1>0. PoolTypeOK
  BY DEF PoolShape
<1>p. CallsMatch /\ ctl \in [Controllers -> Calls]
  BY <1>0 DEF PoolShape, PoolTypeOK, BarrierTypeOK
<1> USE <1>p, OneHost DEF barrierVars, hostVars, threadVars, CallsMatch, HostGoes, Back
<1>1. CASE UNCHANGED vars
  BY <1>1 DEF vars
<1>2. ASSUME NEW w \in Workers, NEW core \in Cores, AddWorker(w, core)
      PROVE  CallsMatch'
  BY <1>2 DEF AddWorker, SetNoThreads
<1>3. CASE RunFails
  BY <1>3 DEF RunFails, SetNoThreads
<1>4. CASE RunSucceeds
  BY <1>4 DEF RunSucceeds, Attach
<1>5. CASE SettleWorkers
  BY <1>5 DEF SettleWorkers, CallBarrier, WaitForAll
<1>6. CASE WorkerAdded
  BY <1>6 DEF WorkerAdded
<1>7. CASE StopFailedWorker
  BY <1>7 DEF StopFailedWorker
<1>8. CASE StopRelease
  BY <1>8 DEF StopRelease, CallBarrier, ReleaseBody
<1>9. CASE UnregisterFailed
  BY <1>9 DEF UnregisterFailed, SetNoThreads
<1>10. CASE JoinFailed
  BY <1>10 DEF JoinFailed, Join, Forget
<1>11. CASE WaitForWorkersIdle
  BY <1>11 DEF WaitForWorkersIdle, CallBarrier, WaitForAll
<1>12. CASE WakeupWorkers \/ WakeupAndWait
  BY <1>12 DEF WakeupWorkers, WakeupAndWait, Wakeup, ReleaseBody
<1>13. CASE CallReturns
  BY <1>13 DEF CallReturns
<1>14. CASE Destroy
  BY <1>14 DEF Destroy, CallBarrier, WaitForAll
<1>15. CASE StopPool
  BY <1>15 DEF StopPool
<1>16. CASE DestroyRelease
  BY <1>16 DEF DestroyRelease, CallBarrier, ReleaseBody
<1>17. ASSUME NEW w \in Workers, DestroyWorker(w)
      PROVE  CallsMatch'
  BY <1>17 DEF DestroyWorker, Join, Forget
<1>18. CASE DestroyBarrier
  BY <1>18 DEF DestroyBarrier, AllJoined
<1>19. CASE InBarrierCall
  BY <1>19 DEF InBarrierCall, Check, PostOne, ReleaseDone, Releasing
<1>20. CASE SpuriousReturn
  BY <1>20 DEF SpuriousReturn, SpuriousWake
<1>21. ASSUME NEW w \in Workers, ThreadStarts(w)
      PROVE  CallsMatch'
  BY <1>21 DEF ThreadStarts
<1>22. ASSUME NEW w \in Workers, Halts(w)
      PROVE  CallsMatch'
  BY <1>22 DEF Halts, ThreadMoves, Arrive, SignalOne, Sleepers
<1>23. ASSUME NEW w \in Workers, Wakes(w)
      PROVE  CallsMatch'
  BY <1>23 DEF Wakes, ThreadMoves, SemWait
<1>24. ASSUME NEW w \in Workers, CallbackStarts(w)
      PROVE  CallsMatch'
  BY <1>24 DEF CallbackStarts, ThreadMoves
<1>25. ASSUME NEW w \in Workers, CallbackReturns(w)
      PROVE  CallsMatch'
  BY <1>25 DEF CallbackReturns, ThreadMoves
<1>26. ASSUME NEW w \in Workers, Exits(w)
      PROVE  CallsMatch'
  BY <1>26 DEF Exits, ThreadMoves, Detach
<1> QED
  BY <1>0, <1>1, <1>2, <1>3, <1>4, <1>5, <1>6, <1>7, <1>8, <1>9, <1>10,
     <1>11, <1>12, <1>13, <1>14, <1>15, <1>16, <1>17, <1>18, <1>19, <1>20,
     <1>21, <1>22, <1>23, <1>24, <1>25, <1>26, PickCoreIsACore
     DEF Next, ClientCall, HostStep, ThreadStep, Terminated

\* The worker that is being added stays the same until the call returns.
LEMMA AddingStep == PoolShape /\ [Next]_vars => AddingMatches'
<1> SUFFICES ASSUME PoolShape, [Next]_vars
             PROVE  AddingMatches'
  OBVIOUS
<1>0. PoolTypeOK
  BY DEF PoolShape
<1>p. AddingMatches /\ OwnsThreads /\ workers \subseteq Workers
  BY <1>0 DEF PoolShape, PoolTypeOK
<1> USE <1>p DEF barrierVars, hostVars, threadVars, AddingMatches, OwnsThreads, HostGoes
<1>1. CASE UNCHANGED vars
  BY <1>1 DEF vars
<1>2. ASSUME NEW w \in Workers, NEW core \in Cores, AddWorker(w, core)
      PROVE  AddingMatches'
  BY <1>2 DEF AddWorker, SetNoThreads
<1>3. CASE RunFails
  BY <1>3 DEF RunFails, SetNoThreads
<1>4. CASE RunSucceeds
  BY <1>4 DEF RunSucceeds, Attach
<1>5. CASE SettleWorkers
  BY <1>5 DEF SettleWorkers, CallBarrier, WaitForAll
<1>6. CASE WorkerAdded
  BY <1>6 DEF WorkerAdded
<1>7. CASE StopFailedWorker
  BY <1>7 DEF StopFailedWorker
<1>8. CASE StopRelease
  BY <1>8 DEF StopRelease, CallBarrier, ReleaseBody
<1>9. CASE UnregisterFailed
  BY <1>9 DEF UnregisterFailed, SetNoThreads
<1>10. CASE JoinFailed
  BY <1>10 DEF JoinFailed, Join, Forget
<1>11. CASE WaitForWorkersIdle
  BY <1>11 DEF WaitForWorkersIdle, CallBarrier, WaitForAll
<1>12. CASE WakeupWorkers \/ WakeupAndWait
  BY <1>12 DEF WakeupWorkers, WakeupAndWait, Wakeup, ReleaseBody
<1>13. CASE CallReturns
  BY <1>13 DEF CallReturns
<1>14. CASE Destroy
  BY <1>14 DEF Destroy, CallBarrier, WaitForAll
<1>15. CASE StopPool
  BY <1>15 DEF StopPool
<1>16. CASE DestroyRelease
  BY <1>16 DEF DestroyRelease, CallBarrier, ReleaseBody
<1>17. ASSUME NEW w \in Workers, DestroyWorker(w)
      PROVE  AddingMatches'
  BY <1>17 DEF DestroyWorker, Join, Forget
<1>18. CASE DestroyBarrier
  BY <1>18 DEF DestroyBarrier, AllJoined
<1>19. CASE InBarrierCall
  BY <1>19 DEF InBarrierCall, Check, PostOne, ReleaseDone, Releasing
<1>20. CASE SpuriousReturn
  BY <1>20 DEF SpuriousReturn, SpuriousWake
<1>21. ASSUME NEW w \in Workers, ThreadStarts(w)
      PROVE  AddingMatches'
  BY <1>21 DEF ThreadStarts
<1>22. ASSUME NEW w \in Workers, Halts(w)
      PROVE  AddingMatches'
  BY <1>22 DEF Halts, ThreadMoves, Arrive, SignalOne, Sleepers
<1>23. ASSUME NEW w \in Workers, Wakes(w)
      PROVE  AddingMatches'
  BY <1>23 DEF Wakes, ThreadMoves, SemWait
<1>24. ASSUME NEW w \in Workers, CallbackStarts(w)
      PROVE  AddingMatches'
  BY <1>24 DEF CallbackStarts, ThreadMoves
<1>25. ASSUME NEW w \in Workers, CallbackReturns(w)
      PROVE  AddingMatches'
  BY <1>25 DEF CallbackReturns, ThreadMoves
<1>26. ASSUME NEW w \in Workers, Exits(w)
      PROVE  AddingMatches'
  BY <1>26 DEF Exits, ThreadMoves, Detach
<1> QED
  BY <1>0, <1>1, <1>2, <1>3, <1>4, <1>5, <1>6, <1>7, <1>8, <1>9, <1>10,
     <1>11, <1>12, <1>13, <1>14, <1>15, <1>16, <1>17, <1>18, <1>19, <1>20,
     <1>21, <1>22, <1>23, <1>24, <1>25, <1>26, PickCoreIsACore
     DEF Next, ClientCall, HostStep, ThreadStep, Terminated

\* The flags are set before the releases and forgotten with the thread.
LEMMA FlagsStep == PoolShape /\ [Next]_vars => FlagsMatch'
<1> SUFFICES ASSUME PoolShape, [Next]_vars
             PROVE  FlagsMatch'
  OBVIOUS
<1>0. PoolTypeOK
  BY DEF PoolShape
<1>p. FlagsMatch /\ AddingMatches /\ wpc \in [Workers -> ThreadPoints]
  BY <1>0 DEF PoolShape, PoolTypeOK
<1> USE <1>p DEF barrierVars, hostVars, threadVars, FlagsMatch, AddingMatches, MustExit, Leaving, HostGoes
<1>1. CASE UNCHANGED vars
  BY <1>1 DEF vars
<1>2. ASSUME NEW w \in Workers, NEW core \in Cores, AddWorker(w, core)
      PROVE  FlagsMatch'
  BY <1>2 DEF AddWorker, SetNoThreads
<1>3. CASE RunFails
  BY <1>3 DEF RunFails, SetNoThreads
<1>4. CASE RunSucceeds
  BY <1>4 DEF RunSucceeds, Attach
<1>5. CASE SettleWorkers
  BY <1>5 DEF SettleWorkers, CallBarrier, WaitForAll
<1>6. CASE WorkerAdded
  BY <1>6 DEF WorkerAdded
<1>7. CASE StopFailedWorker
  BY <1>7 DEF StopFailedWorker
<1>8. CASE StopRelease
  BY <1>8 DEF StopRelease, CallBarrier, ReleaseBody
<1>9. CASE UnregisterFailed
  BY <1>9 DEF UnregisterFailed, SetNoThreads
<1>10. CASE JoinFailed
  BY <1>10 DEF JoinFailed, Join, Forget
<1>11. CASE WaitForWorkersIdle
  BY <1>11 DEF WaitForWorkersIdle, CallBarrier, WaitForAll
<1>12. CASE WakeupWorkers \/ WakeupAndWait
  BY <1>12 DEF WakeupWorkers, WakeupAndWait, Wakeup, ReleaseBody
<1>13. CASE CallReturns
  BY <1>13 DEF CallReturns
<1>14. CASE Destroy
  BY <1>14 DEF Destroy, CallBarrier, WaitForAll
<1>15. CASE StopPool
  BY <1>15 DEF StopPool
<1>16. CASE DestroyRelease
  BY <1>16 DEF DestroyRelease, CallBarrier, ReleaseBody
<1>17. ASSUME NEW w \in Workers, DestroyWorker(w)
      PROVE  FlagsMatch'
  BY <1>17 DEF DestroyWorker, Join, Forget
<1>18. CASE DestroyBarrier
  BY <1>18 DEF DestroyBarrier, AllJoined
<1>19. CASE InBarrierCall
  BY <1>19 DEF InBarrierCall, Check, PostOne, ReleaseDone, Releasing
<1>20. CASE SpuriousReturn
  BY <1>20 DEF SpuriousReturn, SpuriousWake
<1>21. ASSUME NEW w \in Workers, ThreadStarts(w)
      PROVE  FlagsMatch'
  BY <1>21 DEF ThreadStarts
<1>22. ASSUME NEW w \in Workers, Halts(w)
      PROVE  FlagsMatch'
  BY <1>22 DEF Halts, ThreadMoves, Arrive, SignalOne, Sleepers
<1>23. ASSUME NEW w \in Workers, Wakes(w)
      PROVE  FlagsMatch'
  BY <1>23 DEF Wakes, ThreadMoves, SemWait
<1>24. ASSUME NEW w \in Workers, CallbackStarts(w)
      PROVE  FlagsMatch'
  BY <1>24 DEF CallbackStarts, ThreadMoves
<1>25. ASSUME NEW w \in Workers, CallbackReturns(w)
      PROVE  FlagsMatch'
  BY <1>25 DEF CallbackReturns, ThreadMoves
<1>26. ASSUME NEW w \in Workers, Exits(w)
      PROVE  FlagsMatch'
  BY <1>26 DEF Exits, ThreadMoves, Detach
<1> QED
  BY <1>0, <1>1, <1>2, <1>3, <1>4, <1>5, <1>6, <1>7, <1>8, <1>9, <1>10,
     <1>11, <1>12, <1>13, <1>14, <1>15, <1>16, <1>17, <1>18, <1>19, <1>20,
     <1>21, <1>22, <1>23, <1>24, <1>25, <1>26, PickCoreIsACore
     DEF Next, ClientCall, HostStep, ThreadStep, Terminated

\* Both counts follow the workers: the barrier is told of a worker before it
\* can halt, and of its end after it was released.
LEMMA CountsStep == PoolShape /\ [Next]_vars => CountsMatch'
<1> SUFFICES ASSUME PoolShape, [Next]_vars
             PROVE  CountsMatch'
  OBVIOUS
<1>0. PoolTypeOK
  BY DEF PoolShape
<1>p. /\ CountsMatch /\ AddingMatches
      /\ workers \subseteq Workers /\ noWorkers \in Nat
  BY <1>0, WorkersFinite DEF PoolShape, PoolTypeOK
<1> USE <1>p DEF barrierVars, hostVars, threadVars, CountsMatch, AddingMatches, Registered,
                 Leaving, HostGoes
<1>1. CASE UNCHANGED vars
  BY <1>1 DEF vars
<1>2. ASSUME NEW w \in Workers, NEW core \in Cores, AddWorker(w, core)
      PROVE  CountsMatch'
  BY <1>2 DEF AddWorker, SetNoThreads, OneMoreWorker
<1>3. CASE RunFails
  BY <1>3 DEF RunFails, SetNoThreads
<1>4. CASE RunSucceeds
  <2>1. Cardinality(workers \cup {adding}) = Cardinality(workers) + 1
    BY <1>4, <1>p, WorkersFinite, FS_AddElement DEF RunSucceeds
  <2> QED
    BY <1>4, <2>1 DEF RunSucceeds, Attach
<1>5. CASE SettleWorkers
  BY <1>5 DEF SettleWorkers, CallBarrier, WaitForAll
<1>6. CASE WorkerAdded
  BY <1>6 DEF WorkerAdded
<1>7. CASE StopFailedWorker
  BY <1>7 DEF StopFailedWorker
<1>8. CASE StopRelease
  BY <1>8 DEF StopRelease, CallBarrier, ReleaseBody
<1>9. CASE UnregisterFailed
  <2>1. Cardinality(workers \ {adding}) = Cardinality(workers) - 1
    BY <1>9, <1>p, WorkersFinite, FS_RemoveElement DEF UnregisterFailed
  <2> QED
    BY <1>9, <2>1 DEF UnregisterFailed, SetNoThreads
<1>10. CASE JoinFailed
  BY <1>10 DEF JoinFailed, Join, Forget
<1>11. CASE WaitForWorkersIdle
  BY <1>11 DEF WaitForWorkersIdle, CallBarrier, WaitForAll
<1>12. CASE WakeupWorkers \/ WakeupAndWait
  BY <1>12 DEF WakeupWorkers, WakeupAndWait, Wakeup, ReleaseBody
<1>13. CASE CallReturns
  BY <1>13 DEF CallReturns
<1>14. CASE Destroy
  BY <1>14 DEF Destroy, CallBarrier, WaitForAll
<1>15. CASE StopPool
  BY <1>15 DEF StopPool
<1>16. CASE DestroyRelease
  BY <1>16 DEF DestroyRelease, CallBarrier, ReleaseBody
<1>17. ASSUME NEW w \in Workers, DestroyWorker(w)
      PROVE  CountsMatch'
  BY <1>17 DEF DestroyWorker, Join, Forget
<1>18. CASE DestroyBarrier
  BY <1>18 DEF DestroyBarrier, AllJoined
<1>19. CASE InBarrierCall
  BY <1>19 DEF InBarrierCall, Check, PostOne, ReleaseDone, Releasing
<1>20. CASE SpuriousReturn
  BY <1>20 DEF SpuriousReturn, SpuriousWake
<1>21. ASSUME NEW w \in Workers, ThreadStarts(w)
      PROVE  CountsMatch'
  BY <1>21 DEF ThreadStarts
<1>22. ASSUME NEW w \in Workers, Halts(w)
      PROVE  CountsMatch'
  BY <1>22 DEF Halts, ThreadMoves, Arrive, SignalOne, Sleepers
<1>23. ASSUME NEW w \in Workers, Wakes(w)
      PROVE  CountsMatch'
  BY <1>23 DEF Wakes, ThreadMoves, SemWait
<1>24. ASSUME NEW w \in Workers, CallbackStarts(w)
      PROVE  CountsMatch'
  BY <1>24 DEF CallbackStarts, ThreadMoves
<1>25. ASSUME NEW w \in Workers, CallbackReturns(w)
      PROVE  CountsMatch'
  BY <1>25 DEF CallbackReturns, ThreadMoves
<1>26. ASSUME NEW w \in Workers, Exits(w)
      PROVE  CountsMatch'
  BY <1>26 DEF Exits, ThreadMoves, Detach
<1> QED
  BY <1>0, <1>1, <1>2, <1>3, <1>4, <1>5, <1>6, <1>7, <1>8, <1>9, <1>10,
     <1>11, <1>12, <1>13, <1>14, <1>15, <1>16, <1>17, <1>18, <1>19, <1>20,
     <1>21, <1>22, <1>23, <1>24, <1>25, <1>26, PickCoreIsACore
     DEF Next, ClientCall, HostStep, ThreadStep, Terminated

\* The workers are idle when a wait has returned and stay so until they are
\* released, since no thread can move; a prudent client does not think that
\* they are after an add_worker that failed, which releases all of them.
LEMMA IdleStep == Prudent /\ PoolInv /\ [Next]_vars => IdleWhenKnown'
<1> SUFFICES ASSUME Prudent, PoolInv, [Next]_vars
             PROVE  IdleWhenKnown'
  OBVIOUS
<1>0. PoolTypeOK
  BY DEF PoolInv, PoolShape
<1>p. IdleWhenKnown /\ ctl \in [Controllers -> Calls]
  BY <1>0 DEF PoolInv, PoolShape, PoolTypeOK, BarrierTypeOK
<1> USE <1>p DEF barrierVars, hostVars, threadVars, IdleWhenKnown, Idle, HostGoes, Back
<1>1. CASE UNCHANGED vars
  BY <1>1 DEF vars
<1>2. ASSUME NEW w \in Workers, NEW core \in Cores, AddWorker(w, core)
      PROVE  IdleWhenKnown'
  BY <1>2 DEF AddWorker, SetNoThreads
<1>3. CASE RunFails
  BY <1>3 DEF RunFails, SetNoThreads
<1>4. CASE RunSucceeds
  BY <1>4 DEF RunSucceeds, Attach
<1>5. CASE SettleWorkers
  <2>1. pc' = "settling" /\ ~Back'
    BY <1>5, <1>p, OneHost DEF SettleWorkers, CallBarrier, WaitForAll, Back
  <2> QED
    BY <2>1
<1>6. CASE WorkerAdded
  BY <1>6 DEF WorkerAdded
<1>7. CASE StopFailedWorker
  BY <1>7 DEF StopFailedWorker
<1>8. CASE StopRelease
  BY <1>8 DEF StopRelease, CallBarrier, ReleaseBody
<1>9. CASE UnregisterFailed
  BY <1>9 DEF UnregisterFailed, SetNoThreads
<1>10. CASE JoinFailed
  <2>1. pc' = "client" /\ idleKnown' = FALSE
    BY <1>10 DEF JoinFailed, Prudent
  <2> QED
    BY <2>1
<1>11. CASE WaitForWorkersIdle
  <2>1. pc' = "waiting" /\ ~Back'
    BY <1>11, <1>p, OneHost DEF WaitForWorkersIdle, CallBarrier, WaitForAll, Back
  <2> QED
    BY <2>1
<1>12. CASE WakeupWorkers \/ WakeupAndWait
  <2>1. pc' \in {"waking", "waiting"} /\ idleKnown' = FALSE /\ ~Back'
    BY <1>12, <1>p, OneHost DEF WakeupWorkers, WakeupAndWait, Wakeup, ReleaseBody, Back
  <2> QED
    BY <2>1
<1>13. CASE CallReturns
  BY <1>13 DEF CallReturns
<1>14. CASE Destroy
  <2>1. pc' = "dtor_wait" /\ ~Back'
    BY <1>14, <1>p, OneHost DEF Destroy, CallBarrier, WaitForAll, Back
  <2> QED
    BY <2>1
<1>15. CASE StopPool
  BY <1>15 DEF StopPool
<1>16. CASE DestroyRelease
  BY <1>16 DEF DestroyRelease, CallBarrier, ReleaseBody
<1>17. ASSUME NEW w \in Workers, DestroyWorker(w)
      PROVE  IdleWhenKnown'
  BY <1>17 DEF DestroyWorker, Join, Forget
<1>18. CASE DestroyBarrier
  BY <1>18 DEF DestroyBarrier, AllJoined
<1>19. CASE InBarrierCall
  <2>1. UNCHANGED <<pc, workers, wpc, idleKnown>>
    BY <1>19 DEF InBarrierCall
  <2>2. UNCHANGED <<at, active>>
    BY <1>19 DEF InBarrierCall, Check, PostOne, ReleaseDone
  <2>3. ctl' = ctl \/ ctl'[Host] # "out" \/ AllHalted
             \/ (ctl[Host] = "post" /\ Back')
    BY <1>19, <1>p, OneHost DEF InBarrierCall, Check, PostOne, ReleaseDone, Releasing, Back
  <2>4. pc \in {"settling", "waiting", "dtor_wait"} => ctl[Host] # "post"
    BY DEF PoolInv, PoolShape, CallsMatch
  <2>5. pc \in {"settling", "waiting", "dtor_wait"} /\ Back' => Idle
    BY <2>3, <2>4, WaitEndsIdle, <1>p DEF Back
  <2> QED
    BY <2>1, <2>2, <2>5
<1>20. CASE SpuriousReturn
  BY <1>20 DEF SpuriousReturn, SpuriousWake
<1>21. ASSUME NEW w \in Workers, ThreadStep(w)
       PROVE  IdleWhenKnown'
  <2>1. ~Idle
    BY <1>21, IdleIsQuiet
  <2>2. UNCHANGED hostVars
    BY <1>21 DEF ThreadStep, ThreadStarts, Halts, Wakes, CallbackStarts, CallbackReturns,
                 Exits, ThreadMoves
  <2>3. pc \in {"settling", "waiting", "dtor_wait"} => ~Back'
    <3>1. CASE Halts(w)
      BY <1>p, <2>1, <3>1, OneHost DEF Halts, Arrive, SignalOne, Sleepers, Back, IdleWhenKnown
    <3>2. CASE ~Halts(w)
      <4>1. UNCHANGED ctl
        BY <1>21, <3>2 DEF ThreadStep, ThreadStarts, Wakes, CallbackStarts, CallbackReturns,
                 Exits, SemWait, Detach, barrierVars
      <4> QED
        BY <1>p, <2>1, <4>1 DEF Back, IdleWhenKnown
    <3> QED
      BY <3>1, <3>2
  <2> QED
    BY <1>p, <2>1, <2>2, <2>3 DEF hostVars, IdleWhenKnown
<1> QED
  BY <1>0, <1>1, <1>2, <1>3, <1>4, <1>5, <1>6, <1>7, <1>8, <1>9, <1>10,
     <1>11, <1>12, <1>13, <1>14, <1>15, <1>16, <1>17, <1>18, <1>19, <1>20,
     <1>21, PickCoreIsACore
     DEF Next, ClientCall, HostStep, Terminated

-----------------------------------------------------------------------------
\* A step that changes neither the counts nor who is counted.
LEMMA CoresFrame ==
    ASSUME CoresMatch, pc' \notin Leaving => pc \notin Leaving, OnACore' = OnACore,
           UNCHANGED <<coreUse, coreOf, failedRuns>>
    PROVE  CoresMatch'
  BY DEF CoresMatch, CountedOn, Leaving

\* A core is counted when it is chosen, and no longer when the worker is
\* removed; if run() fails its use is lost.
LEMMA CoresStep == PoolShape /\ [Next]_vars => CoresMatch'
<1> SUFFICES ASSUME PoolShape, [Next]_vars
             PROVE  CoresMatch'
  OBVIOUS
<1>0. PoolTypeOK
  BY DEF PoolShape
<1>p. /\ CoresMatch
      /\ coreUse \in [Cores -> Nat] /\ failedRuns \in [Cores -> Nat]
      /\ coreOf \in [Workers -> Cores]
      /\ workers \subseteq Workers
      /\ pc' \notin Leaving => pc \notin Leaving
  <2>1. CoresMatch /\ PoolTypeOK
    BY DEF PoolShape
  <2>2. pc \in Leaving => pc' \in Leaving
    <3> USE DEF Leaving, HostGoes
    <3>1. CASE ClientCall
      BY <3>1 DEF ClientCall, AddWorker, WaitForWorkersIdle, WakeupWorkers, WakeupAndWait,
                  Wakeup, Destroy, CallBarrier
    <3>2. CASE HostStep
      BY <3>2 DEF HostStep, RunFails, RunSucceeds, SettleWorkers, WorkerAdded, StopFailedWorker,
                  StopRelease, UnregisterFailed, JoinFailed, CallReturns, StopPool,
                  DestroyRelease, DestroyWorker, DestroyBarrier, InBarrierCall, CallBarrier,
                  hostVars
    <3>3. CASE SpuriousReturn \/ (\E w \in Workers : ThreadStep(w)) \/ UNCHANGED vars
      BY <3>3 DEF SpuriousReturn, ThreadStep, ThreadStarts, Halts, Wakes, CallbackStarts,
                  CallbackReturns, Exits, ThreadMoves, hostVars, vars
    <3> QED
      BY <3>1, <3>2, <3>3 DEF Next, Terminated
  <2> QED
    BY <2>1, <2>2 DEF PoolTypeOK
<1>q. \A c \in Cores : /\ IsFiniteSet(CountedOn(c))
                       /\ Cardinality(CountedOn(c)) \in Nat
  <2>1. \A c \in Cores : CountedOn(c) \in SUBSET Workers
    BY <1>p DEF CountedOn, OnACore, Registered, PoolShape, AddingMatches
  <2> QED
    BY <2>1, WorkersFinite
<1> USE <1>p DEF barrierVars, hostVars, threadVars, OnACore, Registered, HostGoes
<1>1. CASE UNCHANGED vars
  BY <1>1, CoresFrame DEF vars
<1>2. ASSUME NEW w \in Workers, NEW core \in Cores, AddWorker(w, core)
      PROVE  CoresMatch'
  <2>1. /\ OnACore = workers /\ OnACore' = workers \cup {w} /\ w \notin workers
        /\ coreUse' = [coreUse EXCEPT ![core] = coreUse[core] + 1]
        /\ coreOf' = [coreOf EXCEPT ![w] = core] /\ failedRuns' = failedRuns
        /\ pc \notin Leaving
    BY <1>2 DEF AddWorker, Leaving, PoolShape, OwnsThreads
  <2> SUFFICES ASSUME NEW c \in Cores
               PROVE  coreUse'[c] = Cardinality(CountedOn(c)') + failedRuns'[c]
    BY DEF CoresMatch
  <2>2. CASE c = core
    <3>1. CountedOn(c)' = CountedOn(c) \cup {w} /\ w \notin CountedOn(c)
      BY <1>p, <2>1, <2>2 DEF CountedOn
    <3>2. Cardinality(CountedOn(c)') = Cardinality(CountedOn(c)) + 1
      BY <1>q, <3>1, FS_AddElement
    <3> QED
      BY <1>p, <1>q, <2>1, <2>2, <3>2 DEF CoresMatch
  <2>3. CASE c # core
    <3>1. CountedOn(c)' = CountedOn(c)
      BY <1>p, <2>1, <2>3 DEF CountedOn
    <3> QED
      BY <1>p, <2>1, <2>3, <3>1 DEF CoresMatch
  <2> QED
    BY <2>2, <2>3
<1>3. CASE RunFails
  <2>1. /\ adding \in OnACore /\ OnACore' = OnACore \ {adding} /\ adding \in Workers
        /\ failedRuns' = [failedRuns EXCEPT ![coreOf[adding]] = failedRuns[coreOf[adding]] + 1] /\ coreUse' = coreUse
        /\ coreOf' = coreOf /\ pc \notin Leaving
    BY <1>3, <1>p DEF RunFails, Leaving, PoolShape, AddingMatches
  <2> SUFFICES ASSUME NEW c \in Cores
               PROVE  coreUse'[c] = Cardinality(CountedOn(c)') + failedRuns'[c]
    BY DEF CoresMatch
  <2>2. CASE c = coreOf[adding]
    <3>1. CountedOn(c)' = CountedOn(c) \ {adding} /\ adding \in CountedOn(c)
      BY <1>p, <2>1, <2>2 DEF CountedOn
    <3>2. Cardinality(CountedOn(c)') = Cardinality(CountedOn(c)) - 1
      BY <1>q, <3>1, FS_RemoveElement
    <3> QED
      BY <1>p, <1>q, <2>1, <2>2, <3>2 DEF CoresMatch
  <2>3. CASE c # coreOf[adding]
    <3>1. CountedOn(c)' = CountedOn(c)
      BY <1>p, <2>1, <2>3 DEF CountedOn
    <3> QED
      BY <1>p, <2>1, <2>3, <3>1 DEF CoresMatch
  <2> QED
    BY <2>2, <2>3
<1>4. CASE RunSucceeds
  <2>1. OnACore' = OnACore /\ UNCHANGED <<coreUse, coreOf, failedRuns>>
    BY <1>4 DEF RunSucceeds, Attach
  <2> QED
    BY <2>1, CoresFrame
<1>5. CASE SettleWorkers
  <2>1. OnACore' = OnACore /\ UNCHANGED <<coreUse, coreOf, failedRuns>>
    BY <1>5 DEF SettleWorkers, CallBarrier, WaitForAll
  <2> QED
    BY <2>1, CoresFrame
<1>6. CASE WorkerAdded
  <2>1. OnACore' = OnACore /\ UNCHANGED <<coreUse, coreOf, failedRuns>>
    BY <1>6 DEF WorkerAdded
  <2> QED
    BY <2>1, CoresFrame
<1>7. CASE StopFailedWorker
  <2>1. OnACore' = OnACore /\ UNCHANGED <<coreUse, coreOf, failedRuns>>
    BY <1>7 DEF StopFailedWorker
  <2> QED
    BY <2>1, CoresFrame
<1>8. CASE StopRelease
  <2>1. OnACore' = OnACore /\ UNCHANGED <<coreUse, coreOf, failedRuns>>
    BY <1>8 DEF StopRelease, CallBarrier, ReleaseBody
  <2> QED
    BY <2>1, CoresFrame
<1>9. CASE UnregisterFailed
  <2>1. /\ adding \in OnACore /\ OnACore' = OnACore \ {adding} /\ adding \in Workers
        /\ coreUse' = [coreUse EXCEPT ![coreOf[adding]] = coreUse[coreOf[adding]] - 1] /\ failedRuns' = failedRuns
        /\ coreOf' = coreOf /\ pc \notin Leaving
    BY <1>9, <1>p DEF UnregisterFailed, CoreUseWithout, Leaving, PoolShape, AddingMatches
  <2> SUFFICES ASSUME NEW c \in Cores
               PROVE  coreUse'[c] = Cardinality(CountedOn(c)') + failedRuns'[c]
    BY DEF CoresMatch
  <2>2. CASE c = coreOf[adding]
    <3>1. CountedOn(c)' = CountedOn(c) \ {adding} /\ adding \in CountedOn(c)
      BY <1>p, <2>1, <2>2 DEF CountedOn
    <3>2. Cardinality(CountedOn(c)') = Cardinality(CountedOn(c)) - 1
      BY <1>q, <3>1, FS_RemoveElement
    <3> QED
      BY <1>p, <1>q, <2>1, <2>2, <3>2 DEF CoresMatch
  <2>3. CASE c # coreOf[adding]
    <3>1. CountedOn(c)' = CountedOn(c)
      BY <1>p, <2>1, <2>3 DEF CountedOn
    <3> QED
      BY <1>p, <2>1, <2>3, <3>1 DEF CoresMatch
  <2> QED
    BY <2>2, <2>3
<1>10. CASE JoinFailed
  <2>1. OnACore' = OnACore /\ UNCHANGED <<coreUse, coreOf, failedRuns>>
    BY <1>10 DEF JoinFailed, Join, Forget
  <2> QED
    BY <2>1, CoresFrame
<1>11. CASE WaitForWorkersIdle
  <2>1. OnACore' = OnACore /\ UNCHANGED <<coreUse, coreOf, failedRuns>>
    BY <1>11 DEF WaitForWorkersIdle, CallBarrier, WaitForAll
  <2> QED
    BY <2>1, CoresFrame
<1>12. CASE WakeupWorkers \/ WakeupAndWait
  <2>1. OnACore' = OnACore /\ UNCHANGED <<coreUse, coreOf, failedRuns>>
    BY <1>12 DEF WakeupWorkers, WakeupAndWait, Wakeup, ReleaseBody
  <2> QED
    BY <2>1, CoresFrame
<1>13. CASE CallReturns
  <2>1. OnACore' = OnACore /\ UNCHANGED <<coreUse, coreOf, failedRuns>>
    BY <1>13 DEF CallReturns
  <2> QED
    BY <2>1, CoresFrame
<1>14. CASE Destroy
  <2>1. OnACore' = OnACore /\ UNCHANGED <<coreUse, coreOf, failedRuns>>
    BY <1>14 DEF Destroy, CallBarrier, WaitForAll
  <2> QED
    BY <2>1, CoresFrame
<1>15. CASE StopPool
  <2>1. OnACore' = OnACore /\ UNCHANGED <<coreUse, coreOf, failedRuns>>
    BY <1>15 DEF StopPool
  <2> QED
    BY <2>1, CoresFrame
<1>16. CASE DestroyRelease
  BY <1>16 DEF DestroyRelease, CallBarrier, ReleaseBody, CoresMatch, Leaving
<1>17. ASSUME NEW w \in Workers, DestroyWorker(w)
      PROVE  CoresMatch'
  BY <1>17 DEF DestroyWorker, Join, Forget, CoresMatch, Leaving
<1>18. CASE DestroyBarrier
  BY <1>18 DEF DestroyBarrier, AllJoined, CoresMatch, Leaving
<1>19. CASE InBarrierCall
  <2>1. OnACore' = OnACore /\ UNCHANGED <<coreUse, coreOf, failedRuns>>
    BY <1>19 DEF InBarrierCall, Check, PostOne, ReleaseDone, Releasing
  <2> QED
    BY <2>1, CoresFrame
<1>20. CASE SpuriousReturn
  <2>1. OnACore' = OnACore /\ UNCHANGED <<coreUse, coreOf, failedRuns>>
    BY <1>20 DEF SpuriousReturn, SpuriousWake
  <2> QED
    BY <2>1, CoresFrame
<1>21. ASSUME NEW w \in Workers, ThreadStarts(w)
      PROVE  CoresMatch'
  <2>1. OnACore' = OnACore /\ UNCHANGED <<coreUse, coreOf, failedRuns>>
    BY <1>21 DEF ThreadStarts
  <2> QED
    BY <2>1, CoresFrame
<1>22. ASSUME NEW w \in Workers, Halts(w)
      PROVE  CoresMatch'
  <2>1. OnACore' = OnACore /\ UNCHANGED <<coreUse, coreOf, failedRuns>>
    BY <1>22 DEF Halts, ThreadMoves, Arrive, SignalOne, Sleepers
  <2> QED
    BY <2>1, CoresFrame
<1>23. ASSUME NEW w \in Workers, Wakes(w)
      PROVE  CoresMatch'
  <2>1. OnACore' = OnACore /\ UNCHANGED <<coreUse, coreOf, failedRuns>>
    BY <1>23 DEF Wakes, ThreadMoves, SemWait
  <2> QED
    BY <2>1, CoresFrame
<1>24. ASSUME NEW w \in Workers, CallbackStarts(w)
      PROVE  CoresMatch'
  <2>1. OnACore' = OnACore /\ UNCHANGED <<coreUse, coreOf, failedRuns>>
    BY <1>24 DEF CallbackStarts, ThreadMoves
  <2> QED
    BY <2>1, CoresFrame
<1>25. ASSUME NEW w \in Workers, CallbackReturns(w)
      PROVE  CoresMatch'
  <2>1. OnACore' = OnACore /\ UNCHANGED <<coreUse, coreOf, failedRuns>>
    BY <1>25 DEF CallbackReturns, ThreadMoves
  <2> QED
    BY <2>1, CoresFrame
<1>26. ASSUME NEW w \in Workers, Exits(w)
      PROVE  CoresMatch'
  <2>1. OnACore' = OnACore /\ UNCHANGED <<coreUse, coreOf, failedRuns>>
    BY <1>26 DEF Exits, ThreadMoves, Detach
  <2> QED
    BY <2>1, CoresFrame
<1> QED
  BY <1>0, <1>1, <1>2, <1>3, <1>4, <1>5, <1>6, <1>7, <1>8, <1>9, <1>10,
     <1>11, <1>12, <1>13, <1>14, <1>15, <1>16, <1>17, <1>18, <1>19, <1>20,
     <1>21, <1>22, <1>23, <1>24, <1>25, <1>26, PickCoreIsACore
     DEF Next, ClientCall, HostStep, ThreadStep, Terminated

-----------------------------------------------------------------------------
\* The types, in the parts that a step changes for different reasons.
ThreadTypes ==
    /\ pc \in HostPoints
    /\ adding \in Workers \cup {NoThread}
    /\ wpc \in [Workers -> ThreadPoints]
    /\ failed \subseteq workers

FlagTypes == running \in BOOLEAN /\ idleKnown \in BOOLEAN

CoreTypes ==
    /\ coreUse \in [Cores -> Nat]
    /\ coreOf \in [Workers -> Cores]
    /\ failedRuns \in [Cores -> Nat]

\* A thread that fails in its set-up is one of the pool.
LEMMA ThreadTypesStep == PoolShape /\ [Next]_vars => ThreadTypes'
<1> SUFFICES ASSUME PoolShape, [Next]_vars
             PROVE  ThreadTypes'
  OBVIOUS
<1>0. PoolTypeOK
  BY DEF PoolShape
<1>p. /\ ThreadTypes /\ workers \subseteq Workers
      /\ AddingMatches /\ OwnsThreads
  BY <1>0 DEF PoolShape, PoolTypeOK, ThreadTypes
<1> USE <1>p DEF barrierVars, hostVars, threadVars, ThreadTypes, HostGoes, HostPoints,
                 ThreadPoints, AddingMatches
<1>1. CASE UNCHANGED vars
  BY <1>1 DEF vars
<1>2. ASSUME NEW w \in Workers, NEW core \in Cores, AddWorker(w, core)
      PROVE  ThreadTypes'
  BY <1>2 DEF AddWorker, SetNoThreads
<1>3. CASE RunFails
  BY <1>3 DEF RunFails, SetNoThreads
<1>4. CASE RunSucceeds
  BY <1>4 DEF RunSucceeds, Attach
<1>5. CASE SettleWorkers
  BY <1>5 DEF SettleWorkers, CallBarrier, WaitForAll
<1>6. CASE WorkerAdded
  BY <1>6 DEF WorkerAdded
<1>7. CASE StopFailedWorker
  BY <1>7 DEF StopFailedWorker
<1>8. CASE StopRelease
  BY <1>8 DEF StopRelease, CallBarrier, ReleaseBody
<1>9. CASE UnregisterFailed
  BY <1>9 DEF UnregisterFailed, SetNoThreads
<1>10. CASE JoinFailed
  BY <1>10 DEF JoinFailed, Join, Forget
<1>11. CASE WaitForWorkersIdle
  BY <1>11 DEF WaitForWorkersIdle, CallBarrier, WaitForAll
<1>12. CASE WakeupWorkers \/ WakeupAndWait
  BY <1>12 DEF WakeupWorkers, WakeupAndWait, Wakeup, ReleaseBody
<1>13. CASE CallReturns
  BY <1>13 DEF CallReturns
<1>14. CASE Destroy
  BY <1>14 DEF Destroy, CallBarrier, WaitForAll
<1>15. CASE StopPool
  BY <1>15 DEF StopPool
<1>16. CASE DestroyRelease
  BY <1>16 DEF DestroyRelease, CallBarrier, ReleaseBody
<1>17. ASSUME NEW w \in Workers, DestroyWorker(w)
      PROVE  ThreadTypes'
  BY <1>17 DEF DestroyWorker, Join, Forget
<1>18. CASE DestroyBarrier
  BY <1>18 DEF DestroyBarrier, AllJoined
<1>19. CASE InBarrierCall
  BY <1>19 DEF InBarrierCall, Check, PostOne, ReleaseDone, Releasing
<1>20. CASE SpuriousReturn
  BY <1>20 DEF SpuriousReturn, SpuriousWake
<1>21. ASSUME NEW w \in Workers, ThreadStarts(w)
      PROVE  ThreadTypes'
  BY <1>21 DEF ThreadStarts, OwnsThreads
<1>22. ASSUME NEW w \in Workers, Halts(w)
      PROVE  ThreadTypes'
  BY <1>22 DEF Halts, ThreadMoves, Arrive, SignalOne, Sleepers
<1>23. ASSUME NEW w \in Workers, Wakes(w)
      PROVE  ThreadTypes'
  BY <1>23 DEF Wakes, ThreadMoves, SemWait
<1>24. ASSUME NEW w \in Workers, CallbackStarts(w)
      PROVE  ThreadTypes'
  BY <1>24 DEF CallbackStarts, ThreadMoves
<1>25. ASSUME NEW w \in Workers, CallbackReturns(w)
      PROVE  ThreadTypes'
  BY <1>25 DEF CallbackReturns, ThreadMoves
<1>26. ASSUME NEW w \in Workers, Exits(w)
      PROVE  ThreadTypes'
  BY <1>26 DEF Exits, ThreadMoves, Detach
<1> QED
  BY <1>0, <1>1, <1>2, <1>3, <1>4, <1>5, <1>6, <1>7, <1>8, <1>9, <1>10,
     <1>11, <1>12, <1>13, <1>14, <1>15, <1>16, <1>17, <1>18, <1>19, <1>20,
     <1>21, <1>22, <1>23, <1>24, <1>25, <1>26, PickCoreIsACore
     DEF Next, ClientCall, HostStep, ThreadStep, Terminated

\* The flags stay Boolean.
LEMMA FlagTypesStep == PoolShape /\ [Next]_vars => FlagTypes'
<1> SUFFICES ASSUME PoolShape, [Next]_vars
             PROVE  FlagTypes'
  OBVIOUS
<1>0. PoolTypeOK
  BY DEF PoolShape
<1>p. FlagTypes
  BY <1>0 DEF PoolTypeOK, FlagTypes
<1> USE <1>p DEF barrierVars, hostVars, threadVars, FlagTypes
<1>1. CASE UNCHANGED vars
  BY <1>1 DEF vars
<1>2. ASSUME NEW w \in Workers, NEW core \in Cores, AddWorker(w, core)
      PROVE  FlagTypes'
  BY <1>2 DEF AddWorker, SetNoThreads
<1>3. CASE RunFails
  BY <1>3 DEF RunFails, SetNoThreads
<1>4. CASE RunSucceeds
  BY <1>4 DEF RunSucceeds, Attach
<1>5. CASE SettleWorkers
  BY <1>5 DEF SettleWorkers, CallBarrier, WaitForAll
<1>6. CASE WorkerAdded
  BY <1>6 DEF WorkerAdded
<1>7. CASE StopFailedWorker
  BY <1>7 DEF StopFailedWorker
<1>8. CASE StopRelease
  BY <1>8 DEF StopRelease, CallBarrier, ReleaseBody
<1>9. CASE UnregisterFailed
  BY <1>9 DEF UnregisterFailed, SetNoThreads
<1>10. CASE JoinFailed
  BY <1>10 DEF JoinFailed, Join, Forget
<1>11. CASE WaitForWorkersIdle
  BY <1>11 DEF WaitForWorkersIdle, CallBarrier, WaitForAll
<1>12. CASE WakeupWorkers \/ WakeupAndWait
  BY <1>12 DEF WakeupWorkers, WakeupAndWait, Wakeup, ReleaseBody
<1>13. CASE CallReturns
  BY <1>13 DEF CallReturns
<1>14. CASE Destroy
  BY <1>14 DEF Destroy, CallBarrier, WaitForAll
<1>15. CASE StopPool
  BY <1>15 DEF StopPool
<1>16. CASE DestroyRelease
  BY <1>16 DEF DestroyRelease, CallBarrier, ReleaseBody
<1>17. ASSUME NEW w \in Workers, DestroyWorker(w)
      PROVE  FlagTypes'
  BY <1>17 DEF DestroyWorker, Join, Forget
<1>18. CASE DestroyBarrier
  BY <1>18 DEF DestroyBarrier, AllJoined
<1>19. CASE InBarrierCall
  BY <1>19 DEF InBarrierCall, Check, PostOne, ReleaseDone, Releasing
<1>20. CASE SpuriousReturn
  BY <1>20 DEF SpuriousReturn, SpuriousWake
<1>21. ASSUME NEW w \in Workers, ThreadStarts(w)
      PROVE  FlagTypes'
  BY <1>21 DEF ThreadStarts
<1>22. ASSUME NEW w \in Workers, Halts(w)
      PROVE  FlagTypes'
  BY <1>22 DEF Halts, ThreadMoves, Arrive, SignalOne, Sleepers
<1>23. ASSUME NEW w \in Workers, Wakes(w)
      PROVE  FlagTypes'
  BY <1>23 DEF Wakes, ThreadMoves, SemWait
<1>24. ASSUME NEW w \in Workers, CallbackStarts(w)
      PROVE  FlagTypes'
  BY <1>24 DEF CallbackStarts, ThreadMoves
<1>25. ASSUME NEW w \in Workers, CallbackReturns(w)
      PROVE  FlagTypes'
  BY <1>25 DEF CallbackReturns, ThreadMoves
<1>26. ASSUME NEW w \in Workers, Exits(w)
      PROVE  FlagTypes'
  BY <1>26 DEF Exits, ThreadMoves, Detach
<1> QED
  BY <1>0, <1>1, <1>2, <1>3, <1>4, <1>5, <1>6, <1>7, <1>8, <1>9, <1>10,
     <1>11, <1>12, <1>13, <1>14, <1>15, <1>16, <1>17, <1>18, <1>19, <1>20,
     <1>21, <1>22, <1>23, <1>24, <1>25, <1>26, PickCoreIsACore
     DEF Next, ClientCall, HostStep, ThreadStep, Terminated

\* The use of a core that is given back was counted.
LEMMA CoreTypesStep == PoolShape /\ [Next]_vars => CoreTypes'
<1> SUFFICES ASSUME PoolShape, [Next]_vars
             PROVE  CoreTypes'
  OBVIOUS
<1>0. PoolTypeOK
  BY DEF PoolShape
<1>p. CoreTypes
  BY <1>0 DEF PoolTypeOK, CoreTypes
<1> USE <1>p DEF barrierVars, hostVars, threadVars, CoreTypes
<1>1. CASE UNCHANGED vars
  BY <1>1 DEF vars
<1>2. ASSUME NEW w \in Workers, NEW core \in Cores, AddWorker(w, core)
      PROVE  CoreTypes'
  BY <1>2 DEF AddWorker, SetNoThreads
<1>3. CASE RunFails
  <2>1. adding \in Workers
    BY <1>3 DEF RunFails, HostGoes, PoolShape, AddingMatches
  <2> QED
    BY <1>3, <2>1 DEF RunFails
<1>4. CASE RunSucceeds
  BY <1>4 DEF RunSucceeds, Attach
<1>5. CASE SettleWorkers
  BY <1>5 DEF SettleWorkers, CallBarrier, WaitForAll
<1>6. CASE WorkerAdded
  BY <1>6 DEF WorkerAdded
<1>7. CASE StopFailedWorker
  BY <1>7 DEF StopFailedWorker
<1>8. CASE StopRelease
  BY <1>8 DEF StopRelease, CallBarrier, ReleaseBody
<1>9. CASE UnregisterFailed
  <2>1. pc = "stopping" /\ adding \in workers /\ workers \subseteq Workers
    BY <1>9 DEF UnregisterFailed, HostGoes, PoolShape, PoolTypeOK, AddingMatches
  <2> DEFINE c == coreOf[adding]
  <2>2. c \in Cores /\ adding \in CountedOn(c) /\ CountedOn(c) \in SUBSET Workers
    BY <2>1 DEF CountedOn, OnACore, Registered
  <2>3. Cardinality(CountedOn(c)) \in Nat /\ Cardinality(CountedOn(c)) # 0
    BY <2>2, WorkersFinite, FS_EmptySet
  <2>4. coreUse[c] = Cardinality(CountedOn(c)) + failedRuns[c]
    BY <2>1, <2>2 DEF PoolShape, CoresMatch, Leaving
  <2>5. coreUse[c] - 1 \in Nat
    BY <2>2, <2>3, <2>4
  <2>6. /\ coreUse' = [coreUse EXCEPT ![c] = coreUse[c] - 1]
        /\ UNCHANGED <<coreOf, failedRuns>>
    BY <1>9 DEF UnregisterFailed, CoreUseWithout
  <2> QED
    BY <2>2, <2>5, <2>6
<1>10. CASE JoinFailed
  BY <1>10 DEF JoinFailed, Join, Forget
<1>11. CASE WaitForWorkersIdle
  BY <1>11 DEF WaitForWorkersIdle, CallBarrier, WaitForAll
<1>12. CASE WakeupWorkers \/ WakeupAndWait
  BY <1>12 DEF WakeupWorkers, WakeupAndWait, Wakeup, ReleaseBody
<1>13. CASE CallReturns
  BY <1>13 DEF CallReturns
<1>14. CASE Destroy
  BY <1>14 DEF Destroy, CallBarrier, WaitForAll
<1>15. CASE StopPool
  BY <1>15 DEF StopPool
<1>16. CASE DestroyRelease
  BY <1>16 DEF DestroyRelease, CallBarrier, ReleaseBody
<1>17. ASSUME NEW w \in Workers, DestroyWorker(w)
      PROVE  CoreTypes'
  BY <1>17 DEF DestroyWorker, Join, Forget
<1>18. CASE DestroyBarrier
  BY <1>18 DEF DestroyBarrier, AllJoined
<1>19. CASE InBarrierCall
  BY <1>19 DEF InBarrierCall, Check, PostOne, ReleaseDone, Releasing
<1>20. CASE SpuriousReturn
  BY <1>20 DEF SpuriousReturn, SpuriousWake
<1>21. ASSUME NEW w \in Workers, ThreadStarts(w)
      PROVE  CoreTypes'
  BY <1>21 DEF ThreadStarts
<1>22. ASSUME NEW w \in Workers, Halts(w)
      PROVE  CoreTypes'
  BY <1>22 DEF Halts, ThreadMoves, Arrive, SignalOne, Sleepers
<1>23. ASSUME NEW w \in Workers, Wakes(w)
      PROVE  CoreTypes'
  BY <1>23 DEF Wakes, ThreadMoves, SemWait
<1>24. ASSUME NEW w \in Workers, CallbackStarts(w)
      PROVE  CoreTypes'
  BY <1>24 DEF CallbackStarts, ThreadMoves
<1>25. ASSUME NEW w \in Workers, CallbackReturns(w)
      PROVE  CoreTypes'
  BY <1>25 DEF CallbackReturns, ThreadMoves
<1>26. ASSUME NEW w \in Workers, Exits(w)
      PROVE  CoreTypes'
  BY <1>26 DEF Exits, ThreadMoves, Detach
<1> QED
  BY <1>0, <1>1, <1>2, <1>3, <1>4, <1>5, <1>6, <1>7, <1>8, <1>9, <1>10,
     <1>11, <1>12, <1>13, <1>14, <1>15, <1>16, <1>17, <1>18, <1>19, <1>20,
     <1>21, <1>22, <1>23, <1>24, <1>25, <1>26, PickCoreIsACore
     DEF Next, ClientCall, HostStep, ThreadStep, Terminated

\* The barrier keeps its types whether or not its contract is kept.
LEMMA BarrierTypeStep == PoolShape /\ [Next]_vars => BarrierTypeOK'
<1> SUFFICES ASSUME PoolShape, [Next]_vars
             PROVE  BarrierTypeOK'
  OBVIOUS
<1>0. PoolTypeOK
  BY DEF PoolShape
<1>p. BarrierTypeOK /\ noWorkers \in Nat
  BY <1>0 DEF PoolTypeOK
<1> USE <1>p, OneHost, NextSemFacts DEF barrierVars, hostVars, threadVars, BarrierTypeOK, Places, Calls
<1>1. CASE UNCHANGED vars
  BY <1>1 DEF vars
<1>2. ASSUME NEW w \in Workers, NEW core \in Cores, AddWorker(w, core)
      PROVE  BarrierTypeOK'
  BY <1>2 DEF AddWorker, SetNoThreads, OneMoreWorker
<1>3. CASE RunFails
  BY <1>3 DEF RunFails, SetNoThreads
<1>4. CASE RunSucceeds
  BY <1>4 DEF RunSucceeds, Attach
<1>5. CASE SettleWorkers
  BY <1>5 DEF SettleWorkers, CallBarrier, WaitForAll
<1>6. CASE WorkerAdded
  BY <1>6 DEF WorkerAdded
<1>7. CASE StopFailedWorker
  BY <1>7 DEF StopFailedWorker
<1>8. CASE StopRelease
  BY <1>8 DEF StopRelease, CallBarrier, ReleaseBody, PostsOfRelease
<1>9. CASE UnregisterFailed
  <2>1. pc = "stopping" /\ adding \in workers /\ workers \in SUBSET Workers
    BY <1>9 DEF UnregisterFailed, HostGoes, PoolShape, PoolTypeOK, AddingMatches
  <2>2. noWorkers = Cardinality(workers)
    BY <2>1 DEF PoolShape, CountsMatch, Registered, Leaving
  <2>3. Cardinality(workers) \in Nat /\ Cardinality(workers) # 0
    BY <2>1, WorkersFinite, FS_EmptySet
  <2>4. noWorkers - 1 \in Nat
    BY <2>2, <2>3
  <2> QED
    BY <1>9, <2>4 DEF UnregisterFailed, SetNoThreads
<1>10. CASE JoinFailed
  BY <1>10 DEF JoinFailed, Join, Forget
<1>11. CASE WaitForWorkersIdle
  BY <1>11 DEF WaitForWorkersIdle, CallBarrier, WaitForAll
<1>12. CASE WakeupWorkers \/ WakeupAndWait
  BY <1>12 DEF WakeupWorkers, WakeupAndWait, Wakeup, ReleaseBody, PostsOfRelease
<1>13. CASE CallReturns
  BY <1>13 DEF CallReturns
<1>14. CASE Destroy
  BY <1>14 DEF Destroy, CallBarrier, WaitForAll
<1>15. CASE StopPool
  BY <1>15 DEF StopPool
<1>16. CASE DestroyRelease
  BY <1>16 DEF DestroyRelease, CallBarrier, ReleaseBody, PostsOfRelease
<1>17. ASSUME NEW w \in Workers, DestroyWorker(w)
      PROVE  BarrierTypeOK'
  BY <1>17 DEF DestroyWorker, Join, Forget
<1>18. CASE DestroyBarrier
  BY <1>18 DEF DestroyBarrier, AllJoined
<1>19. CASE InBarrierCall
  BY <1>19 DEF InBarrierCall, Check, PostOne, ReleaseDone, PrevSem
<1>20. CASE SpuriousReturn
  BY <1>20 DEF SpuriousReturn, SpuriousWake
<1>21. ASSUME NEW w \in Workers, ThreadStarts(w)
      PROVE  BarrierTypeOK'
  BY <1>21 DEF ThreadStarts
<1>22. ASSUME NEW w \in Workers, Halts(w)
      PROVE  BarrierTypeOK'
  BY <1>22 DEF Halts, Arrive, SignalOne
<1>23. ASSUME NEW w \in Workers, Wakes(w)
      PROVE  BarrierTypeOK'
  BY <1>23 DEF Wakes, SemWait, TokenFor
<1>24. ASSUME NEW w \in Workers, CallbackStarts(w)
      PROVE  BarrierTypeOK'
  BY <1>24 DEF CallbackStarts, ThreadMoves
<1>25. ASSUME NEW w \in Workers, CallbackReturns(w)
      PROVE  BarrierTypeOK'
  BY <1>25 DEF CallbackReturns, ThreadMoves
<1>26. ASSUME NEW w \in Workers, Exits(w)
      PROVE  BarrierTypeOK'
  BY <1>26 DEF Exits, ThreadMoves, Detach
<1> QED
  BY <1>0, <1>1, <1>2, <1>3, <1>4, <1>5, <1>6, <1>7, <1>8, <1>9, <1>10,
     <1>11, <1>12, <1>13, <1>14, <1>15, <1>16, <1>17, <1>18, <1>19, <1>20,
     <1>21, <1>22, <1>23, <1>24, <1>25, <1>26, PickCoreIsACore
     DEF Next, ClientCall, HostStep, ThreadStep, Terminated

\* A pool that is being destroyed does not count its workers any more.
LEMMA LeavingKeepsCount ==
    ASSUME [Next]_vars, pc' \in Leaving
    PROVE  noWorkers' = noWorkers
<1> USE DEF hostVars, HostGoes, Leaving
<1>1. CASE ClientCall
  BY <1>1 DEF ClientCall, AddWorker, WaitForWorkersIdle, WakeupWorkers, WakeupAndWait,
              Wakeup, Destroy, CallBarrier
<1>2. CASE HostStep
  BY <1>2 DEF HostStep, RunFails, RunSucceeds, SettleWorkers, WorkerAdded, StopFailedWorker,
              StopRelease, UnregisterFailed, JoinFailed, CallReturns, StopPool,
              DestroyRelease, DestroyWorker, DestroyBarrier, InBarrierCall, CallBarrier
<1>3. CASE SpuriousReturn \/ (\E w \in Workers : ThreadStep(w)) \/ UNCHANGED vars
  BY <1>3 DEF SpuriousReturn, ThreadStep, ThreadStarts, Halts, Wakes, CallbackStarts,
              CallbackReturns, Exits, ThreadMoves, vars
<1> QED
  BY <1>1, <1>2, <1>3 DEF Next, Terminated

\* The number of workers stays in range as long as it counts them, and does
\* not change after that.
LEMMA PoolTypeStep == PoolShape /\ [Next]_vars => PoolTypeOK'
<1> SUFFICES ASSUME PoolShape, [Next]_vars
             PROVE  PoolTypeOK'
  OBVIOUS
<1>1. BarrierTypeOK'
  BY BarrierTypeStep
<1>2. ThreadTypes' /\ FlagTypes' /\ CoreTypes'
  BY ThreadTypesStep, FlagTypesStep, CoreTypesStep
<1>3. OwnsThreads' /\ AddingMatches' /\ FlagsMatch' /\ CountsMatch'
  BY OwnsStep, AddingStep, FlagsStep, CountsStep
<1>4. workers' \subseteq Workers
  BY <1>3 DEF OwnsThreads
<1>5. stopped' \subseteq workers'
  BY <1>3 DEF FlagsMatch, AddingMatches
<1>6. noWorkers' \in 0..Cardinality(Workers)
  <2>1. CASE pc' \notin Leaving
    <3>1. Registered' \in SUBSET Workers
      BY <1>4 DEF Registered
    <3>2. noWorkers' = Cardinality(Registered')
      BY <1>3, <2>1 DEF CountsMatch
    <3> QED
      BY <3>1, <3>2, WorkersFinite
  <2>2. CASE pc' \in Leaving
    <3>1. noWorkers' = noWorkers
      BY <2>2, LeavingKeepsCount
    <3> QED
      BY <3>1 DEF PoolShape, PoolTypeOK
  <2> QED
    BY <2>1, <2>2
<1> QED
  BY <1>1, <1>2, <1>4, <1>5, <1>6 DEF PoolTypeOK, ThreadTypes, FlagTypes, CoreTypes

-----------------------------------------------------------------------------
\* A new pool has no workers, and all its cores are unused.
LEMMA PoolInitInv == Init => PoolInv
<1> SUFFICES ASSUME Init PROVE PoolInv
  OBVIOUS
<1> USE DEF Init
<1>1. BarrierInv /\ BarrierTypeOK
  BY InitInv DEF BarrierInv
<1>2. at = [w \in Workers |-> "absent"] /\ noThreads = 0 /\ ctl[Host] = "out"
  BY OneHost DEF BarrierInit
<1>3. Cardinality({}) = 0 /\ 0 \in 0..Cardinality(Workers)
  BY FS_EmptySet, WorkersFinite
<1>4. coreUse \in [Cores -> Nat] /\ failedRuns = coreUse /\ coreOf \in [Workers -> Cores]
  BY PoolAssumption DEF BuildCoreList, Cores
<1>5. PoolTypeOK
  BY <1>1, <1>3, <1>4 DEF PoolTypeOK, HostPoints, ThreadPoints
<1>6. PlacesMatch /\ OwnsThreads /\ CallsMatch /\ AddingMatches /\ IdleWhenKnown
  BY <1>2 DEF PlacesMatch, OwnsThreads, CallsMatch, AddingMatches, IdleWhenKnown, Idle, Back
<1>7. FlagsMatch
  BY DEF FlagsMatch, Leaving
<1>8. CountsMatch
  BY <1>2, <1>3 DEF CountsMatch, Registered
<1>9. CoresMatch
  <2> SUFFICES ASSUME NEW c \in Cores
               PROVE  coreUse[c] = Cardinality(CountedOn(c)) + failedRuns[c]
    BY DEF CoresMatch
  <2>1. CountedOn(c) = {}
    BY DEF CountedOn, OnACore, Registered
  <2> QED
    BY <1>3, <2>1 DEF BuildCoreList
<1> QED
  BY <1>1, <1>5, <1>6, <1>7, <1>8, <1>9 DEF PoolInv, PoolShape

\* The shape of the pool does not depend on what the client does.
LEMMA ShapeInvariance == Spec => []PoolShape
<1>1. Init => PoolShape
  BY PoolInitInv DEF PoolInv
<1>2. PoolShape /\ [Next]_vars => PoolShape'
  BY PoolTypeStep, PlacesStep, OwnsStep, CountsStep, CallsStep, AddingStep, FlagsStep,
     CoresStep DEF PoolShape
<1> QED
  BY <1>1, <1>2, PTL DEF Spec

\* The rest holds in every state of a pool whose client is prudent.
LEMMA PoolInvariance == Prudent /\ Spec => []PoolInv
<1> SUFFICES ASSUME Prudent PROVE Spec => []PoolInv
  OBVIOUS
<1>1. PoolInv /\ [Next]_vars /\ PoolShape' => PoolInv'
  BY BarrierStep, TypeStep, TokensStep, PostsStep, IdleStep DEF PoolInv, BarrierInv
<1> QED
  BY <1>1, PoolInitInv, ShapeInvariance, PTL DEF Spec

-----------------------------------------------------------------------------
\* The state of the pool stays well formed: the flags of a worker do not
\* outlive its WorkerThread and the count of the workers stays in range.
THEOREM PoolTypeCorrect == Spec => []PoolTypeOK
<1>1. PoolShape => PoolTypeOK
  BY DEF PoolShape
<1> QED
  BY <1>1, ShapeInvariance, PTL

\* When wait_for_workers_idle, wakeup_and_wait or add_worker has returned and
\* the client knows the workers to be idle, all are halted where the next
\* wakeup releases them.
THEOREM IdleMeansIdleHolds == Prudent /\ Spec => []IdleMeansIdle
<1>1. PoolInv => IdleMeansIdle
  <2> SUFFICES ASSUME PoolInv, pc = "client", idleKnown
               PROVE  Idle /\ onBarrier = noWorkers
    BY DEF IdleMeansIdle, Idle
  <2>1. Idle
    BY DEF PoolInv, IdleWhenKnown
  <2> QED
    BY <2>1, IdleIsFull DEF Leaving
<1> QED
  BY <1>1, PoolInvariance, PTL

\* Every thread belongs to a WorkerThread of a pool that still exists.
THEOREM ThreadsAreOwnedHolds == Spec => []ThreadsAreOwned
<1>1. PoolShape => ThreadsAreOwned
  BY DEF PoolShape, OwnsThreads, ThreadsAreOwned
<1> QED
  BY <1>1, ShapeInvariance, PTL

\* core_info() between calls is the number of workers on each core on which no
\* run() has failed.
THEOREM CoreInfoIsExactHolds == Spec => []CoreInfoIsExact
<1>1. PoolShape => CoreInfoIsExact
  <2> SUFFICES ASSUME PoolShape, pc = "client", NEW c \in Cores, failedRuns[c] = 0
               PROVE  coreUse[c] = OnCore(c)
    BY DEF CoreInfoIsExact
  <2>1. CountedOn(c) = {w \in workers : coreOf[w] = c}
    BY DEF CountedOn, OnACore, Registered
  <2>2. coreUse[c] = OnCore(c) + 0
    BY <2>1 DEF PoolShape, CoresMatch, Leaving, OnCore
  <2>3. OnCore(c) \in Nat
    BY FS_Subset, FS_CardinalityType, WorkersFinite DEF PoolShape, PoolTypeOK, OnCore
  <2> QED
    BY <2>2, <2>3
<1> QED
  BY <1>1, ShapeInvariance, PTL

\* release_all asserts that all threads of the barrier are halted on it.  The
\* active semaphore changes in a release and nowhere else.
THEOREM AssertionHoldsHolds == Prudent /\ Spec => AssertionHolds
<1>1. PoolInv /\ [Next]_vars => [active' # active => ReleaseAssertion]_vars
  <2> SUFFICES ASSUME PoolInv, [Next]_vars, active' # active
               PROVE  ReleaseAssertion
    OBVIOUS
  <2>1. BarrierNext
    BY BarrierStep DEF barrierVars
  <2>2. ASSUME NEW w \in Workers, WorkerStep(w) PROVE FALSE
    BY <2>2 DEF WorkerStep, Attach, Detach, Arrive, SemWait
  <2>3. ASSUME NEW c \in Controllers, ControllerStep(c) PROVE ReleaseAssertion
    BY <2>3 DEF ControllerStep, SetNoThreads, WaitForAll, Check, SpuriousWake, Release,
                PostOne, ReleaseDone, ReleaseContract
  <2> QED
    BY <2>1, <2>2, <2>3 DEF BarrierNext
<1> QED
  BY <1>1, PoolInvariance, PTL DEF Spec, AssertionHolds

\* The pool is a caller that the barrier can rely on, so the theorems about
\* the barrier hold of the barrier in the pool.
THEOREM KeepsBarrierContractHolds == Prudent /\ Spec => KeepsBarrierContract
<1>1. Init => BarrierInit
  BY DEF Init
<1> QED
  BY <1>1, BarrierStep, PoolInvariance, PTL DEF Spec, KeepsBarrierContract, BarrierSpec

-----------------------------------------------------------------------------
\* What each worker is doing, as PoolRounds has it.
JobMap == [w \in Workers |-> RoundJob(w)]

\* A step of one worker is a step of one job.
LEMMA OneJobMoves ==
    ASSUME PoolTypeOK, NEW w \in Workers, NEW to, NEW place,
           wpc' = [wpc EXCEPT ![w] = to], at' = [at EXCEPT ![w] = place], active' = active
    PROVE  /\ JobMap[w] = RoundJob(w)
           /\ JobMap' = [JobMap EXCEPT ![w] = RoundJob(w)']
           /\ RoundJob(w)' = RoundJob(w) => JobMap' = JobMap
           /\ wpc'[w] = to /\ at'[w] = place
<1>1. wpc \in [Workers -> ThreadPoints] /\ at \in [Workers -> Places]
  BY DEF PoolTypeOK, BarrierTypeOK
<1>2. ASSUME NEW v \in Workers, v # w
      PROVE  RoundJob(v)' = RoundJob(v)
  <2>1. wpc'[v] = wpc[v] /\ at'[v] = at[v]
    BY <1>1, <1>2
  <2> QED
    BY <2>1 DEF RoundJob
<1>3. wpc'[w] = to /\ at'[w] = place
  BY <1>1
<1> QED
  BY <1>2, <1>3 DEF JobMap

\* A step that moves no thread and does not tell the host anything.
LEMMA RoundsFrame ==
    ASSUME UNCHANGED <<wpc, at, active>>
    PROVE  JobMap' = JobMap
  BY DEF JobMap, RoundJob

\* When the workers are idle so are all jobs.
LEMMA IdleJobs ==
    ASSUME PoolInv, Idle
    PROVE  \A w \in Workers :
             /\ JobMap[w] = IF w \in workers THEN "idle" ELSE "absent"
             /\ JobMap[w] \in {"absent", "idle"}
<1> SUFFICES ASSUME NEW w \in Workers
             PROVE  RoundJob(w) = IF w \in workers THEN "idle" ELSE "absent"
  BY DEF JobMap
<1>1. w \notin workers => wpc[w] = "none"
  BY DEF PoolInv, PoolShape, OwnsThreads
<1> QED
  BY <1>1 DEF Idle, RoundJob

\* The semaphores are swapped when all workers are idle: their calls are due.
LEMMA WakeIsARound ==
    ASSUME PoolInv, Idle, NEW call \in {"post", "post_wait"}, ReleaseBody(Host, call),
           wpc' = wpc
    PROVE  \E andWait \in BOOLEAN : Rounds!Wake(andWait)
<1>1. /\ ctl[Host] = "out" /\ active' = NextSem(active) /\ at' = at
      /\ ctl' = [ctl EXCEPT ![Host] = call]
  BY DEF ReleaseBody
<1>2. active \in Sems /\ ctl \in [Controllers -> Calls]
  BY DEF PoolInv, PoolShape, PoolTypeOK, BarrierTypeOK
<1>3. active' # active
  BY <1>1, <1>2, NextSemFacts
<1>4. ~RoundWaiting /\ RoundWaiting' = (call = "post_wait")
  BY <1>1, <1>2, OneHost DEF RoundWaiting
<1>5. ASSUME NEW w \in Workers
      PROVE  RoundJob(w)' = IF JobMap[w] = "idle" THEN "due" ELSE JobMap[w]
  <2>1. CASE w \in workers
    <3>1. wpc'[w] = "wait" /\ at'[w] # active'
      BY <1>1, <1>3, <2>1 DEF Idle
    <3>2. RoundJob(w)' = "due"
      BY <3>1 DEF RoundJob
    <3> QED
      BY <2>1, <3>2, IdleJobs
  <2>2. CASE w \notin workers
    <3>1. wpc'[w] = "none"
      BY <2>2 DEF PoolInv, PoolShape, OwnsThreads
    <3>2. RoundJob(w)' = "absent"
      BY <3>1 DEF RoundJob
    <3> QED
      BY <2>2, <3>2, IdleJobs
  <2> QED
    BY <2>1, <2>2
<1>6. JobMap' = [w \in Workers |-> IF JobMap[w] = "idle" THEN "due" ELSE JobMap[w]]
  BY <1>5 DEF JobMap
<1>7. Rounds!Wake(call = "post_wait")
  BY <1>4, <1>6, IdleJobs DEF Rounds!Wake, Rounds!AllIdle, JobMap
<1> QED
  BY <1>7

\* A wait of the host returns at the end of a round.
LEMMA ReturnEndsRound ==
    ASSUME PoolInv, AllHalted, ctl[Host] \in {"check", "post_wait"},
           ctl' = [ctl EXCEPT ![Host] = "out"], UNCHANGED <<wpc, at, active>>
    PROVE  Rounds!Return
<1>1. pc \in {"settling", "waiting", "dtor_wait"}
  BY DEF PoolInv, PoolShape, CallsMatch
<1>2. Idle
  BY <1>1, WaitEndsIdle
<1>3. RoundWaiting /\ RoundWaiting' = FALSE
  BY OneHost DEF RoundWaiting, PoolInv, PoolShape, PoolTypeOK, BarrierTypeOK
<1> QED
  BY <1>2, <1>3, IdleJobs, RoundsFrame DEF Rounds!Return, Rounds!AllIdle, JobMap

\* Every step of the pool is a step of a round, or does not show.
LEMMA RoundsStep ==
    PoolInv /\ [Next]_vars =>
        Rounds!Next \/ (JobMap' = JobMap /\ RoundWaiting' = RoundWaiting)
<1> DEFINE RoundStep == Rounds!Next \/ (JobMap' = JobMap /\ RoundWaiting' = RoundWaiting)
<1> SUFFICES ASSUME PoolInv, [Next]_vars
             PROVE  RoundStep
  OBVIOUS
<1>0. PoolTypeOK
  BY DEF PoolInv, PoolShape
<1>t. /\ wpc \in [Workers -> ThreadPoints] /\ at \in [Workers -> Places]
      /\ ctl \in [Controllers -> Calls]
  BY <1>0 DEF PoolTypeOK, BarrierTypeOK
<1>w. ASSUME WaitForAll(Host), wpc' = wpc
      PROVE  RoundStep
  <2>1. ~RoundWaiting /\ RoundWaiting' = TRUE
    BY <1>w, <1>t, OneHost DEF WaitForAll, RoundWaiting
  <2>2. JobMap' = JobMap
    BY <1>w, RoundsFrame DEF WaitForAll
  <2> QED
    BY <2>1, <2>2 DEF Rounds!Next, Rounds!Wait, JobMap
<1> USE DEF barrierVars, hostVars, threadVars
<1>1. CASE UNCHANGED vars
  BY <1>1, RoundsFrame DEF vars, RoundWaiting
<1>2. ASSUME NEW w \in Workers, NEW core \in Cores, AddWorker(w, core)
      PROVE  RoundStep
  <2>1. UNCHANGED <<wpc, at, active, ctl>>
    BY <1>2 DEF AddWorker, SetNoThreads
  <2> QED
    BY <2>1, RoundsFrame DEF RoundWaiting
<1>3. CASE RunFails
  <2>1. UNCHANGED <<wpc, at, active, ctl>>
    BY <1>3 DEF RunFails, SetNoThreads
  <2> QED
    BY <2>1, RoundsFrame DEF RoundWaiting
<1>4. CASE RunSucceeds
  <2>0. PICK w \in Workers : w = adding /\ wpc[w] = "none"
    BY <1>4 DEF RunSucceeds, HostGoes, PoolInv, PoolShape, AddingMatches, OwnsThreads
  <2>1. /\ wpc[w] = "none" /\ wpc' = [wpc EXCEPT ![w] = "init"]
        /\ at' = [at EXCEPT ![w] = "out"] /\ active' = active
        /\ RoundWaiting' = RoundWaiting
    BY <1>4, <2>0, <1>t DEF RunSucceeds, Attach, RoundWaiting
  <2>2. RoundJob(w) = "absent"
    BY <2>1 DEF RoundJob
  <2>3. /\ JobMap[w] = RoundJob(w)
        /\ RoundJob(w)' = RoundJob(w) => JobMap' = JobMap
        /\ JobMap' = [JobMap EXCEPT ![w] = RoundJob(w)']
        /\ wpc'[w] = "init" /\ at'[w] = "out"
    BY <1>0, <2>0, <2>1, OneJobMoves
  <2>4. RoundJob(w)' = "away"
    BY <2>1, <2>3 DEF RoundJob
  <2> QED
    BY <2>0, <2>1, <2>2, <2>3, <2>4 DEF Rounds!Next, Rounds!Join, Rounds!Move, JobMap
<1>5. CASE SettleWorkers
  <2>1. WaitForAll(Host) /\ wpc' = wpc
    BY <1>5 DEF SettleWorkers, CallBarrier
  <2> QED
    BY <1>w, <2>1
<1>6. CASE WorkerAdded
  <2>1. UNCHANGED <<wpc, at, active, ctl>>
    BY <1>6 DEF WorkerAdded
  <2> QED
    BY <2>1, RoundsFrame DEF RoundWaiting
<1>7. CASE StopFailedWorker
  <2>1. UNCHANGED <<wpc, at, active, ctl>>
    BY <1>7 DEF StopFailedWorker
  <2> QED
    BY <2>1, RoundsFrame DEF RoundWaiting
<1>8. CASE StopRelease
  <2>1. Idle
    BY <1>8, ReleasesAreDue
  <2>2. PICK call \in {"post", "post_wait"} : ReleaseBody(Host, call) /\ wpc' = wpc
    BY <1>8 DEF StopRelease, CallBarrier, threadVars
  <2> QED
    BY <2>1, <2>2, WakeIsARound DEF Rounds!Next
<1>9. CASE UnregisterFailed
  <2>1. UNCHANGED <<wpc, at, active, ctl>>
    BY <1>9 DEF UnregisterFailed, SetNoThreads
  <2> QED
    BY <2>1, RoundsFrame DEF RoundWaiting
<1>10. CASE JoinFailed
  <2>0. PICK w \in Workers : w = adding
    BY <1>10 DEF JoinFailed, HostGoes, PoolInv, PoolShape, PoolTypeOK, AddingMatches
  <2>1. /\ wpc[w] = "exited" /\ wpc' = [wpc EXCEPT ![w] = "none"]
        /\ at' = [at EXCEPT ![w] = at[w]] /\ active' = active
        /\ RoundWaiting' = RoundWaiting
    BY <1>10, <2>0, <1>t DEF JoinFailed, Join, barrierVars, RoundWaiting
  <2>2. RoundJob(w) = "absent"
    BY <2>1 DEF RoundJob
  <2>3. /\ JobMap[w] = RoundJob(w)
        /\ RoundJob(w)' = RoundJob(w) => JobMap' = JobMap
        /\ JobMap' = [JobMap EXCEPT ![w] = RoundJob(w)']
        /\ wpc'[w] = "none" /\ at'[w] = at[w]
    BY <1>0, <2>0, <2>1, OneJobMoves
  <2>4. RoundJob(w)' = "absent"
    BY <2>1, <2>3 DEF RoundJob
  <2> QED
    BY <2>1, <2>2, <2>3, <2>4
<1>11. CASE WaitForWorkersIdle
  <2>1. WaitForAll(Host) /\ wpc' = wpc
    BY <1>11 DEF WaitForWorkersIdle, CallBarrier
  <2> QED
    BY <1>w, <2>1
<1>12. CASE WakeupWorkers \/ WakeupAndWait
  <2>1. Idle
    BY <1>12, ReleasesAreDue
  <2>2. PICK call \in {"post", "post_wait"} : ReleaseBody(Host, call) /\ wpc' = wpc
    BY <1>12 DEF WakeupWorkers, WakeupAndWait, Wakeup, threadVars
  <2> QED
    BY <2>1, <2>2, WakeIsARound DEF Rounds!Next
<1>13. CASE CallReturns
  <2>1. UNCHANGED <<wpc, at, active, ctl>>
    BY <1>13 DEF CallReturns
  <2> QED
    BY <2>1, RoundsFrame DEF RoundWaiting
<1>14. CASE Destroy
  <2>1. WaitForAll(Host) /\ wpc' = wpc
    BY <1>14 DEF Destroy, CallBarrier
  <2> QED
    BY <1>w, <2>1
<1>15. CASE StopPool
  <2>1. UNCHANGED <<wpc, at, active, ctl>>
    BY <1>15 DEF StopPool
  <2> QED
    BY <2>1, RoundsFrame DEF RoundWaiting
<1>16. CASE DestroyRelease
  <2>1. Idle
    BY <1>16, ReleasesAreDue
  <2>2. PICK call \in {"post", "post_wait"} : ReleaseBody(Host, call) /\ wpc' = wpc
    BY <1>16 DEF DestroyRelease, CallBarrier, threadVars
  <2> QED
    BY <2>1, <2>2, WakeIsARound DEF Rounds!Next
<1>17. ASSUME NEW w \in Workers, DestroyWorker(w)
      PROVE  RoundStep
  <2>1. /\ wpc[w] = "exited" /\ wpc' = [wpc EXCEPT ![w] = "none"]
        /\ at' = [at EXCEPT ![w] = at[w]] /\ active' = active
        /\ RoundWaiting' = RoundWaiting
    BY <1>17, <1>t DEF DestroyWorker, Join, barrierVars, RoundWaiting
  <2>2. RoundJob(w) = "absent"
    BY <2>1 DEF RoundJob
  <2>3. /\ JobMap[w] = RoundJob(w)
        /\ RoundJob(w)' = RoundJob(w) => JobMap' = JobMap
        /\ JobMap' = [JobMap EXCEPT ![w] = RoundJob(w)']
        /\ wpc'[w] = "none" /\ at'[w] = at[w]
    BY <1>0, <2>1, OneJobMoves
  <2>4. RoundJob(w)' = "absent"
    BY <2>1, <2>3 DEF RoundJob
  <2> QED
    BY <2>1, <2>2, <2>3, <2>4
<1>18. CASE DestroyBarrier
  <2>1. UNCHANGED <<wpc, at, active, ctl>>
    BY <1>18 DEF DestroyBarrier, AllJoined
  <2> QED
    BY <2>1, RoundsFrame DEF RoundWaiting
<1>19. CASE InBarrierCall
  <2>0. UNCHANGED <<wpc, at, active>>
    BY <1>19 DEF InBarrierCall, Check, PostOne, ReleaseDone, threadVars
  <2>1. CASE Check(Host)
    <3>1. CASE AllHalted
      BY <2>0, <2>1, <3>1, ReturnEndsRound DEF Check, Rounds!Next
    <3>2. CASE ~AllHalted
      BY <2>0, <2>1, <3>2, <1>t, OneHost, RoundsFrame DEF Check, RoundWaiting
    <3> QED
      BY <3>1, <3>2
  <2>2. CASE PostOne(Host)
    BY <2>0, <2>2, RoundsFrame DEF PostOne, RoundWaiting
  <2>3. CASE ReleaseDone(Host)
    <3>1. CASE AllHalted /\ ctl[Host] = "post_wait"
      BY <2>0, <2>3, <3>1, ReturnEndsRound DEF ReleaseDone, Rounds!Next
    <3>2. CASE ~AllHalted /\ ctl[Host] = "post_wait"
      BY <2>0, <2>3, <3>2, <1>t, OneHost, RoundsFrame DEF ReleaseDone, RoundWaiting
    <3>3. CASE ctl[Host] = "post"
      BY <2>0, <2>3, <3>3, <1>t, OneHost, RoundsFrame DEF ReleaseDone, RoundWaiting
    <3> QED
      BY <2>3, <3>1, <3>2, <3>3 DEF ReleaseDone, Releasing
  <2> QED
    BY <1>19, <2>1, <2>2, <2>3 DEF InBarrierCall
<1>20. CASE SpuriousReturn
  <2>1. UNCHANGED <<wpc, at, active>> /\ RoundWaiting' = RoundWaiting
    BY <1>20, <1>t, OneHost DEF SpuriousReturn, SpuriousWake, RoundWaiting
  <2> QED
    BY <2>1, RoundsFrame
<1>21. ASSUME NEW w \in Workers, ThreadStarts(w)
      PROVE  RoundStep
  <2>1. /\ wpc[w] = "init" /\ wpc' = [wpc EXCEPT ![w] = "ready"]
        /\ at' = [at EXCEPT ![w] = at[w]] /\ active' = active
        /\ RoundWaiting' = RoundWaiting
    BY <1>21, <1>t DEF ThreadStarts, barrierVars, RoundWaiting
  <2>2. RoundJob(w) = "away"
    BY <2>1 DEF RoundJob
  <2>3. /\ JobMap[w] = RoundJob(w)
        /\ RoundJob(w)' = RoundJob(w) => JobMap' = JobMap
        /\ JobMap' = [JobMap EXCEPT ![w] = RoundJob(w)']
        /\ wpc'[w] = "ready" /\ at'[w] = at[w]
    BY <1>0, <2>1, OneJobMoves
  <2>4. RoundJob(w)' = "away"
    BY <2>1, <2>3 DEF RoundJob
  <2> QED
    BY <2>1, <2>2, <2>3, <2>4
<1>22. ASSUME NEW w \in Workers, Halts(w)
      PROVE  RoundStep
  <2>0. RoundWaiting' = RoundWaiting
    <3>1. Arrive(w)
      BY <1>22 DEF Halts
    <3>2. CASE ctl' = ctl
      BY <3>2 DEF RoundWaiting
    <3>3. CASE \E c \in Sleepers : ctl' = [ctl EXCEPT ![c] = "check"]
      BY <3>3, <1>t, OneHost DEF Sleepers, RoundWaiting
    <3> QED
      BY <3>1, <3>2, <3>3 DEF Arrive, SignalOne
  <2>1. /\ wpc[w] = "ready" /\ wpc' = [wpc EXCEPT ![w] = "wait"]
        /\ at' = [at EXCEPT ![w] = active] /\ active' = active
        /\ RoundWaiting' = RoundWaiting
    BY <1>22, <2>0, <1>t DEF Halts, ThreadMoves, Arrive
  <2>2. RoundJob(w) = "away"
    BY <2>1 DEF RoundJob
  <2>3. /\ JobMap[w] = RoundJob(w)
        /\ RoundJob(w)' = RoundJob(w) => JobMap' = JobMap
        /\ JobMap' = [JobMap EXCEPT ![w] = RoundJob(w)']
        /\ wpc'[w] = "wait" /\ at'[w] = active
    BY <1>0, <2>1, OneJobMoves
  <2>4. RoundJob(w)' = "idle"
    BY <2>1, <2>3 DEF RoundJob
  <2> QED
    BY <2>1, <2>2, <2>3, <2>4 DEF Rounds!Next, Rounds!Halt, Rounds!Move, JobMap
<1>23. ASSUME NEW w \in Workers, Wakes(w)
      PROVE  RoundStep
  <2>0. at[w] # active
    BY <1>23 DEF Wakes, SemWait, TokenFor, PoolInv, BarrierInv, TokensMatchThreads
  <2>1. /\ wpc[w] = "wait" /\ wpc' = [wpc EXCEPT ![w] = "woken"]
        /\ at' = [at EXCEPT ![w] = "out"] /\ active' = active
        /\ RoundWaiting' = RoundWaiting
    BY <1>23, <1>t DEF Wakes, ThreadMoves, SemWait, RoundWaiting
  <2>2. RoundJob(w) = "due"
    BY <2>1, <2>0 DEF RoundJob
  <2>3. /\ JobMap[w] = RoundJob(w)
        /\ RoundJob(w)' = RoundJob(w) => JobMap' = JobMap
        /\ JobMap' = [JobMap EXCEPT ![w] = RoundJob(w)']
        /\ wpc'[w] = "woken" /\ at'[w] = "out"
    BY <1>0, <2>1, OneJobMoves
  <2>4. RoundJob(w)' = "due"
    BY <2>1, <2>3 DEF RoundJob
  <2> QED
    BY <2>1, <2>2, <2>3, <2>4
<1>24. ASSUME NEW w \in Workers, CallbackStarts(w)
      PROVE  RoundStep
  <2>1. /\ wpc[w] = "woken" /\ wpc' = [wpc EXCEPT ![w] = "callback"]
        /\ at' = [at EXCEPT ![w] = at[w]] /\ active' = active
        /\ RoundWaiting' = RoundWaiting
    BY <1>24, <1>t DEF CallbackStarts, ThreadMoves, barrierVars, RoundWaiting
  <2>2. RoundJob(w) = "due"
    BY <2>1 DEF RoundJob
  <2>3. /\ JobMap[w] = RoundJob(w)
        /\ RoundJob(w)' = RoundJob(w) => JobMap' = JobMap
        /\ JobMap' = [JobMap EXCEPT ![w] = RoundJob(w)']
        /\ wpc'[w] = "callback" /\ at'[w] = at[w]
    BY <1>0, <2>1, OneJobMoves
  <2>4. RoundJob(w)' = "running"
    BY <2>1, <2>3 DEF RoundJob
  <2> QED
    BY <2>1, <2>2, <2>3, <2>4 DEF Rounds!Next, Rounds!Start, Rounds!Move, JobMap
<1>25. ASSUME NEW w \in Workers, CallbackReturns(w)
      PROVE  RoundStep
  <2>1. /\ wpc[w] = "callback" /\ wpc' = [wpc EXCEPT ![w] = "ready"]
        /\ at' = [at EXCEPT ![w] = at[w]] /\ active' = active
        /\ RoundWaiting' = RoundWaiting
    BY <1>25, <1>t DEF CallbackReturns, ThreadMoves, barrierVars, RoundWaiting
  <2>2. RoundJob(w) = "running"
    BY <2>1 DEF RoundJob
  <2>3. /\ JobMap[w] = RoundJob(w)
        /\ RoundJob(w)' = RoundJob(w) => JobMap' = JobMap
        /\ JobMap' = [JobMap EXCEPT ![w] = RoundJob(w)']
        /\ wpc'[w] = "ready" /\ at'[w] = at[w]
    BY <1>0, <2>1, OneJobMoves
  <2>4. RoundJob(w)' = "away"
    BY <2>1, <2>3 DEF RoundJob
  <2> QED
    BY <2>1, <2>2, <2>3, <2>4 DEF Rounds!Next, Rounds!Finish, Rounds!Move, JobMap
<1>26. ASSUME NEW w \in Workers, Exits(w)
      PROVE  RoundStep
  <2>1. /\ wpc[w] = "woken" /\ wpc' = [wpc EXCEPT ![w] = "exited"]
        /\ at' = [at EXCEPT ![w] = "absent"] /\ active' = active
        /\ RoundWaiting' = RoundWaiting
    BY <1>26, <1>t DEF Exits, ThreadMoves, Detach, RoundWaiting
  <2>2. RoundJob(w) = "due"
    BY <2>1 DEF RoundJob
  <2>3. /\ JobMap[w] = RoundJob(w)
        /\ RoundJob(w)' = RoundJob(w) => JobMap' = JobMap
        /\ JobMap' = [JobMap EXCEPT ![w] = RoundJob(w)']
        /\ wpc'[w] = "exited" /\ at'[w] = "absent"
    BY <1>0, <2>1, OneJobMoves
  <2>4. RoundJob(w)' = "absent"
    BY <2>1, <2>3 DEF RoundJob
  <2> QED
    BY <2>1, <2>2, <2>3, <2>4 DEF Rounds!Next, Rounds!Leave, Rounds!Move, JobMap
<1> QED
  BY <1>0, <1>1, <1>2, <1>3, <1>4, <1>5, <1>6, <1>7, <1>8, <1>9, <1>10,
     <1>11, <1>12, <1>13, <1>14, <1>15, <1>16, <1>17, <1>18, <1>19, <1>20,
     <1>21, <1>22, <1>23, <1>24, <1>25, <1>26, PickCoreIsACore
     DEF Next, ClientCall, HostStep, ThreadStep, Terminated

\* The pool runs its callbacks in rounds: a wakeup makes one call due for
\* every worker, and a wait returns when all calls that were due have
\* returned.
THEOREM RunsInRoundsHolds == Prudent /\ Spec => RunsInRounds
<1>1. Init => Rounds!Init
  <2> SUFFICES ASSUME Init PROVE Rounds!Init
    OBVIOUS
  <2>1. JobMap = [w \in Workers |-> "absent"]
    BY DEF Init, JobMap, RoundJob
  <2>2. RoundWaiting = FALSE
    BY OneHost DEF Init, BarrierInit, RoundWaiting
  <2> QED
    BY <2>1, <2>2 DEF Rounds!Init, JobMap
<1>2. PoolInv /\ [Next]_vars => [Rounds!Next]_Rounds!roundVars
  BY RoundsStep DEF Rounds!roundVars, JobMap
<1> QED
  BY <1>1, <1>2, PoolInvariance, PTL DEF Spec, RunsInRounds, Rounds!Spec
=============================================================================

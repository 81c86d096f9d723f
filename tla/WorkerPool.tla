----------------------------- MODULE WorkerPool -----------------------------
(***************************************************************************)
(* WorkerPoolImpl and WorkerThread of                                      *)
(* src/src/worker_pool_implementation.h, on top of the barrier they share  *)
(* (Barrier.tla).  One host thread adds workers, wakes them, waits for     *)
(* them and destroys the pool; each worker halts on the barrier, runs its  *)
(* callback when it is released, and comes back.                           *)
(*                                                                         *)
(* A step of the pool is a step of the barrier together with what it means *)
(* to the pool, or a step of the pool alone.  pc says where the host is in *)
(* a call, ctl[Host] where it is in the barrier call made there.           *)
(***************************************************************************)
EXTENDS Barrier

CONSTANTS
    Host,            \* the thread that owns the pool
    NoThread,        \* not a thread
    NumCores,        \* cores argument of the pool
    Requests,        \* values of cpu_id the client passes, see AnyCpu
    RunMayFail,      \* may WorkerThread::run return an error
    InitMayFail,     \* may a thread find its _status set when it starts
    TrustFailedAdd,  \* does the client take a failed add_worker as no change
    MaxCoreUse       \* bound on the leaked use of a core

Cores == 0..(NumCores - 1)

\* cpu_id not given
AnyCpu == -1

ASSUME PoolAssumption ==
    /\ Controllers = {Host}
    /\ NoThread \notin Workers
    /\ NumCores \in Nat \ {0}
    /\ Requests \subseteq Cores \cup {AnyCpu}
    /\ {RunMayFail, InitMayFail, TrustFailedAdd} \subseteq BOOLEAN
    /\ MaxCoreUse \in Nat

VARIABLES
    pc,         \* where the host is in its call, "client" between calls
    noWorkers,  \* _no_workers
    workers,    \* the threads whose WorkerThread is in _workers
    running,    \* _running of the pool
    adding,     \* the worker that add_worker is adding
    wpc,        \* where each worker thread is, "none" if there is no thread
    stopped,    \* the workers whose _thread_running is false
    failed,     \* the workers whose _status is not OK
    coreUse,    \* CpuInfo::workers of each core
    coreOf,     \* the core a worker was last given
    failedRuns, \* history: the calls of run() that failed on each core
    idleKnown   \* the client knows that no worker is running

hostVars == <<pc, noWorkers, workers, running, adding, stopped, coreUse,
              coreOf, failedRuns, idleKnown>>
threadVars == <<wpc, failed>>
vars == <<barrierVars, hostVars, threadVars>>

HostPoints == {"client", "run", "settle", "settling", "stop", "stopping",
               "join", "waiting", "waking", "dtor_wait", "dtor_release",
               "dtor_join", "destroyed"}
ThreadPoints == {"none", "init", "ready", "wait", "woken", "callback", "exited"}

-----------------------------------------------------------------------------
\* The host is not in a call of the barrier.
Back == ctl[Host] = "out"

HostGoes(from, to) ==
    /\ pc = from
    /\ Back
    /\ pc' = to

\* Mutants: the count of the barrier is not raised; the core of a failed
\* worker is not given back; the barrier is the last member; the status
\* outlives the worker; a thread looks at the flag of the pool only; the count
\* is not restored when run fails.
NotYetAdded == noWorkers
CoreUseKept(w) == coreUse
BarrierGoesFirst == TRUE
ForgetFlag(w) == stopped' = stopped \ {w} /\ UNCHANGED failed
PoolFlagOnly(w) == ~running
RunFailsNoReset ==
    /\ RunMayFail
    /\ HostGoes("run", "client")
    /\ failedRuns' = [failedRuns EXCEPT ![coreOf[adding]] = @ + 1]
    /\ adding' = NoThread
    /\ UNCHANGED <<barrierVars, noWorkers, workers, running, stopped, coreUse,
                   coreOf, idleKnown, threadVars>>

\* build_core_list(0, cores)
BuildCoreList == [c \in Cores |-> 0]

\* std::min_element on the use of the cores: the first of the least used.
FirstLeastUsed ==
    CHOOSE c \in Cores : \A d \in Cores :
        coreUse[c] < coreUse[d] \/ (coreUse[c] = coreUse[d] /\ c <= d)

\* A cpu_id that is not in the list makes add_worker return at once.
PickCore(request) == IF request = AnyCpu THEN FirstLeastUsed ELSE request

\* What the barrier is set to while a worker is being added.
OneMoreWorker == noWorkers + 1

\* core_info->workers-- of a failed worker
CoreUseWithout(w) == [coreUse EXCEPT ![coreOf[w]] = @ - 1]

\* The members of the pool are destroyed in reverse order of declaration: all
\* workers are joined before the barrier goes.
AllJoined == workers = {}

-----------------------------------------------------------------------------
Init ==
    /\ BarrierInit
    /\ pc = "client"
    /\ noWorkers = 0
    /\ workers = {}
    /\ running = TRUE
    /\ adding = NoThread
    /\ wpc = [w \in Workers |-> "none"]
    /\ stopped = {}
    /\ failed = {}
    /\ coreUse = BuildCoreList
    /\ coreOf = [w \in Workers |-> 0]
    /\ failedRuns = BuildCoreList
    /\ idleKnown = TRUE

\* add_worker up to the call of run: the barrier expects one more thread.
AddWorker(w, core) ==
    /\ HostGoes("client", "run")
    /\ wpc[w] = "none"
    /\ coreUse[core] < MaxCoreUse
    /\ SetNoThreads(Host, OneMoreWorker)
    /\ coreUse' = [coreUse EXCEPT ![core] = @ + 1]
    /\ coreOf' = [coreOf EXCEPT ![w] = core]
    /\ adding' = w
    /\ UNCHANGED <<noWorkers, workers, running, stopped, failedRuns, idleKnown,
                   threadVars>>

\* run refuses the priority, or the thread cannot be created.  The barrier is
\* set back but the core is not given back.  The WorkerThread is destroyed with
\* the call; should the failed pthread_create have left something in
\* _thread_handle, ~WorkerThread joins it, and that join, which POSIX does not
\* define, is taken to return at once.
RunFails ==
    /\ RunMayFail
    /\ HostGoes("run", "client")
    /\ SetNoThreads(Host, noWorkers)
    /\ failedRuns' = [failedRuns EXCEPT ![coreOf[adding]] = @ + 1]
    /\ adding' = NoThread
    /\ UNCHANGED <<noWorkers, workers, running, stopped, coreUse, coreOf,
                   idleKnown, threadVars>>

RunSucceeds ==
    /\ HostGoes("run", "settle")
    /\ Attach(adding)
    /\ wpc' = [wpc EXCEPT ![adding] = "init"]
    /\ noWorkers' = noWorkers + 1
    /\ workers' = workers \cup {adding}
    /\ UNCHANGED <<running, adding, stopped, failed, coreUse, coreOf, failedRuns,
                   idleKnown>>

\* The barrier calls of the host that change nothing else in the pool.
CallBarrier(from, to, Call) ==
    /\ HostGoes(from, to)
    /\ Call
    /\ UNCHANGED <<noWorkers, workers, running, adding, stopped, coreUse,
                   coreOf, failedRuns, idleKnown, threadVars>>

SettleWorkers == CallBarrier("settle", "settling", WaitForAll(Host))

WorkerAdded ==
    /\ HostGoes("settling", "client")
    /\ adding \notin failed
    /\ adding' = NoThread
    /\ idleKnown' = TRUE
    /\ UNCHANGED <<barrierVars, noWorkers, workers, running, stopped, coreUse,
                   coreOf, failedRuns, threadVars>>

\* _stop_thread: only this thread ends, but all are released.
StopFailedWorker ==
    /\ HostGoes("settling", "stop")
    /\ adding \in failed
    /\ stopped' = stopped \cup {adding}
    /\ UNCHANGED <<barrierVars, noWorkers, workers, running, adding, coreUse,
                   coreOf, failedRuns, idleKnown, threadVars>>

StopRelease == CallBarrier("stop", "stopping", ReleaseBody(Host, "post"))

UnregisterFailed ==
    /\ HostGoes("stopping", "join")
    /\ noWorkers' = noWorkers - 1
    /\ SetNoThreads(Host, noWorkers - 1)
    /\ coreUse' = CoreUseWithout(adding)
    /\ UNCHANGED <<workers, running, adding, stopped, coreOf, failedRuns,
                   idleKnown, threadVars>>

\* The flags of a worker go with its WorkerThread.
Forget(w) == stopped' = stopped \ {w} /\ failed' = failed \ {w}

\* _workers.pop_back(): ~WorkerThread joins the thread.
Join(w) ==
    /\ wpc[w] = "exited"
    /\ wpc' = [wpc EXCEPT ![w] = "none"]
    /\ workers' = workers \ {w}
    /\ Forget(w)

JoinFailed ==
    /\ HostGoes("join", "client")
    /\ Join(adding)
    /\ adding' = NoThread
    /\ idleKnown' = (idleKnown /\ TrustFailedAdd)
    /\ UNCHANGED <<barrierVars, noWorkers, running, coreUse, coreOf, failedRuns>>

WaitForWorkersIdle == CallBarrier("client", "waiting", WaitForAll(Host))

\* The client wakes the workers only when it knows them to be idle.
Wakeup(call, to) ==
    /\ HostGoes("client", to)
    /\ idleKnown
    /\ ReleaseBody(Host, call)
    /\ idleKnown' = FALSE
    /\ UNCHANGED <<noWorkers, workers, running, adding, stopped, coreUse,
                   coreOf, failedRuns, threadVars>>

WakeupWorkers == Wakeup("post", "waking")

WakeupAndWait == Wakeup("post_wait", "waiting")

CallReturns ==
    /\ \/ HostGoes("waking", "client") /\ UNCHANGED idleKnown
       \/ HostGoes("waiting", "client") /\ idleKnown' = TRUE
    /\ UNCHANGED <<barrierVars, noWorkers, workers, running, adding, stopped,
                   coreUse, coreOf, failedRuns, threadVars>>

\* ~WorkerPoolImpl, then its members in reverse order of their declaration:
\* the workers, each joined, before the barrier they use.
Destroy == CallBarrier("client", "dtor_wait", WaitForAll(Host))

StopPool ==
    /\ HostGoes("dtor_wait", "dtor_release")
    /\ running' = FALSE
    /\ UNCHANGED <<barrierVars, noWorkers, workers, adding, stopped, coreUse,
                   coreOf, failedRuns, idleKnown, threadVars>>

DestroyRelease == CallBarrier("dtor_release", "dtor_join", ReleaseBody(Host, "post"))

DestroyWorker(w) ==
    /\ HostGoes("dtor_join", "dtor_join")
    /\ w \in workers
    /\ Join(w)
    /\ UNCHANGED <<barrierVars, noWorkers, running, adding, coreUse, coreOf,
                   failedRuns, idleKnown>>

DestroyBarrier ==
    /\ HostGoes("dtor_join", "destroyed")
    /\ AllJoined
    /\ UNCHANGED <<barrierVars, noWorkers, workers, running, adding, stopped,
                   coreUse, coreOf, failedRuns, idleKnown, threadVars>>

\* The host inside a call of the barrier.
InBarrierCall ==
    /\ Check(Host) \/ PostOne(Host) \/ ReleaseDone(Host)
    /\ UNCHANGED <<hostVars, threadVars>>

SpuriousReturn ==
    /\ SpuriousWake(Host)
    /\ UNCHANGED <<hostVars, threadVars>>

-----------------------------------------------------------------------------
\* _internal_worker_function.  Only the set-up before the loop can fail.
ThreadStarts(w) ==
    /\ wpc[w] = "init"
    /\ wpc' = [wpc EXCEPT ![w] = "ready"]
    /\ \/ UNCHANGED failed
       \/ InitMayFail /\ failed' = failed \cup {w}
    /\ UNCHANGED <<barrierVars, hostVars>>

ThreadMoves(w, from, to) ==
    /\ wpc[w] = from
    /\ wpc' = [wpc EXCEPT ![w] = to]
    /\ UNCHANGED <<failed, hostVars>>

Halts(w) == ThreadMoves(w, "ready", "wait") /\ Arrive(w)

Wakes(w) == ThreadMoves(w, "wait", "woken") /\ SemWait(w)

\* The condition checked when a thread comes out of the barrier.
MustExit(w) == ~running \/ w \in stopped

CallbackStarts(w) ==
    /\ ~MustExit(w)
    /\ ThreadMoves(w, "woken", "callback")
    /\ UNCHANGED barrierVars

CallbackReturns(w) ==
    /\ ThreadMoves(w, "callback", "ready")
    /\ UNCHANGED barrierVars

Exits(w) ==
    /\ MustExit(w)
    /\ ThreadMoves(w, "woken", "exited")
    /\ Detach(w)

-----------------------------------------------------------------------------
ClientCall ==
    \/ \E w \in Workers, request \in Requests : AddWorker(w, PickCore(request))
    \/ WaitForWorkersIdle
    \/ WakeupWorkers
    \/ WakeupAndWait
    \/ Destroy

HostStep ==
    \/ RunFails
    \/ RunSucceeds
    \/ SettleWorkers
    \/ WorkerAdded
    \/ StopFailedWorker
    \/ StopRelease
    \/ UnregisterFailed
    \/ JoinFailed
    \/ CallReturns
    \/ StopPool
    \/ DestroyRelease
    \/ \E w \in Workers : DestroyWorker(w)
    \/ DestroyBarrier
    \/ InBarrierCall

ThreadStep(w) ==
    \/ ThreadStarts(w)
    \/ Halts(w)
    \/ Wakes(w)
    \/ CallbackStarts(w)
    \/ CallbackReturns(w)
    \/ Exits(w)

\* Nothing is left to do once the pool is gone.
Terminated == pc = "destroyed" /\ UNCHANGED vars

Next ==
    \/ ClientCall
    \/ HostStep
    \/ SpuriousReturn
    \/ \E w \in Workers : ThreadStep(w)
    \/ Terminated

Spec == Init /\ [][Next]_vars

(***************************************************************************)
(* Threads are scheduled by the operating system: one that can go on does, *)
(* and a callback returns.  Nothing makes the client call the pool, or the *)
(* condition variable return without a signal.                             *)
(***************************************************************************)
FairSpec ==
    /\ Spec
    /\ WF_vars(HostStep)
    /\ \A w \in Workers : WF_vars(ThreadStep(w))

-----------------------------------------------------------------------------
\* The state of the pool is well formed: the flags of a worker do not outlive
\* its WorkerThread, and the number of workers is in range.
PoolTypeOK ==
    /\ BarrierTypeOK
    /\ pc \in HostPoints
    /\ noWorkers \in 0..Cardinality(Workers)
    /\ workers \subseteq Workers
    /\ running \in BOOLEAN
    /\ adding \in Workers \cup {NoThread}
    /\ wpc \in [Workers -> ThreadPoints]
    /\ stopped \subseteq workers
    /\ failed \subseteq workers
    /\ coreUse \in [Cores -> Nat]
    /\ coreOf \in [Workers -> Cores]
    /\ failedRuns \in [Cores -> Nat]
    /\ idleKnown \in BOOLEAN

\* assert(_no_threads_currently_on_barrier == _no_threads): the barrier is
\* released only when all its threads are halted on it.
AssertionHolds == [][active' # active => ReleaseAssertion]_vars

\* The pool calls the barrier as the barrier needs to be called: what
\* Barrier.tla shows of it holds in the pool.
KeepsBarrierContract == BarrierSpec

\* When the client has been told that the workers are idle they are: each is
\* halted on the semaphore that the next wakeup releases, and no callback
\* runs until then.
IdleMeansIdle ==
    pc = "client" /\ idleKnown =>
        /\ \A w \in workers : wpc[w] = "wait" /\ at[w] = active
        /\ onBarrier = noWorkers

\* What each worker is doing, as PoolRounds has it.
RoundJob(w) ==
    CASE wpc[w] \in {"none", "exited"} -> "absent"
      [] wpc[w] \in {"init", "ready"} -> "away"
      [] wpc[w] = "callback" -> "running"
      [] wpc[w] = "wait" /\ at[w] = active -> "idle"
      [] OTHER -> "due"

\* The host sleeps, or is about to, until all workers have halted.
RoundWaiting == ctl[Host] \in {"check", "cond", "post_wait"}

Rounds == INSTANCE PoolRounds
    WITH job <- [w \in Workers |-> RoundJob(w)], waiting <- RoundWaiting

\* The pool runs the callbacks in rounds.
RunsInRounds == Rounds!Spec

\* Every thread there is belongs to a WorkerThread of the pool, which joins
\* it; so none can use the barrier, or its callback, when the pool is gone.
ThreadsAreOwned ==
    \A w \in Workers : wpc[w] # "none" => w \in workers /\ pc # "destroyed"

OnCore(c) == Cardinality({w \in workers : coreOf[w] = c})

\* Between calls core_info() has "the number of workers assigned to them"
\* (twine.h) for every core on which no run() has failed: whatever else in
\* add_worker fails, in whatever order, gives the core back.  Cores with a failed
\* run() are excluded, since add_worker goes on counting those workers.
CoreInfoIsExact ==
    pc = "client" =>
        \A c \in Cores : failedRuns[c] = 0 => coreUse[c] = OnCore(c)

\* A worker that was released runs its callback, unless it is told to stop.
EveryWakeupRuns ==
    \A w \in Workers : RoundJob(w) = "due" ~> RoundJob(w) \in {"running", "absent"}

\* Every call of the client returns, the destructor too.
CallsReturn == pc # "client" ~> pc \in {"client", "destroyed"}
=============================================================================
